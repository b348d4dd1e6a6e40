------------------------ MODULE DispatchOutboxProofs ------------------------
(* Theorems about DispatchOutbox, for any rows, scanners, leases and       *)
(* backoffs, and any number of crashes and retries; those about time, from *)
(* LeaseCovers on, hold where a lease covers a scan.                       *)
EXTENDS DispatchOutbox, FiniteSetTheorems, FunctionTheorems, TLAPS

USE DEF crashVars

\* A step that changes nothing, or ends a transport command without a scan.
Aside == UNCHANGED <<rowVars, scanVars, historyVars, crashes>>

LEMMA StrayIsAside ==
  ASSUME UNCHANGED vars \/ \E x \in strays : StrayEnds(x)
  PROVE  Aside /\ strays' \subseteq strays
BY DEF vars, Aside, StrayEnds

\* What FromScan stores is a number that is due at once or in the future.
LEMMA FromScanNat ==
  ASSUME NEW s \in Scanners, age[s] \in Nat, NEW d \in Nat
  PROVE  FromScan(s, d) \in Nat
BY DEF FromScan, Larger

LEMMA BackoffNat ==
  ASSUME NEW n \in Nat
  PROVE  Backoff(n) \in Nat
<1> DEFINE k == Smaller(n, BackoffSteps)
<1>1. k \in 0..BackoffSteps
  BY ParameterAssumption DEF Smaller
<1>2. 2^k \in Nat
  BY <1>1, ParameterAssumption
<1> HIDE DEF k
<1>3. BaseBackoff * 2^k \in Nat
  BY <1>2, ParameterAssumption
<1> QED
  BY <1>3, ParameterAssumption DEF Backoff, Smaller, k

LEMMA StatusFacts ==
  /\ Live \subseteq Statuses
  /\ Terminal \subseteq Statuses
  /\ "absent" \notin Statuses
  /\ "purged" \notin Statuses
BY DEF Live, Terminal, Statuses

LEMMA ClaimIsNotNoClaim ==
  ASSUME NEW c \in Claims
  PROVE  c # NoClaim
BY ParameterAssumption DEF Claims, NoClaim

-----------------------------------------------------------------------------
LEMMA InitType == Init => TypeOK
<1> SUFFICES ASSUME Init PROVE TypeOK
  OBVIOUS
<1>1. (CHOOSE q \in Requests : TRUE) \in Requests
  BY ParameterAssumption
<1> QED
  BY <1>1, ParameterAssumption
     DEF Init, TypeOK, PCs, InFlight

\* The steps of producers, consumers and operators leave the scanners alone.
LEMMA OutsideType ==
  ASSUME TypeOK,
         NEW r \in Rows,
         \/ \E q \in Requests : Enqueue(r, q)
         \/ Ack(r) \/ Retry(r)
         \/ \E S \in SUBSET Rows : Purge(S)
  PROVE  TypeOK'
<1> USE DEF TypeOK, Statuses, Live, Terminal, MoveTo, scanVars, historyVars, InFlight
<1>1. CASE \E q \in Requests : Enqueue(r, q)
  <2> PICK q \in Requests : Enqueue(r, q)
    BY <1>1
  <2>1. q.life \in Nat \cup {Never}
    BY ParameterAssumption DEF RequestType
  <2> QED
    BY <2>1 DEF Enqueue
<1>2. CASE Ack(r)
  BY <1>2 DEF Ack
<1>3. CASE Retry(r)
  BY <1>3 DEF Retry
<1>4. CASE \E S \in SUBSET Rows : Purge(S)
  BY <1>4 DEF Purge
<1> QED
  BY <1>1, <1>2, <1>3, <1>4

\* Leaving a row, whether its claim was held or not.
LEMMA NextRowType ==
  ASSUME TypeOK, NEW s \in Scanners, NextRow(s)
  PROVE  /\ pc' \in [Scanners -> PCs]
         /\ batch' \in [Scanners -> SUBSET Snapshots]
         /\ cur' \in [Scanners -> Claims \cup {NoClaim}]
         /\ \A t \in Scanners : InFlight(t)' <=> cur'[t] # NoClaim
         /\ age' \in [Scanners -> Nat]
         /\ elapsed' \in [Scanners -> Nat]
BY DEF TypeOK, NextRow, Resume, InFlight, PCs

\* Reading the due rows and working through the snapshots.
LEMMA LoopType ==
  ASSUME TypeOK, NEW s \in Scanners,
         \/ Scan(s)
         \/ \E x \in batch[s] : ExpireRow(s, x) \/ Claim(s, x) \/ SkipRow(s, x)
  PROVE  TypeOK'
<1> USE DEF TypeOK, Statuses, Live, Terminal, MoveTo, scanVars, historyVars, rowVars,
            InFlight, PCs, Resume
<1>1. CASE Scan(s)
  <2>1. \A r \in Due : Snapshot(r) \in Snapshots
    BY DEF Due, Snapshot, Snapshots
  <2>2. batch' \in [Scanners -> SUBSET Snapshots]
    BY <1>1, <2>1 DEF Scan
  <2> QED
    BY <1>1, <2>2 DEF Scan
<1>2. ASSUME NEW x \in batch[s], ExpireRow(s, x) \/ Claim(s, x) \/ SkipRow(s, x)
      PROVE  TypeOK'
  <2>1. x \in Snapshots
    OBVIOUS
  <2>2. x.row \in Rows /\ x.attempt \in Nat
    BY <2>1 DEF Snapshots
  <2>3. CASE ExpireRow(s, x)
    BY <2>2, <2>3 DEF ExpireRow, Take
  <2>4. CASE Claim(s, x)
    <3>1. FromScan(s, Lease) \in Nat
      BY FromScanNat, ParameterAssumption
    <3>2. [row |-> x.row, attempt |-> x.attempt + 1, epoch |-> epoch[x.row]] \in Claims
      BY <2>2 DEF Claims
    <3>3. cur' \in [Scanners -> Claims \cup {NoClaim}] /\ \A t \in Scanners : InFlight(t)' <=> cur'[t] # NoClaim
      BY <2>4, <3>2, ClaimIsNotNoClaim DEF Claim
    <3> QED
      BY <2>2, <2>4, <3>1, <3>3 DEF Claim, Take
  <2>5. CASE SkipRow(s, x)
    BY <2>5 DEF SkipRow, Take
  <2> QED
    BY <1>2, <2>3, <2>4, <2>5
<1> QED
  BY <1>1, <1>2

\* The transport, and what it leads to.
LEMMA SendType ==
  ASSUME TypeOK, NEW s \in Scanners,
         \/ Launch(s) \/ NoTransport(s) \/ TransportOk(s) \/ TransportFails(s)
         \/ SettleSuccess(s) \/ DeadLetter(s) \/ RequeueFailed(s) \/ SetBackoff(s)
  PROVE  TypeOK'
<1>1. InFlight(s)
  BY DEF InFlight, Launch, NoTransport, TransportOk, TransportFails, SettleSuccess,
         DeadLetter, RequeueFailed, SetBackoff
<1>2. cur[s] \in Claims
  BY <1>1 DEF TypeOK
<1>3. cur[s].row \in Rows /\ cur[s].attempt \in Nat
  BY <1>2 DEF Claims
<1>4. FromScan(s, Backoff(cur[s].attempt)) \in Nat
  BY <1>3, FromScanNat, BackoffNat DEF TypeOK
<1>5. CASE Launch(s) \/ NoTransport(s) \/ TransportOk(s) \/ TransportFails(s)
  BY <1>2, <1>3, <1>5
     DEF TypeOK, Launch, NoTransport, TransportOk, TransportFails, InFlight, PCs,
         rowVars, historyVars
<1>6. CASE SettleSuccess(s)
  <2>1. AfterSuccess(s) \in Statuses
    BY DEF AfterSuccess, Statuses, Live, Terminal
  <2>2. status' \in [Rows -> Statuses \cup {"absent", "purged"}]
    BY <1>3, <1>6, <2>1 DEF SettleSuccess, MoveTo, TypeOK
  <2>3. wait' \in [Rows -> Nat]
    BY <1>3, <1>4, <1>6 DEF SettleSuccess, TypeOK
  <2> QED
    BY <1>6, <2>2, <2>3, NextRowType DEF SettleSuccess, TypeOK, historyVars
<1>7. CASE DeadLetter(s)
  <2>1. status' \in [Rows -> Statuses \cup {"absent", "purged"}]
    BY <1>3, <1>7 DEF DeadLetter, MoveTo, TypeOK, Statuses, Terminal
  <2> QED
    BY <1>7, <2>1, NextRowType DEF DeadLetter, TypeOK, historyVars
<1>8. CASE RequeueFailed(s)
  <2>1. status' \in [Rows -> Statuses \cup {"absent", "purged"}]
    BY <1>3, <1>8 DEF RequeueFailed, MoveTo, TypeOK, Statuses, Live
  <2>2. CASE NextRow(s)
    BY <1>8, <2>1, <2>2, NextRowType DEF RequeueFailed, TypeOK, historyVars
  <2>3. CASE ~NextRow(s)
    BY <1>2, <1>8, <2>1, <2>3 DEF RequeueFailed, TypeOK, historyVars, InFlight, PCs
  <2> QED
    BY <2>2, <2>3
<1>9. CASE SetBackoff(s)
  <2>1. wait' \in [Rows -> Nat]
    BY <1>3, <1>4, <1>9 DEF SetBackoff, TypeOK
  <2> QED
    BY <1>9, <2>1, NextRowType DEF SetBackoff, TypeOK, historyVars
<1> QED
  BY <1>5, <1>6, <1>7, <1>8, <1>9

LEMMA CrashType ==
  ASSUME TypeOK, NEW s \in Scanners, Crash(s)
  PROVE  TypeOK'
<1>1. crashes' \in 0..MaxCrashes
  BY ParameterAssumption DEF TypeOK, Crash
<1>2. cur' \in [Scanners -> Claims \cup {NoClaim}] /\ \A t \in Scanners : InFlight(t)' <=> cur'[t] # NoClaim
  BY DEF TypeOK, Crash, InFlight
<1>3. strays' \subseteq [row : Rows, elapsed : Nat]
  <2>1. pc[s] = "sending" => cur[s] \in Claims
    BY DEF TypeOK, InFlight
  <2>2. pc[s] = "sending" => [row |-> cur[s].row, elapsed |-> elapsed[s]] \in [row : Rows, elapsed : Nat]
    BY <2>1 DEF TypeOK, Claims
  <2> QED
    BY <2>2 DEF TypeOK, Crash
<1>4. pc' \in [Scanners -> PCs] /\ batch' \in [Scanners -> SUBSET Snapshots]
  BY DEF TypeOK, Crash, PCs
<1>5. age' \in [Scanners -> Nat] /\ elapsed' \in [Scanners -> Nat]
  BY DEF TypeOK, Crash
<1> QED
  BY <1>1, <1>2, <1>3, <1>4, <1>5 DEF TypeOK, Crash, rowVars, historyVars

LEMMA TickType ==
  ASSUME TypeOK, Tick
  PROVE  TypeOK'
<1>1. AgeCap \in Nat
  BY ParameterAssumption DEF AgeCap, Larger
<1>2. wait' \in [Rows -> Nat]
  BY DEF Tick, TypeOK, Countdown, Larger
<1>3. ttl' \in [Rows -> Int \cup {Never}]
  BY <1>1 DEF Tick, TypeOK, Larger
<1>4. age' \in [Scanners -> Nat] /\ elapsed' \in [Scanners -> Nat]
  BY <1>1, ParameterAssumption DEF Tick, TypeOK, Smaller
<1>5. strays' \subseteq [row : Rows, elapsed : Nat]
  <2>1. ASSUME NEW x \in strays
        PROVE  [x EXCEPT !.elapsed = Smaller(NotifyTimeout, @ + 1)] \in [row : Rows, elapsed : Nat]
    BY ParameterAssumption DEF TypeOK, Smaller
  <2> QED
    BY <2>1 DEF Tick
<1> QED
  BY <1>2, <1>3, <1>4, <1>5 DEF Tick, TypeOK, historyVars, InFlight

LEMMA NextType == TypeOK /\ [Next]_vars => TypeOK'
<1> SUFFICES ASSUME TypeOK, [Next]_vars PROVE TypeOK'
  OBVIOUS
<1>1. CASE \E r \in Rows, q \in Requests : Enqueue(r, q)
  BY <1>1, OutsideType
<1>2. CASE \E r \in Rows : Ack(r) \/ Retry(r)
  BY <1>2, OutsideType
<1>3. CASE \E S \in SUBSET Rows : Purge(S)
  BY <1>3, OutsideType DEF Purge
<1>4. ASSUME NEW s \in Scanners, Scan(s) \/ Work(s) \/ Crash(s)
      PROVE  TypeOK'
  BY <1>4, LoopType, SendType, CrashType DEF Work
<1>5. CASE Tick
  BY <1>5, TickType
<1>6. CASE UNCHANGED vars \/ \E x \in strays : StrayEnds(x)
  BY <1>6, StrayIsAside DEF TypeOK, Aside, rowVars, scanVars, historyVars, InFlight
<1> QED
  BY <1>1, <1>2, <1>3, <1>4, <1>5, <1>6 DEF Next

(* Types: in particular a scanner holds a claim exactly while it is in     *)
(* flight, and next_attempt_at never lies in the past when it is computed  *)
(* from a `now` captured long ago.                                         *)
THEOREM TypeCorrect == Spec => []TypeOK
<1> QED
  BY InitType, NextType, PTL DEF Spec

-----------------------------------------------------------------------------
\* A scanner other than the one that moves keeps its claim.
LEMMA ClaimKept ==
  ASSUME TypeOK, NEW s \in Scanners, NEW t \in Scanners, t # s,
         Scan(s) \/ Work(s) \/ Crash(s)
  PROVE  InFlight(t)' = InFlight(t) /\ cur'[t] = cur[t]
BY DEF TypeOK, InFlight, Scan, Work, Crash, Take, ExpireRow, Claim, SkipRow, Launch,
       NoTransport, TransportOk, TransportFails, SettleSuccess, DeadLetter,
       RequeueFailed, SetBackoff, NextRow, Resume

\* The only step of a scanner that starts a claim is Claim.
LEMMA ClaimOnlyKeptOrDropped ==
  ASSUME TypeOK, NEW s \in Scanners,
         Scan(s) \/ Work(s) \/ Crash(s),
         \A x \in batch[s] : ~Claim(s, x)
  PROVE  /\ InFlight(s)' => InFlight(s) /\ cur'[s] = cur[s]
         /\ UNCHANGED <<attempt, epoch>>
<1> USE DEF TypeOK, InFlight, Resume, rowVars, historyVars
<1>1. CASE Scan(s) \/ Crash(s)
  BY <1>1 DEF Scan, Crash
<1>2. CASE \E x \in batch[s] : ExpireRow(s, x) \/ SkipRow(s, x)
  BY <1>2 DEF ExpireRow, SkipRow, Take
<1>3. CASE Launch(s) \/ NoTransport(s) \/ TransportOk(s) \/ TransportFails(s)
  BY <1>3 DEF Launch, NoTransport, TransportOk, TransportFails
<1>4. CASE SettleSuccess(s) \/ DeadLetter(s) \/ RequeueFailed(s) \/ SetBackoff(s)
  BY <1>4 DEF SettleSuccess, DeadLetter, RequeueFailed, SetBackoff, NextRow
<1> QED
  BY <1>1, <1>2, <1>3, <1>4 DEF Work

LEMMA ClaimStep == TypeOK /\ ClaimInv /\ [Next]_vars => ClaimInv'
<1> SUFFICES ASSUME TypeOK, ClaimInv, [Next]_vars PROVE ClaimInv'
  OBVIOUS
<1> USE DEF ClaimInv, OneClaimPerAttempt
<1>0. \A s \in Scanners : InFlight(s) => cur[s] \in Claims
  BY DEF TypeOK
\* A step that changes neither claims nor counters.
<1>1. ASSUME UNCHANGED <<pc, cur, attempt, epoch>> PROVE ClaimInv'
  BY <1>1 DEF InFlight
<1>2. CASE \E r \in Rows, q \in Requests : Enqueue(r, q)
  BY <1>1, <1>2 DEF Enqueue, scanVars, historyVars
<1>3. ASSUME NEW r \in Rows, Retry(r) PROVE ClaimInv'
  <2>1. epoch' = [epoch EXCEPT ![r] = @ + 1] /\ attempt' = [attempt EXCEPT ![r] = 0]
        /\ UNCHANGED <<pc, cur>>
    BY <1>3 DEF Retry, scanVars
  <2>2. ASSUME NEW s \in Scanners, InFlight(s)
        PROVE  /\ cur[s].epoch <= epoch'[cur[s].row]
               /\ cur[s].epoch = epoch'[cur[s].row] =>
                    cur[s].attempt <= attempt'[cur[s].row]
    BY <1>0, <2>1, <2>2 DEF TypeOK, Claims
  <2> QED
    BY <2>1, <2>2 DEF InFlight
<1>4. CASE \E r \in Rows : Ack(r)
  BY <1>1, <1>4 DEF Ack, scanVars, historyVars
<1>5. CASE \E S \in SUBSET Rows : Purge(S)
  BY <1>1, <1>5 DEF Purge, scanVars, historyVars
<1>6. ASSUME NEW s \in Scanners, NEW x \in batch[s], Claim(s, x) PROVE ClaimInv'
  <2>1. x.row \in Rows /\ x.attempt \in Nat /\ attempt[x.row] = x.attempt
    BY <1>6 DEF Claim, ClaimWins, TypeOK, Snapshots
  <2>2. cur'[s] = [row |-> x.row, attempt |-> x.attempt + 1, epoch |-> epoch[x.row]]
    BY <1>6 DEF Claim, TypeOK
  <2>3. attempt' = [attempt EXCEPT ![x.row] = x.attempt + 1] /\ epoch' = epoch
    BY <1>6 DEF Claim
  <2>4. ASSUME NEW t \in Scanners, t # s
        PROVE  InFlight(t)' = InFlight(t) /\ cur'[t] = cur[t]
    BY <1>6, <2>4, ClaimKept DEF Work
  <2>5. ASSUME NEW t \in Scanners, t # s, InFlight(t)
        PROVE  /\ cur[t] # cur'[s]
               /\ cur[t].epoch <= epoch'[cur[t].row]
               /\ cur[t].epoch = epoch'[cur[t].row] =>
                    cur[t].attempt <= attempt'[cur[t].row]
    <3>1. cur[t] \in Claims
      BY <1>0, <2>5
    <3>2. cur[t].epoch = epoch[cur[t].row] => cur[t].attempt <= attempt[cur[t].row]
      BY <2>5
    <3> QED
      BY <2>1, <2>2, <2>3, <2>5, <3>1, <3>2 DEF TypeOK, Claims
  <2>6. /\ cur'[s].epoch <= epoch'[cur'[s].row]
        /\ cur'[s].attempt <= attempt'[cur'[s].row]
    BY <2>1, <2>2, <2>3 DEF TypeOK
  <2> QED
    BY <2>4, <2>5, <2>6
<1>7. ASSUME NEW s \in Scanners, Scan(s) \/ Work(s) \/ Crash(s),
             \A x \in batch[s] : ~Claim(s, x)
      PROVE  ClaimInv'
  <2>1. /\ InFlight(s)' => InFlight(s) /\ cur'[s] = cur[s]
        /\ UNCHANGED <<attempt, epoch>>
    BY <1>7, ClaimOnlyKeptOrDropped
  <2>2. \A t \in Scanners : t # s => InFlight(t)' = InFlight(t) /\ cur'[t] = cur[t]
    BY <1>7, ClaimKept
  <2> QED
    BY <2>1, <2>2
<1>8. CASE Tick
  BY <1>1, <1>8 DEF Tick, historyVars
<1>9. CASE UNCHANGED vars \/ \E x \in strays : StrayEnds(x)
  BY <1>1, <1>9, StrayIsAside DEF Aside, rowVars, scanVars, historyVars
<1> QED
  BY <1>2, <1>3, <1>4, <1>5, <1>6, <1>7, <1>8, <1>9 DEF Next

(* The guard on the attempt counter is enough: whatever scans overlap,     *)
(* stall or die, no two of them hold a claim of one row with the same      *)
(* attempt number between two operator retries.                            *)
THEOREM OneClaimPerAttemptHolds == Spec => []OneClaimPerAttempt
<1>1. Init => ClaimInv
  BY DEF Init, ClaimInv, OneClaimPerAttempt, InFlight
<1>2. ClaimInv => OneClaimPerAttempt
  BY DEF ClaimInv
<1> QED
  BY <1>1, <1>2, ClaimStep, TypeCorrect, PTL DEF Spec

-----------------------------------------------------------------------------
\* A move of one row's status, seen by its producer.
LEMMA PhaseMoves ==
  ASSUME TypeOK, NEW r \in Rows, NEW to, MoveTo(r, to)
  PROVE  phaseOf' = [phaseOf EXCEPT ![r] = PhaseOf(to)]
BY DEF TypeOK, MoveTo, phaseOf

LEMMA ContractKept ==
  ASSUME UNCHANGED <<status, req, exited0>>
  PROVE  UNCHANGED Contract!vars
BY DEF Contract!vars, phaseOf, needsAckOf

\* Requests are read back as they were enqueued.
LEMMA AckKept ==
  ASSUME UNCHANGED req
  PROVE  UNCHANGED needsAckOf
BY DEF needsAckOf

\* One settled row: the phase of an open row moves, nothing else does.
LEMMA SettleMoves ==
  ASSUME TypeOK, NEW r \in Rows, NEW to, MoveTo(r, to), status[r] \in Live,
         UNCHANGED <<req, exited0>>
  PROVE  Contract!Settle(r, PhaseOf(to))
<1>1. phaseOf[r] = "open"
  BY DEF phaseOf, PhaseOf, Live
<1> QED
  BY <1>1, PhaseMoves, AckKept DEF Contract!Settle, Contract!Goes

LEMMA SettleInvStep == TypeOK /\ SettleInv /\ [Next]_vars => SettleInv'
<1> SUFFICES ASSUME TypeOK, SettleInv, [Next]_vars PROVE SettleInv'
  OBVIOUS
<1> USE DEF SettleInv, SettledAsPromised
<1>0. \A s \in Scanners : InFlight(s) => cur[s] \in Claims /\ cur[s].row \in Rows
  BY DEF TypeOK, Claims
<1>1. ASSUME NEW r \in Rows, NEW q \in Requests, Enqueue(r, q) PROVE SettleInv'
  BY <1>0, <1>1 DEF Enqueue, MoveTo, scanVars, historyVars, InFlight, TypeOK
<1>2. ASSUME NEW r \in Rows, Ack(r) PROVE SettleInv'
  BY <1>0, <1>2 DEF Ack, MoveTo, scanVars, historyVars, InFlight, TypeOK
<1>3. ASSUME NEW r \in Rows, Retry(r) PROVE SettleInv'
  BY <1>0, <1>3 DEF Retry, MoveTo, scanVars, InFlight, TypeOK
<1>4. ASSUME NEW S \in SUBSET Rows, Purge(S) PROVE SettleInv'
  BY <1>0, <1>4 DEF Purge, scanVars, historyVars, InFlight, TypeOK
<1>5. ASSUME NEW s \in Scanners, Scan(s) \/ Crash(s) PROVE SettleInv'
  BY <1>0, <1>5 DEF Scan, Crash, rowVars, historyVars, InFlight, TypeOK
<1>6. ASSUME NEW s \in Scanners, NEW x \in batch[s],
             ExpireRow(s, x) \/ Claim(s, x) \/ SkipRow(s, x)
      PROVE  SettleInv'
  <2>1. x.row \in Rows /\ x.status \in Live
    BY DEF TypeOK, Snapshots
  <2>2. CASE ExpireRow(s, x)
    BY <1>0, <2>1, <2>2 DEF ExpireRow, Take, MoveTo, historyVars, InFlight, TypeOK, Resume
  <2>3. CASE Claim(s, x)
    BY <1>0, <2>1, <2>3 DEF Claim, Take, MoveTo, InFlight, TypeOK
  <2>4. CASE SkipRow(s, x)
    BY <1>0, <2>4 DEF SkipRow, Take, rowVars, historyVars, InFlight, TypeOK, Resume
  <2> QED
    BY <1>6, <2>2, <2>3, <2>4
<1>7. ASSUME NEW s \in Scanners,
             Launch(s) \/ NoTransport(s) \/ TransportOk(s) \/ TransportFails(s)
      PROVE  SettleInv'
  BY <1>0, <1>7
     DEF Launch, NoTransport, TransportOk, TransportFails, rowVars, historyVars,
         InFlight, TypeOK
<1>8. ASSUME NEW s \in Scanners, SettleSuccess(s) PROVE SettleInv'
  <2>1. cur[s].row \in Rows /\ cur[s].row \in exited0
    BY <1>0, <1>8 DEF SettleSuccess, InFlight
  <2>2. AfterSuccess(s) # "acked" /\ AfterSuccess(s) # "absent"
        /\ (AfterSuccess(s) = "delivered" => ~req[cur[s].row].ack)
    BY DEF AfterSuccess
  <2>3. SettledAsPromised'
    BY <1>8, <2>1, <2>2 DEF SettleSuccess, MoveTo, historyVars, TypeOK
  <2>4. \A t \in Scanners : InFlight(t)' => InFlight(t) /\ cur'[t] = cur[t] /\ pc'[t] = pc[t]
    BY <1>8 DEF SettleSuccess, NextRow, Resume, InFlight, TypeOK
  <2>5. \A r \in Rows : status[r] # "absent" => status'[r] # "absent"
    BY <1>8, <2>1, <2>2 DEF SettleSuccess, MoveTo, TypeOK
  <2> QED
    BY <1>0, <1>8, <2>3, <2>4, <2>5 DEF SettleSuccess, historyVars, InFlight
<1>9. ASSUME NEW s \in Scanners, DeadLetter(s) \/ RequeueFailed(s) \/ SetBackoff(s)
      PROVE  SettleInv'
  <2>1. cur[s].row \in Rows
    BY <1>0, <1>9 DEF DeadLetter, RequeueFailed, SetBackoff, InFlight
  <2>2. \A t \in Scanners :
          /\ InFlight(t)' => InFlight(t) /\ cur'[t] = cur[t]
          /\ pc'[t] = "ok" => pc[t] = "ok"
    BY <1>9 DEF DeadLetter, RequeueFailed, SetBackoff, NextRow, Resume, InFlight, TypeOK
  <2>3. \A r \in Rows :
          \/ status'[r] = status[r]
          \/ status'[r] \in {"dead_letter", "pending"}
    BY <1>9, <2>1 DEF DeadLetter, RequeueFailed, SetBackoff, MoveTo, TypeOK
  <2>4. UNCHANGED <<req, exited0>>
    BY <1>9 DEF DeadLetter, RequeueFailed, SetBackoff, historyVars
  <2> QED
    BY <1>0, <2>2, <2>3, <2>4 DEF InFlight
<1>10. CASE Tick
  BY <1>10 DEF Tick, historyVars, InFlight
<1>11. CASE UNCHANGED vars \/ \E x \in strays : StrayEnds(x)
  BY <1>11, StrayIsAside DEF Aside, rowVars, scanVars, historyVars, InFlight
<1> QED
  BY <1>1, <1>2, <1>3, <1>4, <1>5, <1>6, <1>7, <1>8, <1>9, <1>10, <1>11 DEF Next, Work

LEMMA SettleInvHolds == Spec => []SettleInv
<1>1. Init => SettleInv
  BY DEF Init, SettleInv, SettledAsPromised, InFlight
<1> QED
  BY <1>1, SettleInvStep, TypeCorrect, PTL DEF Spec

(* A delivered row saw its transport exit zero and needs no                *)
(* acknowledgement; only a row that requires one is ever acked.            *)
THEOREM SettledAsPromisedHolds == Spec => []SettledAsPromised
<1>1. SettleInv => SettledAsPromised
  BY DEF SettleInv
<1> QED
  BY <1>1, SettleInvHolds, PTL

-----------------------------------------------------------------------------
LEMMA ContractInit == Init => Contract!Init
<1> SUFFICES ASSUME Init PROVE Contract!Init
  OBVIOUS
<1>1. req \in [Rows -> Requests]
  BY ParameterAssumption DEF Init
<1>2. needsAckOf \in [Rows -> BOOLEAN]
  BY <1>1, ParameterAssumption DEF needsAckOf, RequestType
<1>3. phaseOf = [r \in Rows |-> "absent"]
  BY DEF Init, phaseOf, PhaseOf, Live
<1> QED
  BY <1>2, <1>3 DEF Init, Contract!Init

\* Every step of the outbox is a step of its contract, or none.
LEMMA ContractStep ==
  TypeOK /\ SettleInv /\ [Next]_vars => [Contract!Next]_(Contract!vars)
<1> SUFFICES ASSUME TypeOK, SettleInv, [Next]_vars
             PROVE  [Contract!Next]_(Contract!vars)
  OBVIOUS
<1>0. \A s \in Scanners : InFlight(s) => cur[s].row \in Rows
  BY DEF TypeOK, Claims
<1>p. /\ PhaseOf("pending") = "open" /\ PhaseOf("delivering") = "open"
      /\ PhaseOf("dead_letter") = "failed" /\ PhaseOf("expired") = "failed"
      /\ PhaseOf("delivered") = "delivered" /\ PhaseOf("acked") = "acked"
      /\ PhaseOf("absent") = "absent" /\ PhaseOf("purged") = "purged"
  BY DEF PhaseOf, Live
<1>s. ASSUME UNCHANGED <<status, req, exited0>>
      PROVE  [Contract!Next]_(Contract!vars)
  BY <1>s, ContractKept
\* A row that moves between pending and delivering stays open.
<1>o. ASSUME NEW r \in Rows, NEW to \in Live, MoveTo(r, to), status[r] \in Live,
             UNCHANGED <<req, exited0>>
      PROVE  [Contract!Next]_(Contract!vars)
  <2>1. phaseOf' = phaseOf
    BY <1>o, <1>p DEF MoveTo, phaseOf, TypeOK, Live
  <2> QED
    BY <1>o, <2>1, AckKept DEF Contract!vars
\* A live row that is given up.
<1>g. ASSUME NEW r \in Rows, NEW to \in {"dead_letter", "expired"}, MoveTo(r, to),
             status[r] \in Live, UNCHANGED <<req, exited0>>
      PROVE  [Contract!Next]_(Contract!vars)
  <2>1. Contract!GiveUp(r)
    BY <1>g, <1>p, SettleMoves DEF Contract!GiveUp
  <2> QED
    BY <2>1 DEF Contract!Next
<1>1. ASSUME NEW r \in Rows, NEW q \in Requests, Enqueue(r, q)
      PROVE  [Contract!Next]_(Contract!vars)
  <2>1. phaseOf' = [phaseOf EXCEPT ![r] = "open"] /\ phaseOf[r] = "absent"
    BY <1>1, <1>p, PhaseMoves DEF Enqueue, phaseOf
  <2>2. needsAckOf' = [needsAckOf EXCEPT ![r] = q.ack]
    BY <1>1 DEF Enqueue, needsAckOf, TypeOK
  <2>3. q.ack \in BOOLEAN
    BY ParameterAssumption DEF RequestType
  <2>4. Contract!Accept(r, q.ack)
    BY <1>1, <2>1, <2>2 DEF Enqueue, historyVars, Contract!Accept, Contract!Goes
  <2> QED
    BY <2>3, <2>4 DEF Contract!Next
<1>2. ASSUME NEW r \in Rows, Ack(r)
      PROVE  [Contract!Next]_(Contract!vars)
  <2>1. CASE status[r] = "acked"
    BY <1>2, <1>s, <2>1 DEF Ack, MoveTo, TypeOK, historyVars
  <2>2. CASE status[r] # "acked"
    <3>1. status[r] \in Live
      BY <1>2, <2>2 DEF Ack, Applies, Edges, Exists, Statuses, Live, Terminal
    <3>2. Contract!Settle(r, "acked")
      BY <1>2, <1>p, <3>1, SettleMoves DEF Ack, historyVars
    <3>3. Contract!Acknowledge(r)
      BY <1>2, <3>2 DEF Ack, Contract!Acknowledge, needsAckOf
    <3> QED
      BY <3>3 DEF Contract!Next
  <2> QED
    BY <2>1, <2>2
<1>3. ASSUME NEW r \in Rows, Retry(r)
      PROVE  [Contract!Next]_(Contract!vars)
  <2>1. phaseOf[r] = "failed"
    BY <1>3, <1>p DEF Retry, phaseOf
  <2>2. phaseOf' = [phaseOf EXCEPT ![r] = "open"]
    BY <1>3, <1>p, PhaseMoves DEF Retry
  <2>3. Contract!Reopen(r)
    BY <1>3, <2>1, <2>2, AckKept DEF Retry, Contract!Reopen, Contract!Goes
  <2> QED
    BY <2>3 DEF Contract!Next
<1>4. ASSUME NEW S \in SUBSET Rows, Purge(S)
      PROVE  [Contract!Next]_(Contract!vars)
  <2>1. \A r \in S : phaseOf[r] \in {"open"} \cup Contract!Settled
    BY <1>4, <1>p DEF Purge, Exists, Statuses, Live, Terminal, phaseOf, Contract!Settled
  <2>2. phaseOf' = [r \in Rows |-> IF r \in S THEN "purged" ELSE phaseOf[r]]
    BY <1>4, <1>p DEF Purge, phaseOf
  <2>3. Contract!Purge(S)
    BY <1>4, <2>1, <2>2, AckKept DEF Purge, historyVars, Contract!Purge
  <2> QED
    BY <2>3 DEF Contract!Next
<1>5. ASSUME NEW s \in Scanners, Scan(s) \/ Crash(s)
      PROVE  [Contract!Next]_(Contract!vars)
  BY <1>5, <1>s DEF Scan, Crash, rowVars, historyVars
<1>6. ASSUME NEW s \in Scanners, NEW x \in batch[s],
             ExpireRow(s, x) \/ Claim(s, x) \/ SkipRow(s, x)
      PROVE  [Contract!Next]_(Contract!vars)
  <2>1. x.row \in Rows /\ x.status \in Live
    BY DEF TypeOK, Snapshots
  <2>2. CASE ExpireRow(s, x)
    BY <1>g, <2>1, <2>2 DEF ExpireRow, Applies, historyVars
  <2>3. CASE Claim(s, x)
    BY <1>o, <2>1, <2>3 DEF Claim, ClaimWins, Applies, Live
  <2>4. CASE SkipRow(s, x)
    BY <1>s, <2>4 DEF SkipRow, rowVars, historyVars
  <2> QED
    BY <1>6, <2>2, <2>3, <2>4
<1>7. ASSUME NEW s \in Scanners, Launch(s) \/ NoTransport(s) \/ TransportFails(s) \/ SetBackoff(s)
      PROVE  [Contract!Next]_(Contract!vars)
  BY <1>7, <1>s DEF Launch, NoTransport, TransportFails, SetBackoff, rowVars, historyVars
<1>8. ASSUME NEW s \in Scanners, TransportOk(s)
      PROVE  [Contract!Next]_(Contract!vars)
  <2>1. cur[s].row \in Rows /\ status[cur[s].row] # "absent"
    BY <1>0, <1>8 DEF TransportOk, InFlight, SettleInv
  <2>2. phaseOf[cur[s].row] # "absent"
    BY <2>1, <1>p DEF phaseOf, TypeOK, Statuses, Live, Terminal
  <2>3. phaseOf' = phaseOf /\ needsAckOf' = needsAckOf
    BY <1>8 DEF TransportOk, rowVars, phaseOf, needsAckOf
  <2>4. Contract!TransportSucceeds(cur[s].row)
    BY <1>8, <2>2, <2>3 DEF TransportOk, Contract!TransportSucceeds
  <2> QED
    BY <2>1, <2>4 DEF Contract!Next
<1>9. ASSUME NEW s \in Scanners, SettleSuccess(s)
      PROVE  [Contract!Next]_(Contract!vars)
  <2> DEFINE r == cur[s].row
             to == AfterSuccess(s)
  <2>1. r \in Rows /\ r \in exited0 /\ UNCHANGED <<req, exited0>>
    BY <1>0, <1>9 DEF SettleSuccess, InFlight, SettleInv, historyVars
  <2>2. CASE ~Applies(r, "delivering", to)
    BY <1>9, <1>s, <2>1, <2>2 DEF SettleSuccess
  <2>3. CASE Applies(r, "delivering", to)
    <3>1. MoveTo(r, to) /\ status[r] \in Live
      BY <1>9, <2>3 DEF SettleSuccess, Applies, Live
    <3>2. CASE to = "delivered"
      <4>1. Contract!Settle(r, "delivered")
        BY <1>p, <2>1, <3>1, <3>2, SettleMoves
      <4>2. ~needsAckOf[r]
        BY <2>1, <3>2 DEF AfterSuccess, needsAckOf
      <4>3. Contract!Deliver(r)
        BY <2>1, <4>1, <4>2 DEF Contract!Deliver
      <4> QED
        BY <2>1, <4>3 DEF Contract!Next
    <3>3. CASE to = "dead_letter"
      BY <1>g, <2>1, <3>1, <3>3
    <3>4. CASE to = "pending"
      BY <1>o, <2>1, <3>1, <3>4 DEF Live
    <3> QED
      BY <3>2, <3>3, <3>4 DEF AfterSuccess
  <2> QED
    BY <2>2, <2>3
<1>10. ASSUME NEW s \in Scanners, DeadLetter(s) \/ RequeueFailed(s)
       PROVE  [Contract!Next]_(Contract!vars)
  <2>1. cur[s].row \in Rows /\ UNCHANGED <<req, exited0>>
    BY <1>0, <1>10 DEF DeadLetter, RequeueFailed, InFlight, historyVars
  <2>2. CASE DeadLetter(s)
    BY <1>g, <1>s, <2>1, <2>2 DEF DeadLetter, Applies, Live
  <2>3. CASE RequeueFailed(s)
    BY <1>o, <1>s, <2>1, <2>3 DEF RequeueFailed, Applies, Live
  <2> QED
    BY <1>10, <2>2, <2>3
<1>11. CASE Tick \/ UNCHANGED vars \/ \E x \in strays : StrayEnds(x)
  BY <1>11, <1>s, StrayIsAside DEF Tick, Aside, rowVars, historyVars
<1> QED
  BY <1>1, <1>2, <1>3, <1>4, <1>5, <1>6, <1>7, <1>8, <1>9, <1>10, <1>11 DEF Next, Work

(* The outbox implements its contract, for any number of scans, crashes,   *)
(* acknowledgements, retries and purges.                                   *)
THEOREM OutboxImplementsContract == Spec => ImplementsContract
<1> QED
  BY ContractInit, ContractStep, TypeCorrect, SettleInvHolds, PTL
     DEF Spec, ImplementsContract, Contract!Spec
-----------------------------------------------------------------------------
(* A scan fits into a lease: only the transport takes time, and a whole    *)
(* batch of transports less than a lease.                                  *)
ScanFits ==
  /\ Prompt
  /\ IsFiniteSet(Rows)
  /\ NotifyTimeout * Cardinality(Rows) < Lease

\* So the lease covers it, as long as nobody resets a counter.
LeaseCovers == ScanFits /\ MaxRetries = 0

\* What the transports of a whole scan may take, and those of the rows left.
Whole == NotifyTimeout * Cardinality(Rows)
Owed(s) == NotifyTimeout * Cardinality(batch[s])

(* The time a scanner has used up and the time it may still need make up   *)
(* at most that of a whole scan.                                           *)
OnTime(s) ==
  /\ \A x, y \in batch[s] : x.row = y.row => x = y
  /\ pc[s] = "loop" => age[s] + Owed(s) <= Whole
  /\ pc[s] = "claimed" => age[s] + Owed(s) + NotifyTimeout <= Whole
  /\ pc[s] = "sending" => /\ elapsed[s] <= NotifyTimeout
                          /\ age[s] + Owed(s) + NotifyTimeout <= Whole + elapsed[s]
  /\ pc[s] \in {"ok", "failed", "backoff"} => age[s] + Owed(s) <= Whole

AgesInv == \A s \in Scanners : OnTime(s)

LEMMA BatchFits ==
  ASSUME IsFiniteSet(Rows), NEW B \in SUBSET Snapshots,
         \A x, y \in B : x.row = y.row => x = y
  PROVE  /\ IsFiniteSet(B)
         /\ Cardinality(B) \in Nat
         /\ Cardinality(B) <= Cardinality(Rows)
<1> DEFINE f == [x \in B |-> x.row]
<1>1. f \in Injection(B, Rows)
  BY DEF Injection, IsInjective, Snapshots
<1> QED
  BY <1>1, FS_Injection, FS_CardinalityType

LEMMA LessBatch ==
  ASSUME ScanFits, TypeOK, NEW s \in Scanners, OnTime(s), NEW x \in batch[s]
  PROVE  NotifyTimeout * Cardinality(batch[s] \ {x}) = Owed(s) - NotifyTimeout
<1>1. IsFiniteSet(batch[s]) /\ Cardinality(batch[s]) \in Nat
  BY BatchFits DEF TypeOK, ScanFits, OnTime
<1>2. Cardinality(batch[s] \ {x}) = Cardinality(batch[s]) - 1
  BY <1>1, FS_RemoveElement
<1>3. \A n \in Nat : NotifyTimeout * (n - 1) = NotifyTimeout * n - NotifyTimeout
  BY ParameterAssumption
<1> QED
  BY <1>1, <1>2, <1>3 DEF Owed

LEMMA TimesNat ==
  ASSUME ScanFits, TypeOK
  PROVE  /\ Whole \in Nat
         /\ \A s \in Scanners : OnTime(s) => Owed(s) \in Nat
<1>0. \A n \in Nat : NotifyTimeout * n \in Nat
  BY ParameterAssumption
<1>1. Whole \in Nat
  BY <1>0, FS_CardinalityType DEF ScanFits, Whole
<1>2. ASSUME NEW s \in Scanners, OnTime(s) PROVE Owed(s) \in Nat
  BY <1>0, <1>2, BatchFits DEF TypeOK, ScanFits, OnTime, Owed
<1> QED
  BY <1>1, <1>2

LEMMA ScanOnTime ==
  ASSUME ScanFits, TypeOK, NEW s \in Scanners, Scan(s)
  PROVE  OnTime(s)'
<1>1. batch'[s] = {Snapshot(r) : r \in Due} /\ pc'[s] = "loop" /\ age'[s] = 0
  BY DEF Scan, TypeOK
<1>2. \A x, y \in batch'[s] : x.row = y.row => x = y
  BY <1>1 DEF Snapshot
<1>3a. \A r \in Due : Snapshot(r) \in Snapshots
  BY DEF Due, Snapshot, Snapshots, TypeOK
<1>3. batch'[s] \in SUBSET Snapshots
  BY <1>1, <1>3a
<1>4. Cardinality(batch'[s]) \in Nat /\ Cardinality(batch'[s]) <= Cardinality(Rows)
  BY <1>2, <1>3, BatchFits DEF ScanFits
<1>5. \A m, n \in Nat : m <= n => NotifyTimeout * m <= NotifyTimeout * n
  BY ParameterAssumption
<1>6. Owed(s)' <= Whole /\ Owed(s)' \in Int
  BY <1>4, <1>5, FS_CardinalityType, ParameterAssumption DEF Owed, Whole, ScanFits
<1> QED
  BY <1>1, <1>2, <1>6 DEF OnTime

LEMMA LoopOnTime ==
  ASSUME ScanFits, TypeOK, NEW s \in Scanners, OnTime(s), NEW x \in batch[s],
         ExpireRow(s, x) \/ Claim(s, x) \/ SkipRow(s, x)
  PROVE  OnTime(s)'
<1>1. /\ pc[s] = "loop" /\ batch'[s] = batch[s] \ {x}
      /\ pc'[s] \in {"loop", "idle", "claimed"}
      /\ pc'[s] # "idle" => age'[s] = age[s]
  BY DEF ExpireRow, Claim, SkipRow, Take, TypeOK, Resume
<1>2. Owed(s)' = Owed(s) - NotifyTimeout
  BY <1>1, LessBatch DEF Owed
<1> QED
  BY <1>1, <1>2, TimesNat, ParameterAssumption DEF OnTime, TypeOK

LEMMA SendOnTime ==
  ASSUME ScanFits, TypeOK, NEW s \in Scanners, OnTime(s),
         \/ Launch(s) \/ NoTransport(s) \/ TransportOk(s) \/ TransportFails(s)
         \/ SettleSuccess(s) \/ DeadLetter(s) \/ RequeueFailed(s) \/ SetBackoff(s)
  PROVE  OnTime(s)'
<1>1. batch' = batch /\ Owed(s)' = Owed(s) /\ (pc'[s] # "idle" => age'[s] = age[s])
  BY DEF Launch, NoTransport, TransportOk, TransportFails, SettleSuccess, DeadLetter,
         RequeueFailed, SetBackoff, NextRow, Resume, Owed, TypeOK
<1> USE <1>1, TimesNat, ParameterAssumption DEF OnTime, TypeOK
<1>2. CASE Launch(s) \/ NoTransport(s)
  BY <1>2 DEF Launch, NoTransport
<1>3. CASE TransportOk(s) \/ TransportFails(s)
  BY <1>3 DEF TransportOk, TransportFails
<1>4. CASE SettleSuccess(s) \/ DeadLetter(s) \/ RequeueFailed(s) \/ SetBackoff(s)
  <2>1. pc[s] \in {"ok", "failed", "backoff"} /\ pc'[s] \in {"idle", "loop", "backoff"}
    BY <1>4 DEF SettleSuccess, DeadLetter, RequeueFailed, SetBackoff, NextRow, Resume
  <2> QED
    BY <2>1
<1> QED
  BY <1>2, <1>3, <1>4

LEMMA TickOnTime ==
  ASSUME ScanFits, TypeOK, NEW s \in Scanners, OnTime(s), Tick
  PROVE  OnTime(s)'
<1>1. batch' = batch /\ pc' = pc /\ Owed(s)' = Owed(s)
  BY DEF Tick, Owed
<1>2. MayWait(s)
  BY DEF Tick, ScanFits
<1>3. pc[s] = "sending" =>
        /\ elapsed[s] < NotifyTimeout
        /\ elapsed'[s] = elapsed[s] + 1
        /\ age'[s] \in Nat /\ age'[s] <= age[s] + 1
  BY <1>2, ParameterAssumption DEF Tick, MayWait, Smaller, AgeCap, Larger, TypeOK
<1> QED
  BY <1>1, <1>2, <1>3, TimesNat, ParameterAssumption DEF OnTime, MayWait, TypeOK

LEMMA ScannerAlone ==
  ASSUME TypeOK, NEW s \in Scanners, NEW t \in Scanners, t # s,
         Scan(s) \/ Work(s) \/ Crash(s)
  PROVE  /\ pc'[t] = pc[t] /\ batch'[t] = batch[t] /\ cur'[t] = cur[t]
         /\ age'[t] = age[t] /\ elapsed'[t] = elapsed[t]
BY DEF TypeOK, Scan, Work, Crash, Take, ExpireRow, Claim, SkipRow, Launch,
       NoTransport, TransportOk, TransportFails, SettleSuccess, DeadLetter,
       RequeueFailed, SetBackoff, NextRow, Resume

LEMMA AgesStep ==
  ASSUME ScanFits
  PROVE  TypeOK /\ AgesInv /\ [Next]_vars => AgesInv'
<1> SUFFICES ASSUME TypeOK, AgesInv, [Next]_vars, NEW s \in Scanners
             PROVE  OnTime(s)'
  BY DEF AgesInv
<1>0. OnTime(s)
  BY DEF AgesInv
<1>1. ASSUME pc'[s] = pc[s], batch'[s] = batch[s], age'[s] = age[s], elapsed'[s] = elapsed[s]
      PROVE  OnTime(s)'
  BY <1>0, <1>1 DEF OnTime, Owed
<1>2. CASE (\E r \in Rows, q \in Requests : Enqueue(r, q)) \/ (\E r \in Rows : Ack(r) \/ Retry(r))
           \/ (\E S \in SUBSET Rows : Purge(S))
           \/ UNCHANGED vars \/ \E x \in strays : StrayEnds(x)
  BY <1>1, <1>2, StrayIsAside DEF Enqueue, Ack, Retry, Purge, Aside, scanVars
<1>3. ASSUME NEW t \in Scanners, Scan(t) \/ Work(t) \/ Crash(t)
      PROVE  OnTime(s)'
  <2>1. CASE t # s
    BY <1>1, <1>3, <2>1, ScannerAlone
  <2>2. CASE t = s /\ Scan(s)
    BY <2>2, ScanOnTime
  <2>3. CASE t = s /\ Crash(s)
    BY <2>3 DEF Crash, OnTime, TypeOK
  <2>4. CASE t = s /\ Work(s)
    BY <1>0, <2>4, LoopOnTime, SendOnTime DEF Work
  <2> QED
    BY <1>3, <2>1, <2>2, <2>3, <2>4
<1>4. CASE Tick
  BY <1>0, <1>4, TickOnTime
<1> QED
  BY <1>2, <1>3, <1>4 DEF Next

-----------------------------------------------------------------------------
\* The row of a claim is as its scanner left it, leased, or gone for good.
Keeps(s) ==
  LET r == cur[s].row IN
  \/ status[r] \in {"acked", "expired", "purged"}
  \/ /\ status[r] = IF pc[s] = "backoff" THEN "pending" ELSE "delivering"
     /\ wait[r] + age[s] >= Lease

HoldsWell(s) == InFlight(s) => Keeps(s) /\ cur[s].attempt = attempt[cur[s].row]

\* A snapshot is never newer than its row, and of a claimed row it is older.
Stale(t, s) ==
  \A x \in batch[t] :
    /\ x.attempt <= attempt[x.row]
    /\ WorksOn(s, x.row) => x.attempt < attempt[x.row]

OneAtATime ==
  \A s, t \in Scanners : InFlight(s) /\ InFlight(t) /\ cur[s].row = cur[t].row => s = t

LeaseInv ==
  /\ AgesInv
  /\ OneAtATime
  /\ \A s \in Scanners : HoldsWell(s)
  /\ \A s, t \in Scanners : Stale(t, s)

LEMMA ClaimTypes ==
  ASSUME TypeOK, NEW s \in Scanners, InFlight(s)
  PROVE  /\ cur[s].row \in Rows /\ cur[s].attempt \in Nat
         /\ status[cur[s].row] \in Statuses \cup {"absent", "purged"}
BY DEF TypeOK, Claims

\* A claimed row that is live is not due.
LEMMA ClaimedNotDue ==
  ASSUME LeaseCovers, TypeOK, LeaseInv, NEW s \in Scanners, InFlight(s)
  PROVE  cur[s].row \notin Due
<1>1. age[s] \in Nat /\ age[s] < Lease
  <2>1. OnTime(s)
    BY DEF LeaseInv, AgesInv
  <2> QED
    BY <2>1, TimesNat, ParameterAssumption DEF InFlight, OnTime, TypeOK, LeaseCovers, ScanFits, Whole
<1> QED
  BY <1>1, ClaimTypes, ParameterAssumption
     DEF LeaseInv, HoldsWell, Keeps, Due, Live, TypeOK

\* So nobody claims it.
LEMMA ClaimedNotWon ==
  ASSUME TypeOK, LeaseInv, NEW s \in Scanners, NEW t \in Scanners,
         NEW x \in batch[t], Claim(t, x)
  PROVE  ~WorksOn(s, x.row)
<1>1. x.row \in Rows /\ x.attempt = attempt[x.row] /\ x.attempt \in Nat
  BY DEF Claim, ClaimWins, TypeOK, Snapshots
<1>2. Stale(t, s)
  BY DEF LeaseInv
<1> QED
  BY <1>1, <1>2 DEF Stale

LEMMA LeaseOutside ==
  ASSUME LeaseCovers, TypeOK, LeaseInv, AgesInv',
         \/ \E r \in Rows, q \in Requests : Enqueue(r, q)
         \/ \E r \in Rows : Ack(r) \/ Retry(r)
         \/ \E S \in SUBSET Rows : Purge(S)
         \/ Aside
  PROVE  LeaseInv'
<1>0. ~\E r \in Rows : Retry(r)
  BY DEF Retry, LeaseCovers, TypeOK
<1>1. UNCHANGED <<attempt, wait, pc, batch, cur, age>>
  BY <1>0 DEF Enqueue, Ack, Purge, Aside, rowVars, scanVars
<1>2. \A r \in Rows : \/ status'[r] = status[r]
                      \/ status[r] = "absent"
                      \/ status'[r] \in {"acked", "purged"}
  BY <1>0 DEF Enqueue, Ack, Purge, MoveTo, Aside, rowVars, TypeOK
<1>3. ASSUME NEW s \in Scanners PROVE HoldsWell(s)'
  <2>1. HoldsWell(s)
    BY DEF LeaseInv
  <2>2. InFlight(s) => status[cur[s].row] # "absent" /\ cur[s].row \in Rows
    BY <2>1, ClaimTypes DEF HoldsWell, Keeps
  <2> QED
    BY <1>1, <1>2, <2>1, <2>2 DEF HoldsWell, Keeps, InFlight
<1>4. \A s, t \in Scanners : Stale(t, s)'
  BY <1>1 DEF LeaseInv, Stale, WorksOn, InFlight
<1>5. OneAtATime'
  BY <1>1 DEF LeaseInv, OneAtATime, InFlight
<1> QED
  BY <1>3, <1>4, <1>5 DEF LeaseInv

LEMMA LeaseTick ==
  ASSUME LeaseCovers, TypeOK, LeaseInv, AgesInv', Tick
  PROVE  LeaseInv'
<1>1. UNCHANGED <<attempt, pc, batch, cur, status>>
  BY DEF Tick
<1>3. ASSUME NEW s \in Scanners PROVE HoldsWell(s)'
  <2>1. HoldsWell(s)
    BY DEF LeaseInv
  <2> SUFFICES ASSUME InFlight(s), status[cur[s].row] \in Live
               PROVE  wait'[cur[s].row] + age'[s] >= Lease
    BY <1>1, <2>1, ClaimTypes DEF HoldsWell, Keeps, InFlight, Live
  <2>2. cur[s].row \in Rows /\ wait[cur[s].row] + age[s] >= Lease
    BY <2>1, ClaimTypes DEF HoldsWell, Keeps, Live
  <2>3. wait'[cur[s].row] = Countdown(wait[cur[s].row])
    BY <2>2 DEF Tick, Exists, Statuses, Live
  <2>4. age'[s] = Smaller(AgeCap, age[s] + 1)
    BY DEF Tick, InFlight
  <2> QED
    BY <2>2, <2>3, <2>4, ParameterAssumption DEF Countdown, Smaller, Larger, AgeCap, TypeOK
<1>4. \A s, t \in Scanners : Stale(t, s)'
  BY <1>1 DEF LeaseInv, Stale, WorksOn, InFlight
<1>5. OneAtATime'
  BY <1>1 DEF LeaseInv, OneAtATime, InFlight
<1> QED
  BY <1>3, <1>4, <1>5 DEF LeaseInv

\* Reading the due rows: none of them is claimed.
LEMMA LeaseScan ==
  ASSUME LeaseCovers, TypeOK, LeaseInv, AgesInv', NEW s \in Scanners, Scan(s)
  PROVE  LeaseInv'
<1>1. /\ UNCHANGED <<status, attempt, wait, cur>>
      /\ batch'[s] = {Snapshot(r) : r \in Due}
      /\ InFlight(s)' = FALSE
      /\ InFlight(s) = FALSE
  BY DEF Scan, TypeOK, rowVars, InFlight
<1>2. ASSUME NEW t \in Scanners, t # s
      PROVE  batch'[t] = batch[t] /\ age'[t] = age[t] /\ pc'[t] = pc[t]
  BY <1>2, ScannerAlone
<1>3. \A t \in Scanners : HoldsWell(t)'
  BY <1>1, <1>2 DEF LeaseInv, HoldsWell, Keeps, InFlight
<1>4. OneAtATime'
  BY <1>1, <1>2 DEF LeaseInv, OneAtATime, InFlight
<1>5. ASSUME NEW u \in Scanners PROVE Stale(s, u)'
  <2>1. ASSUME NEW x \in batch'[s]
        PROVE x.row \in Due /\ x.row \in Rows /\ x.attempt = attempt[x.row]
    BY <1>1 DEF Snapshot, Due
  <2>2. InFlight(u)' => InFlight(u)
    BY <1>1, <1>2 DEF InFlight
  <2> QED
    BY <1>1, <2>1, <2>2, ClaimedNotDue DEF Stale, WorksOn, TypeOK
<1>6. ASSUME NEW t \in Scanners, NEW u \in Scanners, t # s PROVE Stale(t, u)'
  BY <1>1, <1>2, <1>6 DEF LeaseInv, Stale, WorksOn, InFlight
<1> QED
  BY <1>3, <1>4, <1>5, <1>6 DEF LeaseInv

\* A row is claimed that nobody works on.
LEMMA LeaseClaim ==
  ASSUME LeaseCovers, TypeOK, LeaseInv, AgesInv', NEW s \in Scanners,
         NEW x \in batch[s], Claim(s, x)
  PROVE  LeaseInv'
<1> DEFINE r == x.row
<1>1. r \in Rows /\ x.attempt \in Nat /\ x.attempt = attempt[r]
  BY DEF Claim, ClaimWins, TypeOK, Snapshots
<1>2. /\ status' = [status EXCEPT ![r] = "delivering"]
      /\ attempt' = [attempt EXCEPT ![r] = x.attempt + 1]
      /\ wait' = [wait EXCEPT ![r] = FromScan(s, Lease)]
      /\ cur'[s].row = r /\ cur'[s].attempt = x.attempt + 1
      /\ pc'[s] = "claimed"
      /\ batch'[s] = batch[s] \ {x}
      /\ age' = age
  BY DEF Claim, Take, MoveTo, TypeOK
<1>3. ASSUME NEW t \in Scanners, t # s
      PROVE  /\ batch'[t] = batch[t] /\ pc'[t] = pc[t] /\ cur'[t] = cur[t]
             /\ ~WorksOn(t, r)
  BY <1>3, ScannerAlone, ClaimedNotWon DEF Work
<1>4. HoldsWell(s)'
  <2>1. wait'[r] + age'[s] >= Lease
    BY <1>1, <1>2, ParameterAssumption DEF TypeOK, FromScan, Larger
  <2>2. status'[r] = "delivering" /\ attempt'[r] = x.attempt + 1
    BY <1>1, <1>2 DEF TypeOK
  <2> QED
    BY <1>2, <2>1, <2>2 DEF HoldsWell, Keeps
<1>5. ASSUME NEW t \in Scanners, t # s PROVE HoldsWell(t)'
  <2>1. HoldsWell(t) /\ (InFlight(t)' = InFlight(t))
    BY <1>3, <1>5 DEF LeaseInv, InFlight
  <2>2. InFlight(t) => cur[t].row # r /\ cur[t].row \in Rows
    BY <1>3, <1>5, ClaimTypes DEF WorksOn
  <2> QED
    BY <1>2, <1>3, <1>5, <2>1, <2>2 DEF HoldsWell, Keeps, TypeOK
<1>6. OneAtATime'
  BY <1>2, <1>3 DEF LeaseInv, OneAtATime, InFlight, WorksOn
<1>7. ASSUME NEW t \in Scanners, NEW u \in Scanners PROVE Stale(t, u)'
  <2>1. Stale(t, u) /\ Stale(t, s)
    BY DEF LeaseInv
  <2> SUFFICES ASSUME NEW y \in batch'[t]
               PROVE  /\ y.attempt <= attempt'[y.row]
                      /\ WorksOn(u, y.row)' => y.attempt < attempt'[y.row]
    BY DEF Stale
  <2>2. y \in batch[t] /\ y.row \in Rows /\ y.attempt \in Nat
    BY <1>2, <1>3 DEF TypeOK, Snapshots
  <2>3. CASE y.row = r
    BY <1>1, <1>2, <2>1, <2>2, <2>3 DEF Stale, TypeOK
  <2>4. CASE y.row # r
    <3>1. attempt'[y.row] = attempt[y.row]
      BY <1>2, <2>2, <2>4 DEF TypeOK
    <3>2. WorksOn(u, y.row)' => WorksOn(u, y.row)
      BY <1>2, <1>3, <2>4 DEF WorksOn, InFlight
    <3> QED
      BY <2>1, <2>2, <3>1, <3>2 DEF Stale
  <2> QED
    BY <2>3, <2>4
<1> QED
  BY <1>4, <1>5, <1>6, <1>7 DEF LeaseInv

(* A step of a scanner that counts no attempt and starts no claim keeps    *)
(* the invariant, when it keeps its own claim well and leaves the rows of  *)
(* others alone, but for taking them to a status without return.           *)
LEMMA LeaseElse ==
  ASSUME LeaseCovers, TypeOK, LeaseInv, AgesInv', NEW s \in Scanners,
         UNCHANGED attempt,
         InFlight(s)' => InFlight(s) /\ cur'[s] = cur[s],
         HoldsWell(s)',
         batch'[s] \subseteq batch[s],
         \A t \in Scanners \ {s} :
            /\ pc'[t] = pc[t] /\ cur'[t] = cur[t] /\ batch'[t] = batch[t] /\ age'[t] = age[t],
         \A r \in Rows :
            \/ WorksOn(s, r)
            \/ status'[r] = status[r] /\ wait'[r] = wait[r]
            \/ status'[r] = "expired"
  PROVE  LeaseInv'
<1>1. ASSUME NEW t \in Scanners, t # s PROVE HoldsWell(t)'
  <2>1. HoldsWell(t) /\ (InFlight(t)' = InFlight(t))
    BY <1>1 DEF LeaseInv, InFlight
  <2>2. InFlight(t) => ~WorksOn(s, cur[t].row) /\ cur[t].row \in Rows
    BY <1>1, ClaimTypes DEF LeaseInv, OneAtATime, WorksOn
  <2> QED
    BY <1>1, <2>1, <2>2 DEF HoldsWell, Keeps
<1>2. OneAtATime'
  BY DEF LeaseInv, OneAtATime, InFlight
<1>3. ASSUME NEW t \in Scanners, NEW u \in Scanners PROVE Stale(t, u)'
  <2>1. Stale(t, u) /\ batch'[t] \subseteq batch[t]
    BY DEF LeaseInv
  <2>2. \A r \in Rows : WorksOn(u, r)' => WorksOn(u, r)
    BY DEF WorksOn, InFlight
  <2>3. \A x \in batch[t] : x.row \in Rows
    BY DEF TypeOK, Snapshots
  <2> QED
    BY <2>1, <2>2, <2>3 DEF Stale
<1> QED
  BY <1>1, <1>2, <1>3 DEF LeaseInv

LEMMA LeaseWork ==
  ASSUME LeaseCovers, TypeOK, LeaseInv, AgesInv', NEW s \in Scanners,
         Work(s) \/ Crash(s), \A x \in batch[s] : ~Claim(s, x)
  PROVE  LeaseInv'
<1>1. \A t \in Scanners \ {s} :
        /\ pc'[t] = pc[t] /\ cur'[t] = cur[t] /\ batch'[t] = batch[t] /\ age'[t] = age[t]
  BY ScannerAlone
<1>2. /\ InFlight(s)' => InFlight(s) /\ cur'[s] = cur[s]
      /\ UNCHANGED attempt
  BY ClaimOnlyKeptOrDropped
<1>h. HoldsWell(s) /\ (InFlight(s) => cur[s].row \in Rows)
  BY ClaimTypes DEF LeaseInv
<1>3. CASE Crash(s)
  BY <1>1, <1>2, <1>3, LeaseElse DEF Crash, rowVars, TypeOK, InFlight, HoldsWell
<1>4. CASE \E x \in batch[s] : ExpireRow(s, x) \/ SkipRow(s, x)
  <2>1. PICK x \in batch[s] : ExpireRow(s, x) \/ SkipRow(s, x)
    BY <1>4
  <2>2. ~InFlight(s)' /\ batch'[s] \subseteq batch[s]
    BY <2>1 DEF ExpireRow, SkipRow, Take, Resume, InFlight, TypeOK
  <2>3. \A r \in Rows : (status'[r] = status[r] /\ wait'[r] = wait[r]) \/ status'[r] = "expired"
    BY <2>1 DEF ExpireRow, SkipRow, rowVars, MoveTo, TypeOK
  <2> QED
    BY <1>1, <1>2, <2>2, <2>3, LeaseElse DEF HoldsWell
<1>5. CASE Launch(s) \/ NoTransport(s) \/ TransportOk(s) \/ TransportFails(s)
  <2>1. UNCHANGED <<status, wait, attempt, age, batch, cur>> /\ InFlight(s)
    BY <1>5 DEF Launch, NoTransport, TransportOk, TransportFails, rowVars, InFlight
  <2>2. pc[s] # "backoff" /\ pc'[s] # "backoff"
    BY <1>5 DEF Launch, NoTransport, TransportOk, TransportFails, TypeOK
  <2>3. HoldsWell(s)'
    BY <1>h, <2>1, <2>2 DEF HoldsWell, Keeps
  <2> QED
    BY <1>1, <1>2, <2>1, <2>3, LeaseElse
<1>6. CASE SettleSuccess(s) \/ DeadLetter(s) \/ SetBackoff(s) \/ (RequeueFailed(s) /\ NextRow(s))
  <2>1. InFlight(s) /\ ~InFlight(s)' /\ batch' = batch
    BY <1>6 DEF SettleSuccess, DeadLetter, SetBackoff, RequeueFailed, NextRow, Resume, InFlight, TypeOK
  <2>2. \A r \in Rows : r # cur[s].row => status'[r] = status[r] /\ wait'[r] = wait[r]
    BY <1>6, <1>h DEF SettleSuccess, DeadLetter, SetBackoff, RequeueFailed, MoveTo, InFlight, TypeOK
  <2> QED
    BY <1>1, <1>2, <2>1, <2>2, LeaseElse DEF HoldsWell, WorksOn
<1>7. CASE RequeueFailed(s) /\ ~NextRow(s)
  <2>1. /\ MoveTo(cur[s].row, "pending") /\ pc' = [pc EXCEPT ![s] = "backoff"]
        /\ UNCHANGED <<batch, cur, age, attempt, wait>>
        /\ pc[s] = "failed" /\ status[cur[s].row] = "delivering"
    BY <1>7 DEF RequeueFailed, Applies
  <2>2. InFlight(s)
    BY <2>1 DEF InFlight
  <2>3. HoldsWell(s)'
    BY <1>h, <2>1, <2>2 DEF HoldsWell, Keeps, MoveTo, TypeOK
  <2>4. \A r \in Rows : r # cur[s].row => status'[r] = status[r] /\ wait'[r] = wait[r]
    BY <1>h, <2>1, <2>2 DEF MoveTo, TypeOK
  <2> QED
    BY <1>1, <1>2, <2>1, <2>2, <2>3, <2>4, LeaseElse DEF WorksOn
<1> QED
  BY <1>3, <1>4, <1>5, <1>6, <1>7 DEF Work

LEMMA LeaseStep ==
  ASSUME LeaseCovers
  PROVE  TypeOK /\ LeaseInv /\ [Next]_vars => LeaseInv'
<1> SUFFICES ASSUME TypeOK, LeaseInv, [Next]_vars PROVE LeaseInv'
  OBVIOUS
<1>1. AgesInv'
  BY AgesStep DEF LeaseInv, LeaseCovers
<1>2. ASSUME NEW s \in Scanners, Scan(s) \/ Work(s) \/ Crash(s) PROVE LeaseInv'
  BY <1>1, <1>2, LeaseScan, LeaseClaim, LeaseWork
<1> QED
  BY <1>1, <1>2, LeaseOutside, LeaseTick, StrayIsAside DEF Next

LEMMA LeaseHolds ==
  ASSUME LeaseCovers
  PROVE  Spec => []LeaseInv
<1>1. Init => LeaseInv
  BY DEF Init, LeaseInv, AgesInv, OnTime, OneAtATime, HoldsWell, Stale, InFlight
<1>2. TypeOK /\ LeaseInv /\ [Next]_vars => LeaseInv'
  BY LeaseStep
<1> QED
  BY <1>1, <1>2, TypeCorrect, PTL DEF Spec

(* A row whose scan died over a command that is still within its timeout   *)
(* is in nobody's hands: it is gone for good, or its lease outlasts the    *)
(* timeout and what has been read of it is old.                            *)
Resting(r, left) ==
  /\ \A s \in Scanners : ~WorksOn(s, r)
  /\ \A s \in Scanners : \A x \in batch[s] : x.row = r => x.attempt < attempt[r]
  /\ \/ status[r] \in {"acked", "expired", "purged"}
     \/ status[r] = "delivering" /\ wait[r] > left

StrayInv ==
  \A x \in strays :
    x.elapsed < NotifyTimeout => Resting(x.row, NotifyTimeout - x.elapsed)

\* A row at rest stays there through every step but the clock's.
LEMMA RestKept ==
  ASSUME LeaseCovers, TypeOK, LeaseInv, [Next]_vars, ~Tick,
         NEW r \in Rows, NEW left \in Nat, Resting(r, left)
  PROVE  Resting(r, left)'
<1>0. status[r] \in {"acked", "expired", "purged", "delivering"}
  BY DEF Resting
<1>1. ASSUME UNCHANGED <<attempt, wait, pc, batch, cur>>,
             status'[r] = status[r] \/ status'[r] \in {"acked", "expired", "purged"}
      PROVE  Resting(r, left)'
  BY <1>1 DEF Resting, WorksOn, InFlight
<1>2. CASE \/ \E o \in Rows, q \in Requests : Enqueue(o, q)
           \/ \E o \in Rows : Ack(o) \/ Retry(o)
           \/ \E S \in SUBSET Rows : Purge(S)
  <2>1. ~\E o \in Rows : Retry(o)
    BY DEF Retry, LeaseCovers, TypeOK
  <2>2. UNCHANGED <<attempt, wait, pc, batch, cur>>
    BY <1>2, <2>1 DEF Enqueue, Ack, Purge, scanVars
  <2>3. status'[r] = status[r] \/ status'[r] \in {"acked", "purged"}
    BY <1>0, <1>2, <2>1 DEF Enqueue, Ack, Purge, MoveTo, TypeOK
  <2> QED
    BY <1>1, <2>2, <2>3
<1>3. CASE UNCHANGED vars \/ \E x \in strays : StrayEnds(x)
  BY <1>1, <1>3, StrayIsAside DEF Aside, rowVars, scanVars
<1>4. ASSUME NEW s \in Scanners, Scan(s) PROVE Resting(r, left)'
  <2>1. /\ UNCHANGED <<status, attempt, wait, cur>>
        /\ batch' = [batch EXCEPT ![s] = {Snapshot(o) : o \in Due}]
        /\ pc' = [pc EXCEPT ![s] = "loop"]
    BY <1>4 DEF Scan, rowVars
  <2>2. r \notin Due
    BY DEF Resting, Due, Live, TypeOK
  <2>3. \A x \in {Snapshot(o) : o \in Due} : x.row # r
    BY <2>2 DEF Snapshot
  <2> QED
    BY <2>1, <2>3 DEF Resting, WorksOn, InFlight, TypeOK
<1>5. ASSUME NEW s \in Scanners, NEW x \in batch[s], Claim(s, x) PROVE Resting(r, left)'
  <2>1. x.row \in Rows /\ x.attempt \in Nat /\ x.attempt = attempt[x.row]
    BY <1>5 DEF Claim, ClaimWins, TypeOK, Snapshots
  <2>2. x.row # r
    BY <2>1 DEF Resting
  <2>3. /\ status'[r] = status[r] /\ attempt'[r] = attempt[r] /\ wait'[r] = wait[r]
        /\ batch'[s] \subseteq batch[s] /\ cur'[s].row # r
    BY <1>5, <2>1, <2>2 DEF Claim, Take, MoveTo, TypeOK
  <2>4. \A t \in Scanners : t # s => pc'[t] = pc[t] /\ cur'[t] = cur[t] /\ batch'[t] = batch[t]
    BY <1>5, ScannerAlone DEF Work
  <2> QED
    BY <2>3, <2>4 DEF Resting, WorksOn, InFlight
<1>6. ASSUME NEW s \in Scanners, Work(s) \/ Crash(s), \A x \in batch[s] : ~Claim(s, x)
      PROVE  Resting(r, left)'
  <2>1. \A t \in Scanners : t # s => pc'[t] = pc[t] /\ cur'[t] = cur[t] /\ batch'[t] = batch[t]
    BY <1>6, ScannerAlone
  <2>2. (InFlight(s)' => InFlight(s) /\ cur'[s] = cur[s]) /\ UNCHANGED attempt
    BY <1>6, ClaimOnlyKeptOrDropped
  <2>3. batch'[s] \subseteq batch[s]
    BY <1>6
       DEF Work, Crash, ExpireRow, SkipRow, Take, Launch, NoTransport, TransportOk,
           TransportFails, SettleSuccess, DeadLetter, RequeueFailed, SetBackoff, NextRow, TypeOK
  <2>4. InFlight(s) => cur[s].row \in Rows /\ cur[s].row # r
    BY ClaimTypes DEF Resting, WorksOn
  <2>5. (status'[r] = status[r] \/ status'[r] = "expired") /\ wait'[r] = wait[r]
    <3>1. CASE Crash(s) \/ \E x \in batch[s] : ExpireRow(s, x) \/ SkipRow(s, x)
      BY <3>1 DEF Crash, ExpireRow, SkipRow, MoveTo, rowVars, TypeOK
    <3>2. CASE Launch(s) \/ NoTransport(s) \/ TransportOk(s) \/ TransportFails(s)
      BY <3>2 DEF Launch, NoTransport, TransportOk, TransportFails, rowVars
    <3>3. CASE SettleSuccess(s) \/ DeadLetter(s) \/ RequeueFailed(s) \/ SetBackoff(s)
      <4>1. InFlight(s)
        BY <3>3 DEF SettleSuccess, DeadLetter, RequeueFailed, SetBackoff, InFlight
      <4> QED
        BY <2>4, <3>3, <4>1
           DEF SettleSuccess, DeadLetter, RequeueFailed, SetBackoff, MoveTo, TypeOK
    <3> QED
      BY <1>6, <3>1, <3>2, <3>3 DEF Work
  <2>6. \A t \in Scanners : WorksOn(t, r)' => WorksOn(t, r)
    BY <2>1, <2>2 DEF WorksOn, InFlight
  <2>7. \A t \in Scanners : batch'[t] \subseteq batch[t]
    BY <2>1, <2>3
  <2> QED
    BY <2>2, <2>5, <2>6, <2>7 DEF Resting
<1> QED
  BY <1>2, <1>3, <1>4, <1>5, <1>6 DEF Next

\* The row of a scan that dies over its command is at rest.
LEMMA CrashLeavesRest ==
  ASSUME LeaseCovers, TypeOK, LeaseInv, NEW s \in Scanners, Crash(s), pc[s] = "sending",
         NEW r, r = cur[s].row,
         NEW left \in Nat, left = NotifyTimeout - elapsed[s]
  PROVE  Resting(r, left)'
<1>1. InFlight(s) /\ r \in Rows /\ WorksOn(s, r)
  BY ClaimTypes DEF InFlight, WorksOn
<1>2. /\ UNCHANGED <<status, attempt, wait>>
      /\ pc'[s] = "idle" /\ batch'[s] = {}
  BY DEF Crash, rowVars, TypeOK
<1>3. \A t \in Scanners : t # s => pc'[t] = pc[t] /\ cur'[t] = cur[t] /\ batch'[t] = batch[t]
  BY ScannerAlone
<1>4. \A t \in Scanners : ~WorksOn(t, r)'
  BY <1>1, <1>2, <1>3 DEF WorksOn, InFlight, LeaseInv, OneAtATime
<1>5. \A t \in Scanners : \A x \in batch'[t] : x.row = r => x.attempt < attempt[r]
  BY <1>1, <1>2, <1>3 DEF LeaseInv, Stale
<1>6. \/ status[r] \in {"acked", "expired", "purged"}
      \/ status[r] = "delivering" /\ wait[r] > left
  <2>1. Keeps(s) /\ OnTime(s)
    BY <1>1 DEF LeaseInv, AgesInv, HoldsWell
  <2>2. Owed(s) \in Nat /\ Whole \in Nat /\ Whole < Lease
    BY <2>1, TimesNat DEF LeaseCovers, ScanFits, Whole
  <2>3. age[s] + NotifyTimeout <= Whole + elapsed[s]
    BY <2>1, <2>2, ParameterAssumption DEF OnTime, TypeOK
  <2> QED
    BY <1>1, <2>1, <2>2, <2>3, ParameterAssumption DEF Keeps, TypeOK
<1> QED
  BY <1>2, <1>4, <1>5, <1>6 DEF Resting

LEMMA StrayStep ==
  ASSUME LeaseCovers
  PROVE  TypeOK /\ LeaseInv /\ StrayInv /\ [Next]_vars => StrayInv'
<1> SUFFICES ASSUME TypeOK, LeaseInv, StrayInv, [Next]_vars,
                    NEW y \in strays', y.elapsed < NotifyTimeout
             PROVE  Resting(y.row, NotifyTimeout - y.elapsed)'
  BY DEF StrayInv
<1>0. \A x \in strays : x.row \in Rows /\ x.elapsed \in Nat
  BY DEF TypeOK
<1>1. CASE Tick
  <2>1. PICK x \in strays : y = [x EXCEPT !.elapsed = Smaller(NotifyTimeout, x.elapsed + 1)]
    BY <1>1 DEF Tick
  <2>2. x.row \in Rows /\ x.elapsed \in Nat /\ x \in [row : Rows, elapsed : Nat]
    BY <1>0 DEF TypeOK
  <2>3. y.row = x.row /\ y.elapsed = x.elapsed + 1
    BY <2>1, <2>2, ParameterAssumption DEF Smaller
  <2>4. Resting(x.row, NotifyTimeout - x.elapsed)
    BY <2>2, <2>3, ParameterAssumption DEF StrayInv
  <2>5. UNCHANGED <<status, attempt, pc, batch, cur>>
    BY <1>1 DEF Tick
  <2>6. wait[x.row] > NotifyTimeout - x.elapsed => wait'[x.row] > NotifyTimeout - y.elapsed
    <3>1. wait'[x.row] = wait[x.row] \/ wait'[x.row] = Countdown(wait[x.row])
      BY <1>1, <2>2 DEF Tick
    <3> QED
      BY <2>2, <2>3, <3>1, ParameterAssumption DEF Countdown, Larger, TypeOK
  <2> QED
    BY <2>3, <2>4, <2>5, <2>6 DEF Resting, WorksOn, InFlight
<1>2. CASE ~Tick /\ y \in strays
  <2>1. NotifyTimeout - y.elapsed \in Nat /\ y.row \in Rows
    BY <1>0, <1>2, ParameterAssumption
  <2> QED
    BY <1>2, <2>1, RestKept DEF StrayInv
<1>3. CASE ~Tick /\ y \notin strays
  <2>1. PICK s \in Scanners : Crash(s)
    BY <1>3, StrayIsAside
       DEF Next, Enqueue, Ack, Retry, Purge, Scan, Work, ExpireRow, Claim, SkipRow, Take,
           Launch, NoTransport, TransportOk, TransportFails, SettleSuccess, DeadLetter,
           RequeueFailed, SetBackoff
  <2>2. pc[s] = "sending" /\ y = [row |-> cur[s].row, elapsed |-> elapsed[s]]
    BY <1>3, <2>1 DEF Crash
  <2>3. y.row = cur[s].row /\ y.elapsed = elapsed[s]
    BY <2>2
  <2>4. NotifyTimeout - y.elapsed \in Nat
    BY <2>3, ParameterAssumption DEF TypeOK
  <2> QED
    BY <2>1, <2>2, <2>3, <2>4, CrashLeavesRest
<1> QED
  BY <1>1, <1>2, <1>3

(* deliver_due_dispatches: while a lease covers a scan, two scans never    *)
(* send one row at once, and a row whose scan died is not sent again while *)
(* its command is within the timeout, whatever scans overlap and die.      *)
THEOREM SendsNeverOverlap ==
  ASSUME LeaseCovers
  PROVE  Spec => []NoOverlappingSends
<1>1. Init => StrayInv
  BY DEF Init, StrayInv
<1>2. TypeOK /\ LeaseInv /\ StrayInv /\ [Next]_vars => StrayInv'
  BY StrayStep
<1>3. TypeOK /\ LeaseInv /\ StrayInv => NoOverlappingSends
  <2> SUFFICES ASSUME TypeOK, LeaseInv, StrayInv, NEW s \in Scanners, pc[s] = "sending"
               PROVE  /\ \A t \in Scanners \ {s} : pc[t] = "sending" => cur[t].row # cur[s].row
                      /\ \A x \in strays : x.row = cur[s].row => x.elapsed >= NotifyTimeout
    BY DEF NoOverlappingSends
  <2>1. \A t \in Scanners \ {s} : pc[t] = "sending" => cur[t].row # cur[s].row
    BY DEF LeaseInv, OneAtATime, InFlight
  <2>2. ASSUME NEW x \in strays, x.row = cur[s].row, x.elapsed < NotifyTimeout PROVE FALSE
    BY <2>2 DEF StrayInv, Resting, WorksOn, InFlight
  <2>3. \A x \in strays : x.elapsed \in Nat
    BY DEF TypeOK
  <2> QED
    BY <2>1, <2>2, <2>3, ParameterAssumption
<1> QED
  BY <1>1, <1>2, <1>3, LeaseHolds, TypeCorrect, PTL DEF Spec

-----------------------------------------------------------------------------
Unclaimed(r) == \A s \in Scanners : ~WorksOn(s, r)
Attempts(r) == Larger(1, req[r].max)

(* Every claim counts one attempt and launches at most once; it either     *)
(* leaves attempts over, or ends the row, or the scan died over it.        *)
BudgetInv ==
  /\ \A r \in Rows :
       /\ sends[r] <= attempt[r]
       /\ status[r] = "absent" => attempt[r] = 0
       /\ attempt[r] <= Attempts(r) + crashes
       /\ status[r] \in Live /\ Unclaimed(r) => attempt[r] < Attempts(r) + crashes
  /\ \A s \in Scanners :
       /\ pc[s] = "claimed" => sends[cur[s].row] < attempt[cur[s].row]
       /\ pc[s] = "backoff" => ~Exhausted(s)

LEMMA AttemptsType ==
  ASSUME TypeOK, NEW r \in Rows
  PROVE  req[r].max \in Nat /\ Attempts(r) \in Nat \ {0} /\ crashes \in Nat
BY ParameterAssumption DEF TypeOK, RequestType, Attempts, Larger

LEMMA InFlightNotAbsent ==
  ASSUME LeaseInv, NEW s \in Scanners, InFlight(s)
  PROVE  status[cur[s].row] # "absent"
BY DEF LeaseInv, HoldsWell, Keeps

LEMMA BudgetOutside ==
  ASSUME LeaseCovers, TypeOK, LeaseInv, BudgetInv,
         \/ \E r \in Rows, q \in Requests : Enqueue(r, q)
         \/ \E r \in Rows : Ack(r) \/ Retry(r)
         \/ \E S \in SUBSET Rows : Purge(S)
         \/ Aside \/ Tick
  PROVE  BudgetInv'
<1>0. ~\E r \in Rows : Retry(r)
  BY DEF Retry, LeaseCovers, TypeOK
<1>1. UNCHANGED <<attempt, sends, crashes, pc, cur>>
  BY <1>0 DEF Enqueue, Ack, Purge, Tick, Aside, rowVars, scanVars, historyVars
<1>2. \A r \in Rows :
        \/ status'[r] = status[r] /\ req'[r] = req[r]
        \/ status[r] = "absent" /\ status'[r] = "pending" /\ req'[r] \in Requests
        \/ status[r] # "absent" /\ status'[r] \in {"acked", "purged"} /\ req'[r] = req[r]
  BY <1>0
     DEF Enqueue, Ack, Purge, Tick, MoveTo, Exists, Statuses, Live, Terminal, Aside, rowVars, TypeOK
<1>3. ASSUME NEW r \in Rows
      PROVE  /\ sends'[r] <= attempt'[r]
             /\ status'[r] = "absent" => attempt'[r] = 0
             /\ attempt'[r] <= Attempts(r)' + crashes'
             /\ status'[r] \in Live /\ Unclaimed(r)' => attempt'[r] < Attempts(r)' + crashes'
  <2>1. Unclaimed(r)' <=> Unclaimed(r)
    BY <1>1 DEF Unclaimed, WorksOn, InFlight
  <2>2. CASE status'[r] = status[r] /\ req'[r] = req[r]
    BY <1>1, <2>1, <2>2 DEF BudgetInv, Attempts
  <2>3. CASE status[r] = "absent" /\ status'[r] = "pending" /\ req'[r] \in Requests
    <3>1. req'[r].max \in Nat /\ attempt[r] = 0 /\ crashes \in Nat
      BY <2>3, AttemptsType, ParameterAssumption DEF RequestType, BudgetInv
    <3> QED
      BY <1>1, <2>3, <3>1 DEF BudgetInv, Attempts, Larger
  <2>4. CASE status[r] # "absent" /\ status'[r] \in {"acked", "purged"} /\ req'[r] = req[r]
    BY <1>1, <2>4 DEF BudgetInv, Attempts, Live
  <2> QED
    BY <1>2, <2>2, <2>3, <2>4
<1>4. ASSUME NEW s \in Scanners
      PROVE  /\ pc'[s] = "claimed" => sends'[cur'[s].row] < attempt'[cur'[s].row]
             /\ pc'[s] = "backoff" => ~Exhausted(s)'
  <2>1. InFlight(s) => cur[s].row \in Rows /\ status[cur[s].row] # "absent"
    BY ClaimTypes, InFlightNotAbsent
  <2> QED
    BY <1>1, <1>2, <2>1 DEF BudgetInv, InFlight, Exhausted
<1> QED
  BY <1>3, <1>4 DEF BudgetInv

LEMMA BudgetClaim ==
  ASSUME LeaseCovers, TypeOK, LeaseInv, BudgetInv, NEW s \in Scanners,
         NEW x \in batch[s], Claim(s, x)
  PROVE  BudgetInv'
<1> DEFINE r == x.row
<1>1. r \in Rows /\ x.attempt \in Nat /\ x.attempt = attempt[r] /\ status[r] \in Live
  BY DEF Claim, ClaimWins, Applies, TypeOK, Snapshots
<1>2. /\ status' = [status EXCEPT ![r] = "delivering"]
      /\ attempt' = [attempt EXCEPT ![r] = x.attempt + 1]
      /\ UNCHANGED <<sends, req, crashes>>
      /\ cur'[s].row = r
      /\ pc'[s] = "claimed"
  BY DEF Claim, Take, MoveTo, TypeOK
<1>3. \A t \in Scanners : t # s => pc'[t] = pc[t] /\ cur'[t] = cur[t]
  BY ScannerAlone DEF Work
<1>4. Unclaimed(r)
  BY ClaimedNotWon DEF Unclaimed
<1>5. attempt[r] < Attempts(r) + crashes /\ sends[r] <= attempt[r] /\ sends[r] \in Nat
  BY <1>1, <1>4 DEF BudgetInv, TypeOK
<1>6. ASSUME NEW q \in Rows
      PROVE  /\ sends'[q] <= attempt'[q]
             /\ status'[q] = "absent" => attempt'[q] = 0
             /\ attempt'[q] <= Attempts(q)' + crashes'
             /\ status'[q] \in Live /\ Unclaimed(q)' => attempt'[q] < Attempts(q)' + crashes'
  <2>1. CASE q = r
    <3>1. ~Unclaimed(r)'
      BY <1>2 DEF Unclaimed, WorksOn, InFlight
    <3>2. Attempts(r)' = Attempts(r)
      BY <1>2 DEF Attempts
    <3> QED
      BY <1>1, <1>2, <1>5, <2>1, <3>1, <3>2, AttemptsType DEF TypeOK
  <2>2. CASE q # r
    <3>1. Unclaimed(q)' => Unclaimed(q)
      <4>1. ~WorksOn(s, q)
        BY DEF WorksOn, InFlight, Claim, Take
      <4> QED
        BY <1>3, <4>1 DEF Unclaimed, WorksOn, InFlight
    <3>2. attempt'[q] = attempt[q] /\ status'[q] = status[q] /\ Attempts(q)' = Attempts(q)
      BY <1>1, <1>2, <2>2 DEF Attempts, TypeOK
    <3> QED
      BY <1>2, <3>1, <3>2 DEF BudgetInv
  <2> QED
    BY <2>1, <2>2
<1>7. ASSUME NEW t \in Scanners
      PROVE  /\ pc'[t] = "claimed" => sends'[cur'[t].row] < attempt'[cur'[t].row]
             /\ pc'[t] = "backoff" => ~Exhausted(t)'
  <2>1. CASE t = s
    BY <1>1, <1>2, <1>5, <2>1 DEF TypeOK
  <2>2. CASE t # s
    <3>1. InFlight(t) => cur[t].row # r /\ cur[t].row \in Rows
      BY <1>4, ClaimTypes DEF Unclaimed, WorksOn
    <3> QED
      BY <1>1, <1>2, <1>3, <2>2, <3>1 DEF BudgetInv, InFlight, Exhausted, TypeOK
  <2> QED
    BY <2>1, <2>2
<1> QED
  BY <1>6, <1>7 DEF BudgetInv

\* What a scanner does besides claiming.
LEMMA BudgetElse ==
  ASSUME LeaseCovers, TypeOK, LeaseInv, BudgetInv, NEW s \in Scanners,
         Scan(s) \/ Work(s) \/ Crash(s), \A x \in batch[s] : ~Claim(s, x)
  PROVE  BudgetInv'
<1>0. UNCHANGED <<attempt, req>>
  <2>1. UNCHANGED attempt
    BY ClaimOnlyKeptOrDropped
  <2>2. UNCHANGED req
    BY DEF Scan, Work, Crash, ExpireRow, SkipRow, Claim, Launch, NoTransport, TransportOk,
           TransportFails, SettleSuccess, DeadLetter, RequeueFailed, SetBackoff, rowVars
  <2> QED
    BY <2>1, <2>2
<1>1. \A t \in Scanners : t # s => pc'[t] = pc[t] /\ cur'[t] = cur[t]
  BY ScannerAlone
<1>2. InFlight(s)' => InFlight(s) /\ cur'[s] = cur[s]
  BY ClaimOnlyKeptOrDropped
<1>h. InFlight(s) => /\ cur[s].row \in Rows /\ cur[s].attempt = attempt[cur[s].row]
                     /\ Keeps(s)
  BY ClaimTypes DEF LeaseInv, HoldsWell
\* Only a row that s works on can lose its scanner.
<1>3. ASSUME NEW r \in Rows, ~WorksOn(s, r) PROVE Unclaimed(r)' => Unclaimed(r)
  BY <1>1, <1>3 DEF Unclaimed, WorksOn, InFlight
<1>4. ASSUME NEW r \in Rows, WorksOn(s, r)', Unclaimed(r)' PROVE FALSE
  BY <1>4 DEF Unclaimed
<1>5. CASE Crash(s)
  <2>1. UNCHANGED <<status, sends>> /\ crashes' = crashes + 1
    BY <1>5 DEF Crash, rowVars, historyVars
  <2>2. \A r \in Rows : Attempts(r)' = Attempts(r) /\ attempt[r] \in Nat
    BY <1>0 DEF Attempts, TypeOK
  <2>3. pc'[s] = "idle"
    BY <1>5 DEF Crash, TypeOK
  <2> QED
    BY <1>0, <1>1, <2>1, <2>2, <2>3, AttemptsType DEF BudgetInv, Exhausted
<1>6. CASE Launch(s)
  <2>1. /\ UNCHANGED <<status, crashes, cur>> /\ pc[s] = "claimed" /\ pc'[s] = "sending"
        /\ sends' = [sends EXCEPT ![cur[s].row] = @ + 1]
    BY <1>6 DEF Launch, rowVars, TypeOK
  <2>2. InFlight(s) /\ InFlight(s)'
    BY <2>1 DEF InFlight
  <2>3. \A r \in Rows : Unclaimed(r)' => Unclaimed(r)
    BY <1>3, <1>4, <2>1, <2>2 DEF WorksOn
  <2>4. \A r \in Rows : /\ Attempts(r)' = Attempts(r)
                        /\ sends'[r] <= attempt[r]
                        /\ r # cur[s].row => sends'[r] = sends[r]
    BY <1>0, <1>h, <2>1, <2>2 DEF Attempts, BudgetInv, TypeOK
  <2>5. \A t \in Scanners : t # s /\ InFlight(t) => cur[t].row # cur[s].row /\ cur[t].row \in Rows
    BY <2>2, ClaimTypes DEF LeaseInv, OneAtATime
  <2> QED
    BY <1>0, <1>1, <2>1, <2>3, <2>4, <2>5 DEF BudgetInv, InFlight, Exhausted
\* Besides these, neither launches nor crashes are counted.
<1>7. ASSUME UNCHANGED <<sends, crashes>>,
             \A r \in Rows : status'[r] = "absent" => status[r] = "absent",
             pc'[s] # "claimed" \/ pc'[s] = pc[s],
             pc'[s] = "backoff" => ~Exhausted(s),
             \A r \in Rows : ~WorksOn(s, r) => status'[r] = status[r] \/ status'[r] \notin Live,
             InFlight(s) /\ ~InFlight(s)' =>
               status'[cur[s].row] \notin Live \/ ~Exhausted(s)
      PROVE  BudgetInv'
  <2>1. ASSUME NEW r \in Rows, status'[r] \in Live, Unclaimed(r)'
        PROVE  attempt[r] < Attempts(r) + crashes
    <3>1. CASE WorksOn(s, r)
      <4>1. InFlight(s) /\ ~InFlight(s)' /\ cur[s].row = r
        BY <1>2, <1>4, <2>1, <3>1 DEF WorksOn
      <4>2. cur[s].attempt = attempt[r] /\ cur[s].attempt < req[r].max
        BY <1>7, <1>h, <2>1, <4>1, AttemptsType DEF Exhausted, TypeOK
      <4> QED
        BY <4>2, AttemptsType DEF Attempts, Larger, TypeOK
    <3>2. CASE ~WorksOn(s, r)
      BY <1>3, <1>7, <2>1, <3>2 DEF BudgetInv
    <3> QED
      BY <3>1, <3>2
  <2>2. \A r \in Rows : Attempts(r)' = Attempts(r)
    BY <1>0 DEF Attempts
  <2>3. \A r \in Rows :
          /\ sends'[r] <= attempt'[r]
          /\ status'[r] = "absent" => attempt'[r] = 0
          /\ attempt'[r] <= Attempts(r)' + crashes'
          /\ status'[r] \in Live /\ Unclaimed(r)' => attempt'[r] < Attempts(r)' + crashes'
    BY <1>0, <1>7, <2>1, <2>2 DEF BudgetInv
  <2>4. ASSUME NEW t \in Scanners
        PROVE  /\ pc'[t] = "claimed" => sends'[cur'[t].row] < attempt'[cur'[t].row]
               /\ pc'[t] = "backoff" => ~Exhausted(t)'
    <3>1. CASE t # s
      BY <1>0, <1>1, <1>7, <3>1 DEF BudgetInv, Exhausted
    <3>2. CASE t = s
      BY <1>0, <1>2, <1>7, <3>2 DEF BudgetInv, Exhausted, InFlight
    <3> QED
      BY <3>1, <3>2
  <2> QED
    BY <2>3, <2>4 DEF BudgetInv
<1>8. CASE Scan(s)
  BY <1>7, <1>8 DEF Scan, rowVars, historyVars, InFlight, TypeOK
<1>9. CASE \E x \in batch[s] : ExpireRow(s, x) \/ SkipRow(s, x)
  <2>1. /\ UNCHANGED <<sends, crashes>> /\ ~InFlight(s) /\ pc'[s] \in {"loop", "idle"}
        /\ \A r \in Rows : status'[r] = status[r] \/ status'[r] = "expired"
    BY <1>9 DEF ExpireRow, SkipRow, Take, MoveTo, Resume, InFlight, rowVars, historyVars, TypeOK
  <2> QED
    BY <1>7, <2>1 DEF Live
<1>10. CASE NoTransport(s) \/ TransportOk(s) \/ TransportFails(s)
  <2>1. UNCHANGED <<sends, crashes, status>> /\ InFlight(s)' /\ pc'[s] \in {"ok", "failed"}
    BY <1>10 DEF NoTransport, TransportOk, TransportFails, InFlight, rowVars, historyVars, TypeOK
  <2> QED
    BY <1>7, <2>1
<1>11. CASE SettleSuccess(s) \/ DeadLetter(s)
  <2>1. /\ InFlight(s) /\ pc[s] \in {"ok", "failed"} /\ UNCHANGED <<sends, crashes>>
        /\ pc'[s] \in {"loop", "idle"}
    BY <1>11 DEF SettleSuccess, DeadLetter, NextRow, Resume, InFlight, historyVars, TypeOK
  <2>2. \A r \in Rows : r # cur[s].row => status'[r] = status[r]
    BY <1>11, <1>h, <2>1 DEF SettleSuccess, DeadLetter, MoveTo, TypeOK
  <2>3. /\ status'[cur[s].row] \notin Live \/ ~Exhausted(s)
        /\ status'[cur[s].row] # "absent"
    <3>1. CASE status[cur[s].row] = "delivering"
      BY <1>11, <1>h, <2>1, <3>1
         DEF SettleSuccess, DeadLetter, MoveTo, AfterSuccess, Applies, Edges, Statuses, Live,
             Terminal, TypeOK
    <3>2. CASE status[cur[s].row] \in {"acked", "expired", "purged"}
      BY <1>11, <1>h, <2>1, <3>2 DEF SettleSuccess, DeadLetter, Applies, Live
    <3> QED
      BY <1>h, <2>1, <3>1, <3>2 DEF Keeps
  <2> QED
    BY <1>7, <2>1, <2>2, <2>3 DEF WorksOn
<1>12. CASE RequeueFailed(s) \/ SetBackoff(s)
  <2>1. /\ InFlight(s) /\ UNCHANGED <<sends, crashes>> /\ pc'[s] \in {"loop", "idle", "backoff"}
        /\ ~Exhausted(s)
    BY <1>12 DEF RequeueFailed, SetBackoff, NextRow, Resume, InFlight, historyVars, BudgetInv, TypeOK
  <2>2. \A r \in Rows : r # cur[s].row => status'[r] = status[r]
    BY <1>12, <1>h, <2>1 DEF RequeueFailed, SetBackoff, MoveTo, TypeOK
  <2>3. status'[cur[s].row] = "absent" => status[cur[s].row] = "absent"
    BY <1>12, <1>h, <2>1 DEF RequeueFailed, SetBackoff, MoveTo, TypeOK
  <2> QED
    BY <1>7, <2>1, <2>2, <2>3 DEF WorksOn
<1> QED
  BY <1>5, <1>6, <1>8, <1>9, <1>10, <1>11, <1>12 DEF Work

(* enqueue_dispatch: while a lease covers a scan, max_attempts bounds the  *)
(* transport commands of a row, but for one more per scan that died.       *)
THEOREM SendsAreBounded ==
  ASSUME LeaseCovers
  PROVE  Spec => []SendsWithinBudget
<1>1. Init => BudgetInv
  BY AttemptsType, InitType DEF Init, BudgetInv, Live
<1>2. TypeOK /\ LeaseInv /\ BudgetInv /\ [Next]_vars => BudgetInv'
  BY BudgetOutside, BudgetClaim, BudgetElse, StrayIsAside DEF Next, Work
<1>3. TypeOK /\ BudgetInv => SendsWithinBudget
  BY AttemptsType DEF BudgetInv, SendsWithinBudget, Attempts, TypeOK
<1> QED
  BY <1>1, <1>2, <1>3, LeaseHolds, TypeCorrect, PTL DEF Spec

-----------------------------------------------------------------------------
\* No backoff is ever written into a row that is claimed.
LeasedInv == \A r \in Rows : status[r] = "delivering" => wait[r] <= Lease

LEMMA LeasedStep ==
  ASSUME LeaseCovers
  PROVE  TypeOK /\ LeaseInv /\ LeasedInv /\ [Next]_vars => LeasedInv'
<1> SUFFICES ASSUME TypeOK, LeaseInv, LeasedInv, [Next]_vars, NEW r \in Rows,
                    status'[r] = "delivering"
             PROVE  wait'[r] <= Lease
  BY DEF LeasedInv
<1>0. ASSUME wait'[r] = wait[r], status'[r] = status[r] PROVE wait'[r] <= Lease
  BY <1>0 DEF LeasedInv
<1>1. ASSUME NEW o \in Rows,
             (\E q \in Requests : Enqueue(o, q)) \/ Ack(o) \/ Retry(o)
      PROVE  wait'[r] <= Lease
  BY <1>0, <1>1 DEF Enqueue, Ack, Retry, MoveTo, TypeOK
<1>2. ASSUME NEW S \in SUBSET Rows, Purge(S) PROVE wait'[r] <= Lease
  BY <1>0, <1>2 DEF Purge
<1>3. CASE Tick
  <2>1. wait'[r] = Countdown(wait[r]) \/ wait'[r] = wait[r]
    BY <1>3 DEF Tick
  <2>2. wait[r] <= Lease /\ wait[r] \in Nat
    BY <1>3 DEF Tick, LeasedInv, TypeOK
  <2> QED
    BY <2>1, <2>2, ParameterAssumption DEF Countdown, Larger
<1>4. ASSUME NEW s \in Scanners, NEW x \in batch[s], Claim(s, x) PROVE wait'[r] <= Lease
  <2>1. FromScan(s, Lease) <= Lease
    BY ParameterAssumption DEF FromScan, Larger, TypeOK
  <2> QED
    BY <1>0, <1>4, <2>1 DEF Claim, MoveTo, TypeOK
<1>5. ASSUME NEW s \in Scanners,
             \/ Scan(s) \/ Crash(s) \/ \E x \in batch[s] : ExpireRow(s, x) \/ SkipRow(s, x)
             \/ Launch(s) \/ NoTransport(s) \/ TransportOk(s) \/ TransportFails(s)
      PROVE  wait'[r] <= Lease
  BY <1>0, <1>5
     DEF Scan, Crash, ExpireRow, SkipRow, Launch, NoTransport, TransportOk, TransportFails,
         MoveTo, rowVars, TypeOK
<1>6. ASSUME NEW s \in Scanners,
             SettleSuccess(s) \/ DeadLetter(s) \/ RequeueFailed(s) \/ SetBackoff(s)
      PROVE  wait'[r] <= Lease
  <2>1. InFlight(s) /\ cur[s].row \in Rows /\ Keeps(s)
    BY <1>6, ClaimTypes
       DEF SettleSuccess, DeadLetter, RequeueFailed, SetBackoff, InFlight, LeaseInv, HoldsWell
  <2>2. CASE SettleSuccess(s)
    BY <1>0, <2>1, <2>2 DEF SettleSuccess, AfterSuccess, MoveTo, TypeOK
  <2>3. CASE DeadLetter(s) \/ RequeueFailed(s)
    BY <1>0, <2>1, <2>3 DEF DeadLetter, RequeueFailed, MoveTo, TypeOK
  <2>4. CASE SetBackoff(s)
    BY <1>0, <2>1, <2>4 DEF SetBackoff, Keeps, TypeOK
  <2> QED
    BY <1>6, <2>2, <2>3, <2>4
<1>7. CASE UNCHANGED vars \/ \E x \in strays : StrayEnds(x)
  BY <1>0, <1>7, StrayIsAside DEF Aside, rowVars
<1> QED
  BY <1>1, <1>2, <1>3, <1>4, <1>5, <1>6, <1>7 DEF Next, Work

(* _CLAIM_LEASE_SECONDS: while a lease covers a scan, a row whose scanner  *)
(* died is due again within one lease; no late backoff postpones it.       *)
THEOREM ClaimsAreRecoverable ==
  ASSUME LeaseCovers
  PROVE  Spec => []RecoverableWithinLease
<1>1. Init => LeasedInv
  BY DEF Init, LeasedInv
<1>2. LeasedInv => RecoverableWithinLease
  BY DEF LeasedInv, RecoverableWithinLease
<1>3. TypeOK /\ LeaseInv /\ LeasedInv /\ [Next]_vars => LeasedInv'
  BY LeasedStep
<1> QED
  BY <1>1, <1>2, <1>3, LeaseHolds, TypeCorrect, PTL DEF Spec

-----------------------------------------------------------------------------
\* When the scan of s began, the deadline of r was still to come.
Ahead(s, r) == ttl[r] # Never => ttl[r] + age[s] > 0

\* What a scan read of the deadlines was true when it read it.
MeetsDeadline(s) ==
  /\ pc[s] = "idle" => batch[s] = {}
  /\ \A x \in batch[s] : status[x.row] # "absent" /\ (~x.lapsed => Ahead(s, x.row))
  /\ InFlight(s) => status[cur[s].row] # "absent"
  /\ pc[s] = "claimed" => Ahead(s, cur[s].row)
DeadlineInv == \A s \in Scanners : MeetsDeadline(s)

\* A row that exists keeps its deadline, but for the clock, and leaves a trace.
LEMMA DeadlineKept ==
  ASSUME TypeOK, [Next]_vars, ~Tick, NEW r \in Rows, status[r] # "absent"
  PROVE  ttl'[r] = ttl[r] /\ status'[r] # "absent"
<1>1. ASSUME NEW o \in Rows,
             (\E q \in Requests : Enqueue(o, q)) \/ Ack(o) \/ Retry(o)
      PROVE  ttl'[r] = ttl[r] /\ status'[r] # "absent"
  BY <1>1 DEF Enqueue, Ack, Retry, MoveTo, TypeOK
<1>2. ASSUME NEW S \in SUBSET Rows, Purge(S)
      PROVE  ttl'[r] = ttl[r] /\ status'[r] # "absent"
  BY <1>2 DEF Purge
<1>3. ASSUME NEW s \in Scanners, Scan(s) \/ Crash(s)
      PROVE  ttl'[r] = ttl[r] /\ status'[r] # "absent"
  BY <1>3 DEF Scan, Crash, rowVars
<1>4. ASSUME NEW s \in Scanners,
             \/ \E x \in batch[s] : ExpireRow(s, x) \/ Claim(s, x) \/ SkipRow(s, x)
             \/ Launch(s) \/ NoTransport(s) \/ TransportOk(s) \/ TransportFails(s)
      PROVE  ttl'[r] = ttl[r] /\ status'[r] # "absent"
  BY <1>4 DEF ExpireRow, Claim, SkipRow, Launch, NoTransport, TransportOk, TransportFails,
              MoveTo, rowVars, TypeOK
<1>5. ASSUME NEW s \in Scanners,
             SettleSuccess(s) \/ DeadLetter(s) \/ RequeueFailed(s) \/ SetBackoff(s)
      PROVE  ttl'[r] = ttl[r] /\ status'[r] # "absent"
  BY <1>5 DEF SettleSuccess, DeadLetter, RequeueFailed, SetBackoff, AfterSuccess,
              MoveTo, TypeOK
<1>6. CASE UNCHANGED vars \/ \E x \in strays : StrayEnds(x)
  BY <1>6, StrayIsAside DEF Aside, rowVars
<1> QED
  BY <1>1, <1>2, <1>3, <1>4, <1>5, <1>6 DEF Next, Work

LEMMA DeadlineTick ==
  ASSUME ScanFits, TypeOK, Tick, NEW s \in Scanners, MeetsDeadline(s), OnTime(s)
  PROVE  MeetsDeadline(s)'
<1>1. pc[s] \in {"idle", "sending"} /\ UNCHANGED <<pc, batch, cur, status>>
  BY DEF ScanFits, Tick, MayWait
<1>2. ASSUME NEW r \in Rows, pc[s] = "sending", Ahead(s, r) PROVE Ahead(s, r)'
  <2>1. age[s] \in Nat /\ age[s] < AgeCap
    <3>1. age[s] < Lease
      BY <1>2, TimesNat, ParameterAssumption DEF OnTime, ScanFits, Whole, TypeOK
    <3> QED
      BY <3>1, ParameterAssumption DEF AgeCap, Larger, TypeOK
  <2>2. age'[s] = age[s] + 1
    BY <1>2, <2>1, ParameterAssumption DEF Tick, Smaller, AgeCap, Larger
  <2>3. ttl[r] \in Int => ttl'[r] \in Int /\ ttl'[r] >= ttl[r] - 1
    BY ParameterAssumption DEF Tick, Larger, AgeCap
  <2>4. ttl[r] = Never => ttl'[r] = Never
    BY DEF Tick
  <2> QED
    BY <1>2, <2>1, <2>2, <2>3, <2>4 DEF Ahead, TypeOK
<1>3. \A x \in batch[s] : x.row \in Rows
  BY DEF TypeOK, Snapshots
<1> QED
  BY <1>1, <1>2, <1>3 DEF MeetsDeadline, InFlight

\* The steps of the scanner itself.
LEMMA DeadlineScan ==
  ASSUME TypeOK, NEW s \in Scanners, Scan(s)
  PROVE  MeetsDeadline(s)'
<1>1. /\ batch'[s] = {Snapshot(r) : r \in Due} /\ pc'[s] = "loop" /\ ~InFlight(s)'
      /\ age'[s] = 0 /\ UNCHANGED <<ttl, status>>
  BY DEF Scan, InFlight, TypeOK, rowVars
<1>2. ASSUME NEW r \in Due
      PROVE  /\ status[r] # "absent"
             /\ Snapshot(r).row = r
             /\ ~Snapshot(r).lapsed => Ahead(s, r)'
  <2>1. r \in Rows /\ ttl[r] \in Int \cup {Never}
    BY DEF Due, TypeOK
  <2>2. status[r] # "absent" /\ Snapshot(r).row = r
    BY DEF Due, Snapshot, Live
  <2>3. Snapshot(r).lapsed <=> ttl[r] # Never /\ ttl[r] <= 0
    BY Zenon DEF Snapshot
  <2>4. ttl'[r] = ttl[r] /\ age'[s] = 0
    BY <1>1
  <2>5. ~(ttl[r] # Never /\ ttl[r] <= 0) => Ahead(s, r)'
    BY <2>1, <2>4 DEF Ahead
  <2> QED
    BY <2>2, <2>3, <2>5
<1> QED
  BY <1>1, <1>2 DEF MeetsDeadline

\* A row in the hand of s is judged as before by a step that lets s keep its age.
LEMMA AheadKept ==
  ASSUME TypeOK, [Next]_vars, ~Tick, NEW s \in Scanners, NEW r \in Rows,
         status[r] # "absent", Ahead(s, r), age'[s] = age[s]
  PROVE  Ahead(s, r)'
BY DeadlineKept DEF Ahead

LEMMA DeadlineLoop ==
  ASSUME TypeOK, NEW s \in Scanners, MeetsDeadline(s), [Next]_vars, ~Tick,
         \/ Crash(s)
         \/ \E x \in batch[s] : ExpireRow(s, x) \/ Claim(s, x) \/ SkipRow(s, x)
  PROVE  MeetsDeadline(s)'
<1>0. \A x \in batch[s] : x.row \in Rows
  BY DEF TypeOK, Snapshots
<1>1. CASE Crash(s)
  BY <1>1 DEF Crash, MeetsDeadline, InFlight, TypeOK
<1>2. ASSUME NEW x \in batch[s], ExpireRow(s, x) \/ SkipRow(s, x)
      PROVE  MeetsDeadline(s)'
  <2>1. /\ batch'[s] = batch[s] \ {x} /\ ~InFlight(s)' /\ pc'[s] # "claimed"
        /\ pc'[s] = "idle" => batch'[s] = {}
        /\ batch'[s] # {} => age'[s] = age[s]
    BY <1>2 DEF ExpireRow, SkipRow, Take, Resume, InFlight, TypeOK
  <2>2. \A y \in batch'[s] : status'[y.row] # "absent" /\ (~y.lapsed => Ahead(s, y.row)')
    BY <1>0, <2>1, DeadlineKept, AheadKept DEF MeetsDeadline
  <2> QED
    BY <2>1, <2>2 DEF MeetsDeadline
<1>3. ASSUME NEW x \in batch[s], Claim(s, x)
      PROVE  MeetsDeadline(s)'
  <2>1. /\ batch'[s] = batch[s] \ {x} /\ pc'[s] = "claimed" /\ cur'[s].row = x.row
        /\ age'[s] = age[s] /\ ~x.lapsed
    BY <1>3 DEF Claim, Take, TypeOK
  <2>2. \A y \in batch[s] : status'[y.row] # "absent" /\ (~y.lapsed => Ahead(s, y.row)')
    BY <1>0, <2>1, DeadlineKept, AheadKept DEF MeetsDeadline
  <2> QED
    BY <2>1, <2>2 DEF MeetsDeadline
<1> QED
  BY <1>1, <1>2, <1>3

LEMMA DeadlineSend ==
  ASSUME TypeOK, NEW s \in Scanners, MeetsDeadline(s), [Next]_vars, ~Tick,
         \/ Launch(s) \/ NoTransport(s) \/ TransportOk(s) \/ TransportFails(s)
         \/ SettleSuccess(s) \/ DeadLetter(s) \/ RequeueFailed(s) \/ SetBackoff(s)
  PROVE  MeetsDeadline(s)'
<1>0. \A x \in batch[s] : x.row \in Rows
  BY DEF TypeOK, Snapshots
<1>1. InFlight(s) /\ cur[s].row \in Rows
  BY ClaimTypes
     DEF InFlight, Launch, NoTransport, TransportOk, TransportFails,
         SettleSuccess, DeadLetter, RequeueFailed, SetBackoff
<1>2. /\ batch'[s] = batch[s] /\ pc'[s] # "claimed" /\ (InFlight(s)' => cur'[s] = cur[s])
      /\ pc'[s] = "idle" => batch'[s] = {}
      /\ batch'[s] # {} => age'[s] = age[s]
  BY DEF Launch, NoTransport, TransportOk, TransportFails, SettleSuccess, DeadLetter,
         RequeueFailed, SetBackoff, NextRow, Resume, InFlight, TypeOK
<1>3. status'[cur[s].row] # "absent"
  BY <1>1, DeadlineKept DEF MeetsDeadline
<1>4. \A y \in batch'[s] : status'[y.row] # "absent" /\ (~y.lapsed => Ahead(s, y.row)')
  BY <1>0, <1>2, DeadlineKept, AheadKept DEF MeetsDeadline
<1> QED
  BY <1>2, <1>3, <1>4 DEF MeetsDeadline

LEMMA DeadlineStep ==
  ASSUME ScanFits
  PROVE  TypeOK /\ AgesInv /\ DeadlineInv /\ [Next]_vars => DeadlineInv'
<1> SUFFICES ASSUME TypeOK, AgesInv, DeadlineInv, [Next]_vars, NEW s \in Scanners
             PROVE  MeetsDeadline(s)'
  BY DEF DeadlineInv
<1>1. MeetsDeadline(s) /\ OnTime(s)
  BY DEF DeadlineInv, AgesInv
<1>2. CASE Tick
  BY <1>1, <1>2, DeadlineTick
<1>3. ASSUME ~Tick, batch'[s] = batch[s], pc'[s] = pc[s], cur'[s] = cur[s], age'[s] = age[s]
      PROVE  MeetsDeadline(s)'
  <2>1. /\ \A x \in batch[s] : x.row \in Rows
        /\ InFlight(s) => cur[s].row \in Rows
    BY ClaimTypes DEF TypeOK, Snapshots
  <2>2. \A x \in batch[s] : status'[x.row] # "absent" /\ (~x.lapsed => Ahead(s, x.row)')
    BY <1>1, <1>3, <2>1, DeadlineKept, AheadKept DEF MeetsDeadline
  <2>3. InFlight(s) => status'[cur[s].row] # "absent"
    BY <1>1, <1>3, <2>1, DeadlineKept DEF MeetsDeadline
  <2>4. pc[s] = "claimed" => Ahead(s, cur[s].row)'
    BY <1>1, <1>3, <2>1, AheadKept DEF MeetsDeadline, InFlight
  <2> QED
    BY <1>1, <1>3, <2>2, <2>3, <2>4 DEF MeetsDeadline, InFlight
<1>4. ASSUME NEW t \in Scanners, t # s, ~Tick, Scan(t) \/ Work(t) \/ Crash(t)
      PROVE  MeetsDeadline(s)'
  BY <1>3, <1>4, ScannerAlone
<1>5. ASSUME ~Tick, Scan(s) \/ Work(s) \/ Crash(s)
      PROVE  MeetsDeadline(s)'
  BY <1>1, <1>5, DeadlineScan, DeadlineLoop, DeadlineSend DEF Work
<1>6. ASSUME ~Tick, ~\E t \in Scanners : Scan(t) \/ Work(t) \/ Crash(t)
      PROVE  MeetsDeadline(s)'
  <2>1. UNCHANGED <<batch, pc, cur, age>>
    BY <1>6, StrayIsAside DEF Next, Enqueue, Ack, Retry, Purge, scanVars, Aside
  <2> QED
    BY <1>3, <1>6, <2>1
<1> QED
  BY <1>2, <1>4, <1>5, <1>6

(* ADR-0059, expiry wins before a new attempt, as far as it does: while a  *)
(* scan fits into a lease, a launch is later than the row's deadline by    *)
(* less than the transports of the other rows may take, whatever scans     *)
(* overlap and die and whatever operators retry.                           *)
THEOREM LateLaunchesAreBounded ==
  ASSUME ScanFits
  PROVE  Spec => LateByTheBatchOnly
<1>1. Init => AgesInv /\ DeadlineInv
  BY DEF Init, AgesInv, OnTime, DeadlineInv, MeetsDeadline, InFlight
<1>2. TypeOK /\ AgesInv /\ DeadlineInv /\ [Next]_vars => AgesInv' /\ DeadlineInv'
  BY AgesStep, DeadlineStep
<1>3. ASSUME TypeOK, AgesInv, DeadlineInv, NEW s \in Scanners,
             pc[s] = "claimed", ttl[cur[s].row] # Never
      PROVE  ttl[cur[s].row] + NotifyTimeout * (Cardinality(Rows) - 1) > 0
  <2>1. cur[s].row \in Rows
    BY <1>3, ClaimTypes DEF InFlight
  <2>2. ttl[cur[s].row] \in Int /\ ttl[cur[s].row] + age[s] > 0
    BY <1>3, <2>1 DEF DeadlineInv, MeetsDeadline, Ahead, TypeOK
  <2>3. OnTime(s) /\ Owed(s) \in Nat /\ Whole \in Nat
    BY <1>3, TimesNat DEF AgesInv
  <2>4. age[s] <= Whole - NotifyTimeout /\ age[s] \in Nat
    BY <1>3, <2>3, ParameterAssumption DEF OnTime, TypeOK
  <2>5. NotifyTimeout * (Cardinality(Rows) - 1) = Whole - NotifyTimeout
    <3>1. \A n \in Nat : NotifyTimeout * (n - 1) = NotifyTimeout * n - NotifyTimeout
      BY ParameterAssumption
    <3> QED
      BY <3>1, FS_CardinalityType DEF Whole, ScanFits
  <2> QED
    BY <2>2, <2>3, <2>4, <2>5, ParameterAssumption
<1>4. TypeOK /\ AgesInv /\ DeadlineInv =>
        \A s \in Scanners :
          (pc[s] = "claimed" /\ pc'[s] = "sending" /\ ttl[cur[s].row] # Never) =>
            ttl[cur[s].row] + NotifyTimeout * (Cardinality(Rows) - 1) > 0
  BY <1>3
<1> QED
  BY <1>1, <1>2, <1>4, TypeCorrect, PTL DEF Spec, LateByTheBatchOnly
=============================================================================
