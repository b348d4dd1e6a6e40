---------------------------- MODULE FlowExecutor ----------------------------
(***************************************************************************)
(* Execution of one operation graph (lionagi/operations/flow.py):          *)
(* DependencyAwareExecutor, and ReactiveExecutor, whose graph grows while  *)
(* it runs.                                                                *)
(*                                                                         *)
(* One task per scheduled operation runs on one event loop, so a task's    *)
(* steps are atomic between two awaits: it awaits the heads of its         *)
(* incoming edges one by one, then its predecessors and aggregation        *)
(* sources, then the pause gate, then the capacity limiter, then the       *)
(* operation itself.  A controller pauses and resumes, operations and      *)
(* callbacks inject further operations, and the caller may cancel.         *)
(***************************************************************************)
EXTENDS Integers, FiniteSets

CONSTANTS
  Ops,         \* operation ids, those of the graph and those to be injected
  NoOp,        \* emitter_id = None, or independent
  Flows,       \* the graphs to execute, see FlowType
  Copies,      \* how often one operation may be scheduled (1 unless reinjected)
  Capacity,    \* max_concurrent
  MaxSpawn,    \* max_spawn
  MaxPauses    \* bound on the number of pause() calls

Pending == "pending"
\* Event._TERMINAL_STATUSES
Terminal == {"completed", "failed", "cancelled", "aborted", "skipped"}
\* _PRETERMINAL_ANNOUNCE_STATUS: there is no word for "aborted".
Words == Terminal \ {"aborted"}

\* graph.is_acyclic(): every set of nodes has one without an edge from it.
Acyclic(N, E) ==
  \A S \in SUBSET N \ {{}} : {n \in S : (S \X {n}) \cap E = {}} # {}

\* The controller pauses; the caller cancels; an edge condition, the preparation
\* or the word "started" raises; a callback raises where nothing catches it; an
\* operation asks for a higher tier, or ends in a cancellation of its own; a
\* task reaches retry_timeout.
Occasions == {"pause", "cancel", "fault", "crash", "escalate", "quit", "timeout"}

\* nodes, edges: the graph; conditional: the edges with a condition; gates:
\* metadata["is_gate"]; sources: metadata["aggregation_sources"]; was: the
\* status each operation is restored with; saidNo: the gates restored as
\* completed whose saved response carries a REJECT verdict; reactive: which of
\* the two executors runs it; takes: what alcall_params swallow of a task, an
\* error (retries, a default) or a cancellation as well (return_exceptions);
\* may: what can come up during the run.
FlowType(f) ==
  /\ f.reactive \in BOOLEAN
  /\ f.may \subseteq Occasions
  /\ f.takes \in {{}, {"error"}, {"error", "cancelled"}}
  /\ f.reactive => f.takes = {}
  /\ f.nodes \subseteq Ops
  /\ f.edges \subseteq f.nodes \X f.nodes
  /\ f.conditional \subseteq f.edges
  /\ f.gates \subseteq f.nodes
  /\ f.sources \in [Ops -> SUBSET f.nodes]
  /\ f.was \in [Ops -> Terminal \cup {Pending}]
  /\ \A o \in Ops \ f.nodes : f.was[o] = Pending
  /\ f.saidNo \subseteq {g \in f.gates : f.was[g] = "completed"}
  /\ Acyclic(f.nodes, f.edges \cup {e \in f.nodes \X f.nodes : e[1] \in f.sources[e[2]]})

ASSUME FlowAssumption ==
  /\ NoOp \notin Ops
  /\ IsFiniteSet(Ops)
  /\ \A f \in Flows : FlowType(f)
  /\ {Copies, Capacity, MaxSpawn, MaxPauses} \subseteq Nat
  /\ Capacity > 0

VARIABLES
  flow,      \* the graph as given
  nodes,     \* graph.internal_nodes
  edges,     \* graph.internal_edges, <<head, tail>>
  status,    \* operation.execution.status
  done,      \* operations whose completion_events entry is set
  results,   \* the keys of self.results
  skipped,   \* skipped_operations
  failed,    \* failed_operations
  preFailed, \* _preterminal_failed_operations
  rejected,  \* the keys of _gate_rejections
  vetoed,    \* the keys of _skip_reasons
  spawned,   \* _spawned_ids; _spawn_count is its size
  started,   \* _started_ops
  announced, \* the keys of _queued_announced
  told,      \* the terminal word on_progress got per operation, or "none"
  pc,        \* where each task is
  todo,      \* the heads of incoming edges a task has still to inspect
  open,      \* has_valid_path of a task
  veto,      \* gate_reason is set for a task
  need,      \* what _wait_for_dependencies awaits
  at,        \* the pause gate a task waits at
  gate,      \* _pause_event: the number of the gate installed, or 0
  pauses,    \* how many gates were installed
  admitted,  \* history: operations past the boundary when the gate came up
  run        \* running, stopping, cancelling, crashing, or how the run ended

graphVars == <<flow, nodes, edges>>
outcomeVars == <<status, done, results, skipped, failed, preFailed, rejected, vetoed>>
watchVars == <<started, announced, told>>
taskVars == <<pc, todo, open, veto, need, at>>
controlVars == <<gate, pauses, admitted>>
vars == <<graphVars, outcomeVars, spawned, watchVars, taskVars, controlVars, run>>

Task == Ops \X (1..Copies)
OpOf(t) == t[1]

\* __init__: what was completed is done and has its response; execute()
\* announces every operation.  ReactiveExecutor creates one task for each at
\* once, alcall() one after the other, with a pause between them if throttled.
Init ==
  /\ flow \in Flows
  /\ nodes = flow.nodes
  /\ edges = flow.edges
  /\ status = flow.was
  /\ done = {o \in Ops : flow.was[o] = "completed"}
  /\ results = done
  /\ skipped = {} /\ failed = {} /\ preFailed = {}
  /\ rejected = {} /\ vetoed = {}
  /\ spawned = {}
  /\ started = {}
  /\ announced = nodes
  /\ told = [o \in Ops |-> "none"]
  /\ pc = [t \in Task |-> IF OpOf(t) \in nodes /\ t[2] = 1
                             THEN IF flow.reactive THEN "ready" ELSE "due"
                             ELSE "none"]
  /\ todo = [t \in Task |-> {}]
  /\ open = [t \in Task |-> FALSE]
  /\ veto = [t \in Task |-> FALSE]
  /\ need = [t \in Task |-> {}]
  /\ at = [t \in Task |-> 0]
  /\ gate = 0 /\ pauses = 0 /\ admitted = {}
  /\ run = "running"

-----------------------------------------------------------------------------
Predecessors(o) == {h \in nodes : <<h, o>> \in edges}
Sources(o) == flow.sources[o]

\* Broken variant: the sources of an aggregation are forgotten.
Needs_NoSources(o) == Predecessors(o)
\* _wait_for_dependencies: the aggregation sources, then the predecessors.
Needs(o) == Sources(o) \cup Predecessors(o)

Live == run \in {"running", "stopping", "cancelling", "crashing"}
\* A cancelled task raises at its next await.  One that could go on when the
\* cancellation came is taken to have gone on just before.
Going == run = "running"
\* No await between the end of an operation and the end of its task: nobody
\* else moves while a task is in its tail.
NoTail == \A t \in Task : pc[t] # "tail"

\* _emit_terminal_once
Tell(o, word) == [told EXCEPT ![o] = IF @ = "none" THEN word ELSE @]

Goto(t, place) == pc' = [pc EXCEPT ![t] = place]

-----------------------------------------------------------------------------
(* The first step of a task (_execute_operation).                          *)

Create(t) ==
  /\ pc[t] = "due" /\ Going
  /\ Goto(t, "ready")
  /\ UNCHANGED <<graphVars, outcomeVars, spawned, watchVars, todo, open, veto, need,
                 at, controlVars, run>>

\* The operation is terminal already: it is answered, not executed.
Restored(t) ==
  LET o == OpOf(t) IN
  /\ pc[t] = "ready" /\ Live /\ NoTail
  /\ status[o] \in Terminal
  /\ LET bad == IF status[o] = "failed" THEN {o} ELSE {}
     IN  failed' = failed \cup bad /\ preFailed' = preFailed \cup bad
  /\ results' = IF status[o] = "failed" THEN results \cup {o} ELSE results
  /\ told' = IF status[o] \in Words THEN Tell(o, status[o]) ELSE told
  /\ done' = done \cup {o}
  /\ Goto(t, "tail")
  /\ UNCHANGED <<graphVars, status, skipped, rejected, vetoed, spawned, started,
                 announced, todo, open, veto, need, at, controlVars, run>>

\* A snapshot of the incoming edges is taken; without any the operation goes.
Begin(t) ==
  LET o == OpOf(t) IN
  /\ pc[t] = "ready" /\ Going /\ NoTail
  /\ status[o] \notin Terminal
  /\ todo' = [todo EXCEPT ![t] = Predecessors(o)]
  /\ IF Predecessors(o) = {}
       THEN Goto(t, "deps") /\ need' = [need EXCEPT ![t] = Needs(o)]
       ELSE Goto(t, "edges") /\ need' = need
  /\ UNCHANGED <<graphVars, outcomeVars, spawned, watchVars, open, veto, at,
                 controlVars, run>>

-----------------------------------------------------------------------------
(* _check_edge_conditions: every incoming edge is inspected once its head  *)
(* is done.                                                                *)

\* Broken variant: only the gate itself vetoes.
Vetoes_Direct(h) == h \in rejected
\* A gate said no at the head or above it.
Vetoes(h) == h \in vetoed \/ h \in rejected

\* What the head leaves open: its condition is asked unless a path is known.
MayOpen(h, t) ==
  IF \/ Vetoes(h) \/ h \in skipped \/ h \in preFailed THEN {FALSE}
  ELSE IF <<h, OpOf(t)>> \in flow.conditional THEN BOOLEAN ELSE {TRUE}

\* Broken variant: only an operation that did not fail releases its waiters.
Release_UnlessFailed(o) == done' = IF status'[o] = "failed" THEN done ELSE done \cup {o}
\* finally: whatever came of the operation, its waiters go on.
Release(o) == done' = done \cup {o}

\* Every edge was inspected and there is no path, or a veto.
Skip(t) ==
  LET o == OpOf(t) IN
  /\ status' = [status EXCEPT ![o] = "skipped"]
  /\ skipped' = skipped \cup {o}
  /\ vetoed' = IF veto'[t] THEN vetoed \cup {o} ELSE vetoed
  /\ results' = IF veto'[t] THEN results \cup {o} ELSE results
  /\ told' = Tell(o, "skipped")
  /\ Release(o)
  /\ Goto(t, "tail")
  /\ need' = need

Proceed(t) ==
  /\ Goto(t, "deps")
  /\ need' = [need EXCEPT ![t] = Needs(OpOf(t))]
  /\ UNCHANGED <<status, skipped, vetoed, results, told, done>>

\* A veto is absolute, a path is one open edge.
Passes(t) == open'[t] /\ ~veto'[t]

CheckEdge(t, h) ==
  /\ pc[t] = "edges" /\ Going /\ NoTail
  /\ h \in todo[t] /\ h \in done
  /\ todo' = [todo EXCEPT ![t] = @ \ {h}]
  /\ veto' = [veto EXCEPT ![t] = @ \/ Vetoes(h)]
  /\ \E way \in MayOpen(h, t) : open' = [open EXCEPT ![t] = @ \/ way]
  /\ IF todo'[t] # {} THEN UNCHANGED <<pc, need, status, skipped, vetoed, results, told, done>>
     ELSE IF Passes(t) THEN Proceed(t) ELSE Skip(t)
  /\ UNCHANGED <<graphVars, failed, preFailed, rejected, spawned, started,
                 announced, at, controlVars, run>>

-----------------------------------------------------------------------------
(* Dependencies, pause gate, limiter.                                      *)

\* while (gate := self._pause_event) is not None
AtBoundary(t) ==
  IF gate = 0 THEN Goto(t, "limiter") /\ at' = at
              ELSE Goto(t, "gate") /\ at' = [at EXCEPT ![t] = gate]

DepsMet(t) ==
  /\ pc[t] = "deps" /\ Going /\ NoTail
  /\ need[t] \subseteq done
  /\ AtBoundary(t)
  /\ UNCHANGED <<graphVars, outcomeVars, spawned, watchVars, todo, open, veto,
                 need, controlVars, run>>

\* Broken variant: "if" for "while".
GateOpens_Once(t) ==
  /\ pc[t] = "gate" /\ Going /\ NoTail
  /\ at[t] # gate
  /\ Goto(t, "limiter")
  /\ UNCHANGED <<graphVars, outcomeVars, spawned, watchVars, todo, open, veto,
                 need, at, controlVars, run>>
\* The gate the task waits at was released; a fresh one may be up by now.
GateOpens(t) ==
  /\ pc[t] = "gate" /\ Going /\ NoTail
  /\ at[t] # gate
  /\ AtBoundary(t)
  /\ UNCHANGED <<graphVars, outcomeVars, spawned, watchVars, todo, open, veto,
                 need, controlVars, run>>

Running == {t \in Task : pc[t] = "invoke"}

\* Event.invoke() returns at once unless the operation is pending.
Start(t) ==
  LET o == OpOf(t) IN
  /\ pc[t] = "limiter" /\ Going /\ NoTail
  /\ Cardinality(Running) < Capacity
  /\ started' = started \cup {o}
  /\ status' = [status EXCEPT ![o] = IF @ = Pending THEN "processing" ELSE @]
  /\ IF status[o] = Pending
       THEN Goto(t, "invoke") /\ done' = done
       ELSE Goto(t, "tail") /\ done' = done \cup {o}
  /\ UNCHANGED <<graphVars, results, skipped, failed, preFailed, rejected, vetoed,
                 spawned, announced, told, todo, open, veto, need, at,
                 controlVars, run>>

-----------------------------------------------------------------------------
(* How an operation ends.                                                  *)

\* Event.invoke() and what _execute_operation records of it.  "malformed":
\* completed, but response["context"] is not a mapping.
Outcomes == {"completed", "malformed", "failed"}
\* Broken variant: a failed operation has no result, as a cancelled one.
Recorded_OnlyCompleted(o) == IF status'[o] = "completed" THEN results \cup {o} ELSE results
Recorded(o) == results \cup {o}

Return(t, out, verdict) ==
  LET o == OpOf(t)
      word == IF out = "completed" THEN "completed" ELSE "failed"
  IN
  /\ pc[t] = "invoke" /\ Live /\ NoTail
  /\ status' = [status EXCEPT ![o] = word]
  /\ results' = Recorded(o)
  /\ failed' = IF word = "failed" THEN failed \cup {o} ELSE failed
  /\ told' = Tell(o, word)
  /\ verdict = "reject" => out = "completed" /\ o \in flow.gates
  /\ rejected' = IF verdict = "reject" THEN rejected \cup {o} ELSE rejected
  /\ Release(o)
  /\ Goto(t, "tail")
  /\ UNCHANGED <<graphVars, skipped, preFailed, vetoed, spawned, started, announced,
                 todo, open, veto, need, at, controlVars, run>>

\* Broken variant: an operation that never started is not answered.
Cancelled_StartedOnly(t) ==
  LET o == OpOf(t) IN
  /\ status' = [status EXCEPT ![o] = IF @ \in Terminal THEN @ ELSE "cancelled"]
  /\ Release(o)
  /\ told' = IF o \in started THEN Tell(o, "cancelled") ELSE told
  /\ UNCHANGED <<results, skipped, failed, preFailed, rejected, vetoed>>
\* The except clause for cancellation: the operation is answered even if it
\* never started.
Cancelled(t) ==
  LET o == OpOf(t) IN
  /\ status' = [status EXCEPT ![o] = IF @ \in Terminal THEN @ ELSE "cancelled"]
  /\ Release(o)
  /\ told' = Tell(o, "cancelled")
  /\ UNCHANGED <<results, skipped, failed, preFailed, rejected, vetoed>>

\* Event.invoke() re-raises a cancellation of the operation's own, and so does
\* its task: the task group takes that for its own end and cancels the others.
ReturnCancelled(t) ==
  /\ "quit" \in flow.may
  /\ pc[t] = "invoke" /\ Live /\ NoTail
  /\ Cancelled(t)
  /\ Goto(t, "ended")
  /\ run' = IF Going /\ "cancelled" \notin flow.takes THEN "stopping" ELSE run
  /\ UNCHANGED <<graphVars, spawned, started, announced, todo, open, veto, need,
                 at, controlVars>>

\* alcall's retry_timeout cancels the task where it waits.  A second attempt
\* finds the operation answered; with none left the TimeoutError is raised.
Timeout(t) ==
  /\ "timeout" \in flow.may /\ ~flow.reactive /\ Going /\ NoTail
  /\ pc[t] \in {"edges", "deps", "gate", "limiter", "invoke"}
  /\ Cancelled(t)
  /\ Goto(t, "ended")
  /\ run' = IF "error" \in flow.takes THEN run ELSE "crashing"
  /\ UNCHANGED <<graphVars, spawned, started, announced, todo, open, veto, need,
                 at, controlVars>>

\* The except clause for anything else, before the operation is invoked: a
\* terminal word only if it was said to be started, and the status stays.
Fault(t, begun) ==
  LET o == OpOf(t) IN
  /\ "fault" \in flow.may /\ Going /\ NoTail
  /\ \/ /\ pc[t] = "edges" /\ ~begun
        /\ \E h \in todo[t] \cap done : <<h, o>> \in flow.conditional
     \/ /\ pc[t] = "limiter"
        /\ Cardinality(Running) < Capacity
  /\ results' = results \cup {o}
  /\ failed' = failed \cup {o}
  /\ status' = status
  /\ started' = IF begun THEN started \cup {o} ELSE started
  /\ told' = IF begun THEN Tell(o, "failed") ELSE told
  /\ Release(o)
  /\ Goto(t, "tail")
  /\ UNCHANGED <<graphVars, skipped, preFailed, rejected, vetoed, spawned,
                 announced, todo, open, veto, need, at, controlVars, run>>

\* _run_tracked is through.
End(t) ==
  /\ pc[t] = "tail"
  /\ Goto(t, "ended")
  /\ UNCHANGED <<graphVars, outcomeVars, spawned, watchVars, todo, open, veto, need,
                 at, controlVars, run>>

\* Where an exception of a callback leaves the task: in the tail that only
\* _run_tracked has (the branch set-up of a spawn, the closed stream of events),
\* or where on_progress is called outside the try clause, for an operation that
\* was restored, or in its except clause, for one that raised.
Escapes(o) ==
  \/ flow.reactive
  \/ /\ "error" \notin flow.takes
     /\ flow.was[o] \in Terminal \/ (o \in started /\ status[o] \notin Terminal)

\* A callback raises: the task group cancels the other tasks.
Crash(t) ==
  /\ "crash" \in flow.may /\ Live
  /\ pc[t] = "tail" /\ Escapes(OpOf(t))
  /\ Goto(t, "ended")
  /\ run' = "crashing"
  /\ UNCHANGED <<graphVars, outcomeVars, spawned, watchVars, todo, open, veto, need,
                 at, controlVars>>

-----------------------------------------------------------------------------
(* The graph grows (_accept_node): by a running operation's request on the *)
(* bus, from the results or the completion callback in a task's tail, or   *)
(* by a caller of inject().                                                *)

\* Nothing changes for a request over the cap or one that closes a cycle.
Accept(c, link) ==
  /\ Cardinality(spawned) < MaxSpawn
  /\ Acyclic(nodes \cup {c}, edges \cup link)
  /\ nodes' = nodes \cup {c}
  /\ edges' = edges \cup link
  /\ spawned' = IF c \in nodes THEN spawned ELSE spawned \cup {c}
  /\ announced' = announced \cup {c}
  /\ UNCHANGED flow

Inject(c, emitter) ==
  /\ flow.reactive /\ Live
  /\ emitter \in nodes \cup {NoOp}
  /\ Accept(c, IF emitter = NoOp THEN {} ELSE {<<emitter, c>>})
  /\ \E n \in 1..Copies :
       /\ pc[<<c, n>>] = "none"
       /\ \A m \in 1..(n - 1) : pc[<<c, m>>] # "none"
       /\ Goto(<<c, n>>, "ready")
  /\ UNCHANGED <<outcomeVars, started, told, todo, open, veto, need, at,
                 controlVars, run>>

\* _schedule_escalation, route "higher_tier": an independent child that is
\* accepted, and announced, and that no task is started for.
Escalate(t, c) ==
  /\ "escalate" \in flow.may /\ flow.reactive /\ Live
  /\ \/ pc[t] = "invoke" /\ NoTail
     \/ pc[t] = "tail"
  /\ c \notin nodes
  /\ Accept(c, {})
  /\ UNCHANGED <<outcomeVars, started, told, taskVars, controlVars, run>>

-----------------------------------------------------------------------------
(* The controller and the caller.                                          *)

Pause ==
  /\ "pause" \in flow.may /\ Live /\ NoTail
  /\ gate = 0
  /\ pauses < MaxPauses
  /\ gate' = pauses + 1
  /\ pauses' = pauses + 1
  /\ admitted' = {OpOf(t) : t \in {u \in Task : pc[u] = "limiter"}}
  /\ UNCHANGED <<graphVars, outcomeVars, spawned, watchVars, taskVars, run>>

Resume ==
  /\ Live /\ NoTail
  /\ gate # 0
  /\ gate' = 0
  /\ admitted' = {}
  /\ UNCHANGED <<graphVars, outcomeVars, spawned, watchVars, taskVars, pauses, run>>

CancelRun ==
  /\ "cancel" \in flow.may
  /\ run \in {"running", "stopping"} /\ NoTail
  /\ run' = "cancelling"
  /\ UNCHANGED <<graphVars, outcomeVars, spawned, watchVars, taskVars, controlVars>>

Idle == {"none", "never", "ended"}

\* The cancellation reaches a task at its first, or next, await; a task that
\* was not created yet never is.
Abandon(t) ==
  /\ Live /\ ~Going /\ NoTail
  /\ pc[t] \notin Idle
  /\ pc[t] = "ready" => status[OpOf(t)] \notin Terminal
  /\ IF pc[t] = "due" THEN Goto(t, "never") /\ UNCHANGED <<outcomeVars, told>>
                     ELSE Goto(t, "ended") /\ Cancelled(t)
  /\ UNCHANGED <<graphVars, spawned, started, announced, todo, open, veto, need,
                 at, controlVars, run>>

AllEnded == \A t \in Task : pc[t] \in Idle

\* _cancel_announced_unfinished
Sweep == [o \in Ops |-> IF o \in announced /\ told[o] = "none" THEN "cancelled" ELSE told[o]]

\* The task group exits: without an exception too when it ended itself, so that
\* execute() returns a result, and only a cancelled run sweeps.
Finish ==
  /\ Live /\ AllEnded
  /\ run' = CASE run = "running" -> "ended"
              [] run = "stopping" -> "stopped"
              [] run = "cancelling" -> "cancelled"
              [] run = "crashing" -> "crashed"
  /\ told' = IF run = "cancelling" THEN Sweep ELSE told
  /\ UNCHANGED <<graphVars, outcomeVars, spawned, started, announced, taskVars, controlVars>>

\* The run is over.
Over == ~Live /\ UNCHANGED vars

TaskStep(t) ==
  \/ Create(t) \/ Restored(t) \/ Begin(t)
  \/ \E h \in todo[t] : CheckEdge(t, h)
  \/ DepsMet(t) \/ GateOpens(t) \/ Start(t)
  \/ \E out \in Outcomes, verdict \in {"reject", "none"} : Return(t, out, verdict)
  \/ \E begun \in BOOLEAN : Fault(t, begun)
  \/ ReturnCancelled(t) \/ End(t)

Next ==
  \/ \E t \in Task : TaskStep(t) \/ Timeout(t) \/ Crash(t) \/ Abandon(t)
                     \/ \E c \in Ops : Escalate(t, c)
  \/ \E c \in Ops, emitter \in Ops \cup {NoOp} : Inject(c, emitter)
  \/ Pause \/ Resume \/ CancelRun \/ Finish
  \/ Over

Spec == Init /\ [][Next]_vars

(* The event loop runs every task that can go on, every operation returns, *)
(* a cancellation reaches every task, and who pauses resumes in the end.   *)
Fairness ==
  /\ \A t \in Task : WF_vars(TaskStep(t)) /\ WF_vars(Abandon(t))
  /\ WF_vars(Resume)
  /\ WF_vars(Finish)

FairSpec == Spec /\ Fairness

-----------------------------------------------------------------------------
PCs == {"none", "due", "never", "ready", "edges", "deps", "gate", "limiter", "invoke", "tail", "ended"}

TypeOK ==
  /\ flow \in Flows
  /\ nodes \subseteq Ops
  /\ edges \subseteq nodes \X nodes
  /\ status \in [Ops -> Terminal \cup {Pending, "processing"}]
  /\ done \subseteq nodes
  /\ results \subseteq done
  /\ {skipped, failed, vetoed} \subseteq SUBSET done
  /\ preFailed \subseteq failed
  /\ rejected \subseteq flow.gates
  /\ spawned \subseteq nodes
  /\ {started, announced} \subseteq SUBSET nodes
  /\ told \in [Ops -> Words \cup {"none"}]
  /\ pc \in [Task -> PCs]
  /\ todo \in [Task -> SUBSET nodes]
  /\ open \in [Task -> BOOLEAN]
  /\ veto \in [Task -> BOOLEAN]
  /\ need \in [Task -> SUBSET nodes]
  /\ at \in [Task -> 0..MaxPauses]
  /\ gate \in 0..MaxPauses
  /\ pauses \in gate..MaxPauses
  /\ admitted \subseteq nodes
  /\ run \in {"running", "stopping", "cancelling", "crashing",
              "ended", "stopped", "cancelled", "crashed"}

\* Nobody works on the operation any more, whatever came of it.
Settled(o) == status[o] \in Terminal \/ o \in failed

(* An operation runs only once everything it depends on, predecessors and  *)
(* aggregation sources, is settled (ADR-0023 D2).                          *)
StartsAfterDependencies ==
  \A o \in started : \A h \in Sources(o) \cup Predecessors(o) : Settled(h)

Rejecting == rejected \cup flow.saidNo

(* The gate-reject contract (docs/internals/core.md): nothing downstream   *)
(* of a gate that said no ever starts, whatever other paths lead to it:    *)
(* a set of operations that never started is closed under the edges that   *)
(* leave it and those gates.                                               *)
GateVetoes ==
  \E S \in SUBSET (nodes \ started) :
    \A e \in edges : e[1] \in Rejecting \cup S => e[2] \in S

(* _queued_announced: "Anything in here is owed a terminal signal, whether *)
(* or not execution ever reached it".                                      *)
OwedIsPaid ==
  ~Live => \A o \in announced : told[o] = "none" => flow.was[o] = "aborted"

\* alcall had not come to the operation when its task group ended.
NeverCreated(o) == \E t \in Task : OpOf(t) = o /\ pc[t] = "never"

(* Who was told that an operation is queued is told what became of it by   *)
(* the end of the run, however it ends, unless an operation asked for a    *)
(* higher tier or a condition raised (see OwedIsPaid).  Only the static    *)
(* executor leaves some unanswered: when an operation's own cancellation   *)
(* or an error ends its task group, execute() does not sweep, and those it *)
(* had no task for yet stay queued.                                        *)
AnnouncedIsAnswered ==
  flow.may \cap {"escalate", "fault"} = {} /\ ~Live =>
    \A o \in announced : told[o] = "none" =>
      \/ flow.was[o] = "aborted"
      \/ ~flow.reactive /\ run \in {"stopped", "crashed"} /\ NeverCreated(o)

\* completed_operations of the result, _completed_operation_ids.
CompletedOperations == results \ (skipped \cup preFailed)
\* The status of the FlowEvent of an operation, _make_event.
EventStatus(o) ==
  IF o \in skipped THEN "skipped"
  ELSE IF status[o] \in {"cancelled", "failed"} THEN status[o]
  ELSE "completed"

(* The three accounts of a run that returns a result agree, one that ended  *)
(* itself included: the terminal word each watcher got, the FlowEvent of   *)
(* the stream and the lists of the result (a failed operation of this run  *)
(* counts among the completed ones as well), for every operation that got  *)
(* a task.                                                                 *)
AccountsAgree ==
  run \in {"ended", "stopped"} /\ flow.may \cap {"escalate", "fault"} = {} =>
    \A o \in announced :
      flow.was[o] \in {Pending, "completed", "failed"} /\ ~NeverCreated(o) =>
        /\ told[o] = EventStatus(o)
        /\ o \in skipped <=> told[o] = "skipped"
        /\ o \in failed <=> told[o] = "failed"
        /\ o \in CompletedOperations <=>
             \/ told[o] = "completed"
             \/ told[o] = "failed" /\ flow.was[o] # "failed"

(* A pause is soft at the boundary: while a gate is up nothing starts but  *)
(* what was past the boundary when it came up, also if that gate followed  *)
(* a resume at once (ADR-0069 D2).                                         *)
PauseHoldsTheRest ==
  [][gate # 0 => started' \subseteq started \cup admitted]_vars

(* No operation waits for ever: the run ends.                              *)
RunEnds == <>(~Live)
=============================================================================
