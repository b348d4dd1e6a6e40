-------------------------- MODULE FlowExecutorProofs --------------------------
(***************************************************************************)
(* Proofs about FlowExecutor, for every set of operations, every graph that*)
(* FlowType allows, both executors, and every bound.                       *)
(***************************************************************************)
EXTENDS FlowExecutor, TLAPS

-----------------------------------------------------------------------------
(* Types.                                                                  *)

(* What the types rest on: the graph only grows, a task is a node's, only  *)
(* the static executor has tasks it has not made, and it never makes some  *)
(* only in a run that is cut short.                                        *)
Shape ==
  /\ flow.nodes \subseteq nodes
  /\ \A t \in Task : pc[t] # "none" => OpOf(t) \in nodes
  /\ flow.reactive \/ run \in {"running", "ended"} => \A t \in Task : pc[t] # "never"
  /\ flow.reactive => \A t \in Task : pc[t] # "due"

ShapeOK == TypeOK /\ Shape

(* The flow at hand has the type the assumption states.                    *)
LEMMA FlowFacts ==
  ASSUME TypeOK
  PROVE  /\ flow.reactive \in BOOLEAN /\ flow.nodes \subseteq Ops
         /\ flow.edges \subseteq flow.nodes \X flow.nodes
         /\ flow.gates \subseteq flow.nodes
         /\ flow.sources \in [Ops -> SUBSET flow.nodes]
         /\ flow.was \in [Ops -> Terminal \cup {Pending}]
         /\ \A o \in Ops \ flow.nodes : flow.was[o] = Pending
BY FlowAssumption DEF TypeOK, FlowType

(* The executor's start (__init__, execute).                               *)
LEMMA InitShape == Init => ShapeOK
<1> SUFFICES ASSUME Init
             PROVE  ShapeOK
  OBVIOUS
<1>1. /\ flow \in Flows /\ flow.nodes \subseteq Ops
      /\ flow.edges \subseteq flow.nodes \X flow.nodes
      /\ flow.was \in [Ops -> Terminal \cup {Pending}]
      /\ \A o \in Ops \ flow.nodes : flow.was[o] = Pending
  BY FlowAssumption DEF Init, FlowType
<1>2. done \subseteq nodes
  BY <1>1 DEF Init, Pending
<1>3. pc \in [Task -> PCs] /\ Shape
  BY <1>1 DEF Init, PCs, Shape
<1>4. {MaxPauses} \subseteq Nat
  BY FlowAssumption
<1> QED
  BY <1>1, <1>2, <1>3, <1>4 DEF Init, ShapeOK, TypeOK

(* What a task waits for is in the graph.                                  *)
LEMMA NeedsType ==
  ASSUME ShapeOK, NEW o \in Ops
  PROVE  Needs(o) \subseteq nodes /\ Predecessors(o) \subseteq nodes
BY FlowFacts DEF ShapeOK, Shape, Needs, Sources, Predecessors

(* An operation's task walks through its places; nothing else moves.       *)
LEMMA WalkShape ==
  ASSUME ShapeOK, NEW t \in Task,
         \/ Create(t) \/ Begin(t) \/ DepsMet(t) \/ GateOpens(t) \/ End(t) \/ Crash(t)
  PROVE  ShapeOK'
<1>0. OpOf(t) \in Ops
  BY DEF Task, OpOf
<1>1. CASE Create(t)
  BY <1>1 DEF Create, Goto, ShapeOK, TypeOK, Shape, graphVars, outcomeVars, watchVars,
              controlVars, PCs
<1>2. CASE Begin(t)
  BY <1>0, <1>2, NeedsType DEF Begin, Goto, ShapeOK, TypeOK, Shape, graphVars, outcomeVars,
              watchVars, controlVars, PCs
<1>3. CASE DepsMet(t) \/ GateOpens(t)
  BY <1>3 DEF DepsMet, GateOpens, AtBoundary, Goto, ShapeOK, TypeOK, Shape, graphVars,
              outcomeVars, watchVars, controlVars, PCs
<1>4. CASE End(t) \/ Crash(t)
  BY <1>4 DEF End, Crash, Goto, ShapeOK, TypeOK, Shape, graphVars, outcomeVars, watchVars,
              controlVars, taskVars, PCs
<1> QED
  BY <1>1, <1>2, <1>3, <1>4

(* A word told once is the word of an operation's status.                  *)
LEMMA TellType ==
  ASSUME TypeOK, NEW o \in Ops, NEW word \in Words
  PROVE  Tell(o, word) \in [Ops -> Words \cup {"none"}]
BY DEF TypeOK, Tell

(* Inspecting an edge, with the skip or the wait that follows the last one.*)
LEMMA EdgeShape ==
  ASSUME ShapeOK, NEW t \in Task, NEW h \in todo[t], CheckEdge(t, h)
  PROVE  ShapeOK'
<1>0. OpOf(t) \in Ops /\ OpOf(t) \in nodes
  BY DEF Task, OpOf, CheckEdge, ShapeOK, Shape
<1>1. todo' \in [Task -> SUBSET nodes]
  BY DEF CheckEdge, ShapeOK, TypeOK
<1>2. veto' \in [Task -> BOOLEAN]
  BY DEF CheckEdge, ShapeOK, TypeOK
<1>3. open' \in [Task -> BOOLEAN]
  BY DEF CheckEdge, ShapeOK, TypeOK, MayOpen
<1>4. \/ UNCHANGED <<pc, need, status, skipped, vetoed, results, told, done>>
      \/ Proceed(t) \/ Skip(t)
  BY DEF CheckEdge
<1>5. /\ pc' \in [Task -> PCs] /\ pc'[t] \notin {"none", "due", "never"}
      /\ \A u \in Task : u # t => pc'[u] = pc[u]
  BY <1>4 DEF CheckEdge, Proceed, Skip, Goto, ShapeOK, TypeOK, PCs
<1>6. need' \in [Task -> SUBSET nodes]
  BY <1>0, <1>4, NeedsType DEF Proceed, Skip, ShapeOK, TypeOK
<1>7. /\ status' \in [Ops -> Terminal \cup {Pending, "processing"}]
      /\ told' \in [Ops -> Words \cup {"none"}]
  <2>1. "skipped" \in Words /\ "skipped" \in Terminal
    BY DEF Words, Terminal
  <2>2. Tell(OpOf(t), "skipped") \in [Ops -> Words \cup {"none"}]
    BY <1>0, <2>1, TellType DEF ShapeOK
  <2> QED
    BY <1>0, <1>4, <2>1, <2>2 DEF Proceed, Skip, ShapeOK, TypeOK
<1>8. /\ done \subseteq done' /\ done' \subseteq nodes /\ results' \subseteq done'
      /\ {skipped', vetoed'} \subseteq SUBSET done'
  BY <1>0, <1>4 DEF Proceed, Skip, Release, ShapeOK, TypeOK
<1> QED
  BY <1>1, <1>2, <1>3, <1>5, <1>6, <1>7, <1>8
     DEF CheckEdge, ShapeOK, TypeOK, Shape, graphVars, controlVars

(* An operation that is answered, starts, returns or faults.               *)
LEMMA RunShape ==
  ASSUME ShapeOK, NEW t \in Task,
         \/ Restored(t) \/ Start(t) \/ \E begun \in BOOLEAN : Fault(t, begun)
         \/ \E out \in Outcomes, verdict \in {"reject", "none"} : Return(t, out, verdict)
  PROVE  ShapeOK'
<1>0. OpOf(t) \in Ops /\ OpOf(t) \in nodes
  BY DEF Task, OpOf, Restored, Start, Fault, Return, ShapeOK, Shape
<1>1. /\ pc' \in [Task -> PCs] /\ pc'[t] \notin {"none", "due", "never"}
      /\ \A u \in Task : u # t => pc'[u] = pc[u]
  BY DEF Restored, Start, Fault, Return, Goto, ShapeOK, TypeOK, PCs
<1>2. CASE Restored(t)
  <2>1. told' \in [Ops -> Words \cup {"none"}]
    BY <1>0, <1>2, TellType DEF Restored, ShapeOK, TypeOK
  <2> QED
    BY <1>0, <1>1, <1>2, <2>1 DEF Restored, ShapeOK, TypeOK, Shape, graphVars, controlVars
<1>3. CASE Start(t)
  BY <1>0, <1>1, <1>3 DEF Start, ShapeOK, TypeOK, Shape, graphVars, controlVars
<1>4. ASSUME NEW begun \in BOOLEAN, Fault(t, begun)
      PROVE  ShapeOK'
  <2>1. told' \in [Ops -> Words \cup {"none"}] /\ started' \subseteq nodes
    BY <1>0, <1>4, TellType DEF Fault, ShapeOK, TypeOK, Words, Terminal
  <2> QED
    BY <1>0, <1>1, <1>4, <2>1 DEF Fault, Release, ShapeOK, TypeOK, Shape, graphVars, controlVars
<1>5. ASSUME NEW out \in Outcomes, NEW verdict \in {"reject", "none"}, Return(t, out, verdict)
      PROVE  ShapeOK'
  <2>1. /\ told' \in [Ops -> Words \cup {"none"}]
        /\ status' \in [Ops -> Terminal \cup {Pending, "processing"}]
    BY <1>0, <1>5, TellType DEF Return, ShapeOK, TypeOK, Words, Terminal
  <2>2. rejected' \subseteq flow.gates
    BY <1>5 DEF Return, ShapeOK, TypeOK
  <2> QED
    BY <1>0, <1>1, <1>5, <2>1, <2>2
       DEF Return, Release, Recorded, ShapeOK, TypeOK, Shape, graphVars, controlVars
<1> QED
  BY <1>2, <1>3, <1>4, <1>5

(* An operation that is cancelled, by itself or by the run.                *)
LEMMA CancelShape ==
  ASSUME ShapeOK, NEW t \in Task, ReturnCancelled(t) \/ Timeout(t) \/ Abandon(t)
  PROVE  ShapeOK'
<1>0. OpOf(t) \in Ops /\ OpOf(t) \in nodes
  BY DEF Task, OpOf, ReturnCancelled, Timeout, Abandon, Idle, ShapeOK, Shape
<1>1. /\ pc' \in [Task -> PCs] /\ pc'[t] # "none" /\ pc'[t] # "due"
      /\ pc'[t] = "never" => pc[t] = "due" /\ ~Going /\ run' = run
      /\ \A u \in Task : u # t => pc'[u] = pc[u]
  BY DEF ReturnCancelled, Timeout, Abandon, Goto, ShapeOK, TypeOK, PCs
<1>2. Cancelled(t) \/ UNCHANGED <<outcomeVars, told>>
  BY DEF ReturnCancelled, Timeout, Abandon
<1>3. /\ told' \in [Ops -> Words \cup {"none"}]
      /\ status' \in [Ops -> Terminal \cup {Pending, "processing"}]
      /\ done \subseteq done' /\ done' \subseteq nodes
      /\ UNCHANGED <<results, skipped, failed, preFailed, rejected, vetoed>>
  <2>1. "cancelled" \in Words /\ "cancelled" \in Terminal
    BY DEF Words, Terminal
  <2>2. Tell(OpOf(t), "cancelled") \in [Ops -> Words \cup {"none"}]
    BY <1>0, <2>1, TellType DEF ShapeOK
  <2> QED
    BY <1>0, <1>2, <2>1, <2>2 DEF Cancelled, Release, outcomeVars, ShapeOK, TypeOK
<1>4. QED
  <2>1. /\ run' \in {run, "stopping", "crashing"}
        /\ UNCHANGED <<graphVars, spawned, started, announced, todo, open, veto, need, at,
                        controlVars>>
    BY DEF ReturnCancelled, Timeout, Abandon
  <2>2. pc'[t] = "never" => ~flow.reactive /\ run' \notin {"running", "ended"}
    BY <1>1 DEF ReturnCancelled, Timeout, Abandon, Going, Live, ShapeOK, Shape
  <2>3. TypeOK'
    BY <1>1, <1>3, <2>1 DEF ShapeOK, TypeOK, graphVars, controlVars
  <2>4. run' \in {"running", "ended"} => run \in {"running", "ended"}
    BY <2>1
  <2>5. Shape'
    BY <1>0, <1>1, <2>1, <2>2, <2>4 DEF ShapeOK, Shape, graphVars
  <2> QED
    BY <2>3, <2>5 DEF ShapeOK

(* The graph grows (_accept_node).                                         *)
LEMMA GrowShape ==
  ASSUME ShapeOK, NEW c \in Ops,
         \/ \E t \in Task : Escalate(t, c)
         \/ \E emitter \in Ops \cup {NoOp} : Inject(c, emitter)
  PROVE  ShapeOK'
<1>1. ASSUME NEW t \in Task, Escalate(t, c)
      PROVE  ShapeOK'
  BY <1>1 DEF Escalate, Accept, ShapeOK, TypeOK, Shape, outcomeVars, taskVars, controlVars
<1>2. ASSUME NEW emitter \in Ops \cup {NoOp}, Inject(c, emitter)
      PROVE  ShapeOK'
  <2>1. /\ nodes' = nodes \cup {c} /\ edges' \subseteq nodes' \X nodes'
        /\ spawned' \subseteq nodes' /\ announced' \subseteq nodes' /\ flow' = flow
    BY <1>2 DEF Inject, Accept, ShapeOK, TypeOK
  <2>2. PICK n \in 1..Copies : Goto(<<c, n>>, "ready")
    BY <1>2 DEF Inject
  <2>3. pc' \in [Task -> PCs] /\ \A u \in Task : pc'[u] = pc[u] \/ (OpOf(u) = c /\ pc'[u] = "ready")
    BY <2>2 DEF Goto, ShapeOK, TypeOK, PCs, Task, OpOf
  <2> QED
    BY <1>2, <2>1, <2>3 DEF Inject, ShapeOK, TypeOK, Shape, outcomeVars, controlVars
<1> QED
  BY <1>1, <1>2

(* The controller, the caller and the end of the run.                      *)
LEMMA ControlShape ==
  ASSUME ShapeOK, Pause \/ Resume \/ CancelRun \/ Finish
  PROVE  ShapeOK'
<1> USE FlowAssumption
<1>1. CASE Pause
  <2>1. /\ gate' \in 0..MaxPauses /\ pauses' \in gate'..MaxPauses
    BY <1>1 DEF Pause, ShapeOK, TypeOK
  <2>2. admitted' \subseteq nodes
    BY <1>1 DEF Pause, ShapeOK, Shape
  <2> QED
    BY <1>1, <2>1, <2>2 DEF Pause, ShapeOK, TypeOK, Shape, graphVars, outcomeVars, watchVars, taskVars
<1>2. CASE Resume
  <2>1. /\ gate' \in 0..MaxPauses /\ pauses' \in gate'..MaxPauses
    BY <1>2 DEF Resume, ShapeOK, TypeOK
  <2> QED
    BY <1>2, <2>1 DEF Resume, ShapeOK, TypeOK, Shape, graphVars, outcomeVars, watchVars, taskVars
<1>3. CASE CancelRun
  BY <1>3 DEF CancelRun, ShapeOK, TypeOK, Shape, graphVars, outcomeVars, watchVars, taskVars,
              controlVars
<1>4. CASE Finish
  <2>1. told' \in [Ops -> Words \cup {"none"}]
    BY <1>4 DEF Finish, Sweep, ShapeOK, TypeOK, Words, Terminal
  <2>2. /\ run' \in {"ended", "stopped", "cancelled", "crashed"}
        /\ run' = "ended" => run = "running"
    BY <1>4 DEF Finish, Live
  <2> QED
    BY <1>4, <2>1, <2>2 DEF Finish, ShapeOK, TypeOK, Shape, graphVars, outcomeVars, taskVars,
                            controlVars
<1> QED
  BY <1>1, <1>2, <1>3, <1>4

(* Every step keeps the types and the shape.                               *)
LEMMA NextShape ==
  ASSUME ShapeOK, [Next]_vars
  PROVE  ShapeOK'
<1>1. CASE UNCHANGED vars
  BY <1>1 DEF vars, graphVars, outcomeVars, watchVars, taskVars, controlVars, ShapeOK, TypeOK, Shape
<1> QED
  BY <1>1, WalkShape, EdgeShape, RunShape, CancelShape, GrowShape, ControlShape
     DEF Next, TaskStep, Over

(* Shape and types hold throughout.                                        *)
LEMMA AlwaysShape == Spec => []ShapeOK
<1>1. ShapeOK /\ [Next]_vars => ShapeOK'
  BY NextShape
<1> QED
  BY <1>1, InitShape, PTL DEF Spec

(* The variables of the executor have their types in every run: what is    *)
(* done, recorded, skipped or announced is in the graph, and results and   *)
(* failures are recorded of operations that are done.                      *)
THEOREM FlowTypeCorrect == Spec => []TypeOK
<1>1. ShapeOK => TypeOK
  BY DEF ShapeOK
<1> QED
  BY <1>1, AlwaysShape, PTL

-----------------------------------------------------------------------------
(* Pauses.                                                                 *)

(* While a gate is up, whoever is past the boundary was when it came up.   *)
GateInv == gate # 0 => \A t \in Task : pc[t] = "limiter" => OpOf(t) \in admitted

(* Nobody passes the boundary under a gate.                                *)
LEMMA NextGate ==
  ASSUME ShapeOK, GateInv, [Next]_vars
  PROVE  GateInv'
<1> DEFINE Still == UNCHANGED <<gate, admitted>>
<1>1. ASSUME Still, \A u \in Task : pc'[u] = "limiter" => pc[u] = "limiter" \/ gate = 0
      PROVE  GateInv'
  BY <1>1 DEF GateInv
<1>2. ASSUME NEW t \in Task, NEW place \in PCs, Still, Goto(t, place),
             place = "limiter" => gate = 0
      PROVE  GateInv'
  BY <1>1, <1>2 DEF Goto, ShapeOK, TypeOK
<1> HIDE DEF Still
<1>3. CASE UNCHANGED vars
  BY <1>1, <1>3 DEF vars, taskVars, controlVars, Still
<1>4. ASSUME NEW t \in Task,
             \/ Create(t) \/ Restored(t) \/ Begin(t) \/ Start(t) \/ ReturnCancelled(t)
             \/ \E begun \in BOOLEAN : Fault(t, begun)
             \/ Timeout(t) \/ End(t) \/ Crash(t) \/ Abandon(t)
             \/ \E out \in Outcomes, verdict \in {"reject", "none"} : Return(t, out, verdict)
      PROVE  GateInv'
  <2>1. Still
    BY <1>4 DEF Create, Restored, Begin, Start, ReturnCancelled, Fault, Timeout, End, Crash, Abandon, Return,
                controlVars, Still
  <2>2. \E place \in PCs \ {"limiter"} : Goto(t, place)
    BY <1>4 DEF Create, Restored, Begin, Start, ReturnCancelled, Fault, Timeout, End, Crash, Abandon, Return,
                PCs
  <2> QED
    BY <1>2, <2>1, <2>2
<1>5. ASSUME NEW t \in Task, NEW h \in todo[t], CheckEdge(t, h)
      PROVE  GateInv'
  <2>1. Still
    BY <1>5 DEF CheckEdge, controlVars, Still
  <2>2. pc' = pc \/ \E place \in PCs \ {"limiter"} : Goto(t, place)
    BY <1>5 DEF CheckEdge, Proceed, Skip, PCs
  <2> QED
    BY <1>1, <1>2, <2>1, <2>2
<1>6. ASSUME NEW t \in Task, DepsMet(t) \/ GateOpens(t)
      PROVE  GateInv'
  <2>1. Still
    BY <1>6 DEF DepsMet, GateOpens, controlVars, Still
  <2>2. AtBoundary(t)
    BY <1>6 DEF DepsMet, GateOpens
  <2> QED
    BY <1>2, <2>1, <2>2 DEF AtBoundary, PCs
<1>7. ASSUME NEW t \in Task, NEW c \in Ops, Escalate(t, c)
      PROVE  GateInv'
  BY <1>1, <1>7 DEF Escalate, taskVars, controlVars, Still
<1>8. ASSUME NEW c \in Ops, NEW emitter \in Ops \cup {NoOp}, Inject(c, emitter)
      PROVE  GateInv'
  <2>1. PICK n \in 1..Copies : Goto(<<c, n>>, "ready")
    BY <1>8 DEF Inject
  <2>2. <<c, n>> \in Task /\ "ready" \in PCs
    BY DEF Task, PCs
  <2>3. Still
    BY <1>8 DEF Inject, controlVars, Still
  <2> QED
    BY <1>2, <2>1, <2>2, <2>3
<1>9. CASE CancelRun \/ Finish
  BY <1>1, <1>9 DEF CancelRun, Finish, taskVars, controlVars, Still
<1>10. CASE Pause \/ Resume
  BY <1>10 DEF Pause, Resume, taskVars, GateInv
<1> QED
  BY <1>3, <1>4, <1>5, <1>6, <1>7, <1>8, <1>9, <1>10 DEF Next, TaskStep, Over

(* Under a gate only what was past the boundary starts.                    *)
LEMMA GateHolds ==
  ASSUME ShapeOK, GateInv, [Next]_vars, gate # 0
  PROVE  started' \subseteq started \cup admitted
<1>1. ASSUME NEW t \in Task, Start(t)
      PROVE  started' \subseteq started \cup admitted
  BY <1>1 DEF Start, GateInv
<1>2. ASSUME NEW t \in Task, NEW begun \in BOOLEAN, Fault(t, begun)
      PROVE  started' \subseteq started \cup admitted
  BY <1>2 DEF Fault, GateInv
<1>3. CASE \A t \in Task : ~Start(t) /\ \A begun \in BOOLEAN : ~Fault(t, begun)
  BY <1>3 DEF Next, TaskStep, Over, vars, watchVars, Create, Restored, Begin, CheckEdge, DepsMet,
              GateOpens, Return, ReturnCancelled, Timeout, End, Crash, Abandon, Escalate, Inject,
              Pause, Resume, CancelRun, Finish
<1> QED
  BY <1>1, <1>2, <1>3

(* A pause is soft at the boundary: while a gate is up nothing starts but  *)
(* what was past the boundary when it came up (_pause_event, ADR-0069).    *)
THEOREM PauseHolds == Spec => PauseHoldsTheRest
<1>1. Init => GateInv
  BY DEF Init, GateInv
<1>2. ShapeOK /\ GateInv /\ [Next]_vars => GateInv'
  BY NextGate
<1>3. ShapeOK /\ GateInv /\ [Next]_vars => [gate # 0 => started' \subseteq started \cup admitted]_vars
  BY GateHolds
<1> QED
  BY <1>1, <1>2, <1>3, AlwaysShape, PTL DEF Spec, PauseHoldsTheRest

-----------------------------------------------------------------------------
(* Each operation scheduled once.                                          *)

Of(o) == pc[<<o, 1>>]
Early == {"none", "due", "never", "ready"}
Waits == {"edges", "deps", "gate", "limiter"}
Closed == {"tail", "ended"}
\* The runs that return a result, while they run and after.
Orderly == {"running", "stopping", "ended", "stopped"}

(* With one task per operation, tasks are operations.                      *)
LEMMA OneTask ==
  ASSUME Copies = 1
  PROVE  /\ \A o \in Ops : <<o, 1>> \in Task /\ OpOf(<<o, 1>>) = o
         /\ \A t \in Task : OpOf(t) \in Ops /\ t = <<OpOf(t), 1>>
BY DEF Task, OpOf

(* Nothing was recorded of an operation but what a checkpoint restored.    *)
Untouched(o) ==
  /\ told[o] = "none"
  /\ o \notin skipped /\ o \notin failed /\ o \notin preFailed
  /\ o \in results <=> flow.was[o] = "completed"
  /\ o \in done <=> flow.was[o] = "completed"

(* The ways an operation is accounted for at the end of its task.          *)
Account(o) ==
  \/ /\ told[o] = "completed" /\ status[o] = "completed" /\ o \in results
     /\ o \notin skipped /\ o \notin failed /\ o \notin preFailed
  \/ /\ told[o] = "failed" /\ status[o] = "failed" /\ o \in results
     /\ o \notin skipped /\ o \in failed
     /\ o \in preFailed <=> flow.was[o] = "failed"
  \/ /\ told[o] = "skipped" /\ status[o] = "skipped"
     /\ o \in skipped /\ o \notin failed
  \/ /\ told[o] = "cancelled" /\ status[o] = "cancelled" /\ o \notin results
     /\ o \notin skipped /\ o \notin failed /\ o \notin preFailed

(* What is recorded of an operation follows from where its task is.        *)
Ledger(o) ==
  /\ Of(o) \in Early => status[o] = flow.was[o] /\ Untouched(o) /\ o \notin started
  /\ Of(o) \in Waits => /\ status[o] = Pending /\ flow.was[o] = Pending
                        /\ Untouched(o) /\ o \notin started
  /\ Of(o) = "invoke" => status[o] = "processing" /\ flow.was[o] = Pending /\ Untouched(o)
  /\ Of(o) \in Closed /\ "fault" \notin flow.may =>
       /\ told[o] # "none" \/ flow.was[o] = "aborted"
       /\ run \in Orderly /\ flow.was[o] \in {Pending, "completed", "failed"} =>
            Account(o)

LedgerInv ==
  /\ run # "cancelled" => \A o \in Ops : Ledger(o)
  /\ "escalate" \notin flow.may => \A o \in announced : Of(o) # "none"
  /\ ~Live => AllEnded
  /\ run = "cancelled" => \A o \in announced : told[o] # "none"

(* A run that is over stays as it is.                                      *)
LEMMA Halted ==
  ASSUME ShapeOK, LedgerInv, [Next]_vars, ~Live
  PROVE  UNCHANGED vars
<1>1. \A t \in Task : pc[t] \in Idle
  BY DEF LedgerInv, AllEnded
<1>2. run \notin {"running", "stopping", "cancelling", "crashing"}
  BY DEF Live
<1>3. ASSUME NEW t \in Task
      PROVE  ~TaskStep(t) /\ ~Timeout(t) /\ ~Crash(t) /\ ~Abandon(t) /\ \A c \in Ops : ~Escalate(t, c)
  BY <1>1, <1>2 DEF TaskStep, Create, Restored, Begin, CheckEdge, DepsMet, GateOpens, Start, Return,
                    ReturnCancelled, Fault, Timeout, End, Crash, Abandon, Escalate, Idle, Live, Going
<1> QED
  BY <1>2, <1>3 DEF Next, Inject, Pause, Resume, CancelRun, Finish, Live, Over

(* What a step that is not about p leaves alone.                           *)
Same(p) ==
  /\ pc'[<<p, 1>>] = pc[<<p, 1>>] /\ status'[p] = status[p] /\ told'[p] = told[p]
  /\ p \in done' <=> p \in done
  /\ p \in results' <=> p \in results
  /\ p \in skipped' <=> p \in skipped
  /\ p \in failed' <=> p \in failed
  /\ p \in preFailed' <=> p \in preFailed
  /\ p \in started' <=> p \in started

\* A run that was cut short by a caller or a crash never returns a result.
RunMoves == run' \in Orderly => run \in Orderly

(* Then its account stays true.                                            *)
LEMMA SameLedger ==
  ASSUME NEW p \in Ops, Ledger(p), Same(p), flow' = flow, RunMoves
  PROVE  Ledger(p)'
BY DEF Ledger, Same, RunMoves, Of, Untouched, Account

(* The steps of one task concern its operation only.                       *)
LEMMA OthersSame ==
  ASSUME Copies = 1, ShapeOK, NEW t \in Task, TaskStep(t) \/ Timeout(t) \/ Crash(t) \/ Abandon(t),
         NEW p \in Ops, p # OpOf(t)
  PROVE  Same(p) /\ flow' = flow
<1>0. OpOf(t) \in Ops /\ t # <<p, 1>> /\ <<p, 1>> \in Task
  BY OneTask
<1>1. ASSUME NEW place, Goto(t, place)
      PROVE  pc'[<<p, 1>>] = pc[<<p, 1>>]
  BY <1>0, <1>1 DEF Goto, ShapeOK, TypeOK
<1>2. ASSUME NEW word, told' = Tell(OpOf(t), word)
      PROVE  told'[p] = told[p]
  BY <1>0, <1>2 DEF Tell
<1>3. CASE Create(t) \/ Begin(t) \/ DepsMet(t) \/ GateOpens(t) \/ End(t) \/ Crash(t)
  <2>1. \E place : Goto(t, place)
    BY <1>3 DEF Create, Begin, DepsMet, GateOpens, AtBoundary, End, Crash
  <2> QED
    BY <1>1, <1>3, <2>1 DEF Create, Begin, DepsMet, GateOpens, End, Crash, graphVars, outcomeVars,
                            watchVars, Same
<1>4. CASE Restored(t)
  BY <1>0, <1>1, <1>2, <1>4 DEF Restored, graphVars, Same
<1>5. ASSUME NEW h \in todo[t], CheckEdge(t, h)
      PROVE  Same(p) /\ flow' = flow
  <2>1. \/ UNCHANGED <<pc, need, status, skipped, vetoed, results, told, done>>
        \/ Proceed(t) \/ Skip(t)
    BY <1>5 DEF CheckEdge
  <2>2. /\ pc'[<<p, 1>>] = pc[<<p, 1>>] /\ told'[p] = told[p] /\ status'[p] = status[p]
        /\ p \in done' <=> p \in done
        /\ p \in results' <=> p \in results
        /\ p \in skipped' <=> p \in skipped
    BY <1>0, <1>1, <1>2, <2>1 DEF Proceed, Skip, Release, ShapeOK, TypeOK
  <2> QED
    BY <1>5, <2>2 DEF CheckEdge, graphVars, Same
<1>6. CASE Start(t)
  BY <1>0, <1>1, <1>6 DEF Start, graphVars, Same, ShapeOK, TypeOK
<1>7. ASSUME NEW out, NEW verdict, Return(t, out, verdict)
      PROVE  Same(p) /\ flow' = flow
  BY <1>0, <1>1, <1>2, <1>7 DEF Return, Recorded, Release, graphVars, Same, ShapeOK, TypeOK
<1>8. CASE ReturnCancelled(t) \/ Timeout(t) \/ Abandon(t)
  <2>1. Cancelled(t) \/ UNCHANGED <<outcomeVars, told>>
    BY <1>8 DEF ReturnCancelled, Timeout, Abandon
  <2>2. /\ told'[p] = told[p] /\ status'[p] = status[p]
        /\ p \in done' <=> p \in done
        /\ UNCHANGED <<results, skipped, failed, preFailed>>
    BY <1>0, <1>2, <2>1 DEF Cancelled, Release, outcomeVars, ShapeOK, TypeOK
  <2> QED
    BY <1>1, <1>8, <2>2 DEF ReturnCancelled, Timeout, Abandon, graphVars, Same
<1>9. ASSUME NEW begun \in BOOLEAN, Fault(t, begun)
      PROVE  Same(p) /\ flow' = flow
  BY <1>0, <1>1, <1>2, <1>9 DEF Fault, Release, graphVars, Same
<1> QED
  BY <1>3, <1>4, <1>5, <1>6, <1>7, <1>8, <1>9 DEF TaskStep

(* The step of a task up to its limiter, or to its skip.                   *)
LEMMA WalkLedger ==
  ASSUME Copies = 1, ShapeOK, NEW t \in Task, Ledger(OpOf(t)),
         \/ Create(t) \/ Begin(t) \/ DepsMet(t) \/ GateOpens(t)
         \/ \E h \in todo[t] : CheckEdge(t, h)
  PROVE  Ledger(OpOf(t))'
<1> DEFINE o == OpOf(t)
<1>0. /\ o \in Ops /\ t = <<o, 1>> /\ Of(o) = pc[t]
      /\ status[o] \in Terminal \cup {Pending, "processing"}
  BY OneTask DEF Of, ShapeOK, TypeOK
<1>1. flow.was[o] \in Terminal \cup {Pending} /\ Pending \notin Terminal
  BY <1>0, FlowFacts DEF ShapeOK, Pending, Terminal
<1>2. ASSUME NEW place, Goto(t, place)
      PROVE  Of(o)' = place
  BY <1>0, <1>2 DEF Goto, Of, ShapeOK, TypeOK
<1> HIDE DEF o
<1>3. CASE Create(t) \/ Begin(t) \/ DepsMet(t) \/ GateOpens(t)
  <2>1. UNCHANGED <<flow, outcomeVars, started, told>>
    BY <1>3 DEF Create, Begin, DepsMet, GateOpens, graphVars, watchVars
  <2>2. CASE Create(t)
    BY <1>0, <1>2, <2>1, <2>2 DEF Create, Ledger, Untouched, outcomeVars, Early, Waits, Closed, o
  <2>3. CASE Begin(t)
    <3>1. status[o] = Pending /\ flow.was[o] = Pending /\ Untouched(o) /\ o \notin started
      BY <1>0, <1>1, <2>3 DEF Begin, Ledger, Early, o
    <3>2. Of(o)' \in {"deps", "edges"}
      BY <1>2, <2>3 DEF Begin, o
    <3> QED
      BY <2>1, <3>1, <3>2 DEF Ledger, Untouched, outcomeVars, Early, Waits, Closed, o
  <2>4. CASE DepsMet(t) \/ GateOpens(t)
    <3>1. Of(o) \in Waits /\ Of(o)' \in {"limiter", "gate"}
      BY <1>0, <1>2, <2>4 DEF DepsMet, GateOpens, AtBoundary, Waits, o
    <3> QED
      BY <2>1, <3>1 DEF Ledger, Untouched, outcomeVars, Early, Waits, Closed, o
  <2> QED
    BY <1>3, <2>2, <2>3, <2>4
<1>4. ASSUME NEW h \in todo[t], CheckEdge(t, h)
      PROVE  Ledger(o)'
  <2>1. /\ Of(o) = "edges" /\ status[o] = Pending /\ flow.was[o] = Pending
        /\ Untouched(o) /\ o \notin started
    BY <1>0, <1>4 DEF CheckEdge, Ledger, Waits, o
  <2>2. UNCHANGED <<flow, failed, preFailed, started, run>>
    BY <1>4 DEF CheckEdge, graphVars
  <2>3. CASE UNCHANGED <<pc, need, status, skipped, vetoed, results, told, done>>
    BY <2>1, <2>2, <2>3 DEF Ledger, Untouched, Of, Early, Waits, Closed
  <2>4. CASE Proceed(t)
    <3>1. Of(o)' = "deps" /\ UNCHANGED <<status, skipped, results, told, done>>
      BY <1>2, <2>4 DEF Proceed
    <3> QED
      BY <2>1, <2>2, <3>1 DEF Ledger, Untouched, Early, Waits, Closed
  <2>5. CASE Skip(t)
    <3>1. /\ Of(o)' = "tail" /\ status'[o] = "skipped" /\ o \in skipped' /\ told'[o] = "skipped"
      BY <1>0, <1>2, <2>1, <2>5 DEF Skip, Tell, Untouched, ShapeOK, TypeOK, o
    <3>2. Account(o)'
      BY <2>1, <2>2, <3>1 DEF Account, Untouched
    <3> QED
      BY <3>1, <3>2 DEF Ledger, Early, Waits, Closed
  <2> QED
    BY <1>4, <2>3, <2>4, <2>5 DEF CheckEdge
<1> QED
  BY <1>3, <1>4 DEF o

(* The step of a task from its start to its end.                           *)
LEMMA EndLedger ==
  ASSUME Copies = 1, ShapeOK, NEW t \in Task, Ledger(OpOf(t)),
         \/ Restored(t) \/ Start(t) \/ ReturnCancelled(t) \/ Timeout(t) \/ Abandon(t)
         \/ \E begun \in BOOLEAN : Fault(t, begun)
         \/ End(t) \/ Crash(t)
         \/ \E out \in Outcomes, verdict \in {"reject", "none"} : Return(t, out, verdict)
  PROVE  Ledger(OpOf(t))'
<1> DEFINE o == OpOf(t)
<1>0. /\ o \in Ops /\ t = <<o, 1>> /\ Of(o) = pc[t]
      /\ status[o] \in Terminal \cup {Pending, "processing"}
      /\ told[o] \in Words \cup {"none"}
  BY OneTask DEF Of, ShapeOK, TypeOK
<1>1. flow.was[o] \in Terminal \cup {Pending} /\ Pending \notin Terminal
  BY <1>0, FlowFacts DEF ShapeOK, Pending, Terminal
<1>2. ASSUME NEW place, Goto(t, place)
      PROVE  Of(o)' = place
  BY <1>0, <1>2 DEF Goto, Of, ShapeOK, TypeOK
<1>3. ASSUME NEW word, told' = Tell(o, word), told[o] = "none"
      PROVE  told'[o] = word
  BY <1>0, <1>3 DEF Tell, ShapeOK, TypeOK
<1>4. ASSUME NEW S
      PROVE  [status EXCEPT ![o] = S][o] = S
  BY <1>0 DEF ShapeOK, TypeOK
<1>5. CASE Restored(t)
  <2>1. status[o] = flow.was[o] /\ Untouched(o) /\ status[o] \in Terminal /\ Of(o)' = "tail"
    BY <1>0, <1>2, <1>5 DEF Restored, Ledger, Early
  <2>2. UNCHANGED <<flow, status, skipped, started, run>>
    BY <1>5 DEF Restored, graphVars
  <2>3. told'[o] # "none" \/ flow.was[o] = "aborted"
    <3>1. CASE status[o] \in Words
      <4>1. told' = Tell(o, status[o])
        BY <1>5, <3>1 DEF Restored
      <4>2. told'[o] = status[o]
        BY <1>3, <2>1, <4>1 DEF Untouched
      <4> QED
        BY <3>1, <4>2 DEF Words, Terminal
    <3>2. CASE status[o] \notin Words
      BY <2>1, <3>2 DEF Words
    <3> QED
      BY <3>1, <3>2
  <2>4. flow.was[o] \in {Pending, "completed", "failed"} => Account(o)'
    <3>1. CASE status[o] = "completed"
      BY <1>3, <1>5, <2>1, <2>2, <3>1 DEF Restored, Untouched, Words, Terminal, Account
    <3>2. CASE status[o] = "failed"
      BY <1>3, <1>5, <2>1, <2>2, <3>2 DEF Restored, Untouched, Words, Terminal, Account
    <3> QED
      BY <1>1, <2>1, <3>1, <3>2
  <2> QED
    BY <2>1, <2>2, <2>3, <2>4 DEF Ledger, Early, Waits, Closed
<1>6. CASE Start(t)
  <2>1. status[o] = Pending /\ flow.was[o] = Pending /\ Untouched(o)
    BY <1>0, <1>6 DEF Start, Ledger, Waits
  <2>2. /\ Of(o)' = "invoke" /\ status'[o] = "processing"
        /\ UNCHANGED <<flow, told, skipped, failed, preFailed, results, done>>
    BY <1>2, <1>4, <1>6, <2>1 DEF Start, graphVars, Pending
  <2> QED
    BY <2>1, <2>2 DEF Ledger, Untouched, Early, Waits, Closed
<1>7. ASSUME NEW out \in Outcomes, NEW verdict \in {"reject", "none"}, Return(t, out, verdict)
      PROVE  Ledger(o)'
  <2> DEFINE word == IF out = "completed" THEN "completed" ELSE "failed"
  <2>1. flow.was[o] = Pending /\ Untouched(o) /\ Of(o)' = "tail"
    BY <1>0, <1>2, <1>7 DEF Return, Ledger
  <2>2. /\ told'[o] = word /\ status'[o] = word /\ o \in results'
        /\ UNCHANGED <<flow, skipped, preFailed>>
        /\ failed' = IF word = "failed" THEN failed \cup {o} ELSE failed
    BY <1>3, <1>4, <1>7, <2>1 DEF Return, Recorded, graphVars, Untouched
  <2>3. Account(o)' /\ told'[o] # "none"
    BY <2>1, <2>2 DEF Account, Untouched, Pending
  <2> QED
    BY <2>1, <2>3 DEF Ledger, Early, Waits, Closed
<1>8. ASSUME NEW begun \in BOOLEAN, Fault(t, begun)
      PROVE  Ledger(o)'
  <2>1. "fault" \in flow.may /\ flow' = flow /\ Of(o)' = "tail"
    BY <1>2, <1>8 DEF Fault, graphVars
  <2> QED
    BY <2>1 DEF Ledger, Early, Waits, Closed
<1>9. CASE End(t) \/ Crash(t)
  <2>1. Of(o) = "tail" /\ Of(o)' = "ended"
    BY <1>0, <1>2, <1>9 DEF End, Crash
  <2>2. /\ UNCHANGED <<flow, outcomeVars, started, told>>
        /\ run' = run \/ run' = "crashing"
    BY <1>9 DEF End, Crash, graphVars, watchVars
  <2> QED
    BY <2>1, <2>2 DEF Ledger, Early, Waits, Closed, outcomeVars, Account, Orderly
<1>10. CASE pc[t] = "due" /\ Abandon(t)
  <2>1. Of(o) = "due" /\ Of(o)' = "never" /\ UNCHANGED <<flow, outcomeVars, started, told>>
    BY <1>0, <1>2, <1>10 DEF Abandon, graphVars
  <2> QED
    BY <2>1 DEF Ledger, Untouched, Early, Waits, Closed, outcomeVars
<1>11. CASE pc[t] # "due" /\ (ReturnCancelled(t) \/ Timeout(t) \/ Abandon(t))
  <2>1. Of(o) \in {"ready"} \cup Waits \cup {"invoke"}
    BY <1>0, <1>11 DEF ReturnCancelled, Timeout, Abandon, NoTail, Idle, Waits, PCs, ShapeOK, TypeOK
  <2>2. Of(o) = "ready" => status[o] \notin Terminal
    BY <1>0, <1>11 DEF ReturnCancelled, Timeout, Abandon
  <2>3. flow.was[o] = Pending /\ Untouched(o) /\ status[o] \in {Pending, "processing"}
    BY <1>1, <2>1, <2>2 DEF Ledger, Early, Waits
  <2>4. Cancelled(t) /\ Of(o)' = "ended" /\ flow' = flow
    BY <1>2, <1>11 DEF ReturnCancelled, Timeout, Abandon, graphVars
  <2>5. /\ told'[o] = "cancelled" /\ status'[o] = "cancelled"
        /\ UNCHANGED <<results, skipped, failed, preFailed>>
    BY <1>3, <1>4, <2>3, <2>4 DEF Cancelled, Untouched, Terminal, Pending
  <2>6. Account(o)'
    BY <2>3, <2>5 DEF Account, Untouched, Pending
  <2> QED
    BY <2>4, <2>5, <2>6 DEF Ledger, Early, Waits, Closed
<1> QED
  BY <1>5, <1>6, <1>7, <1>8, <1>9, <1>10, <1>11 DEF ReturnCancelled, Timeout

(* Every step keeps the ledgers.                                           *)
LEMMA NextLedger ==
  ASSUME Copies = 1, ShapeOK, LedgerInv, [Next]_vars
  PROVE  LedgerInv'
<1>0. CASE UNCHANGED vars
  BY <1>0 DEF LedgerInv, Ledger, Untouched, Account, Of, Live, AllEnded, vars, graphVars,
              outcomeVars, watchVars, taskVars
<1> SUFFICES ASSUME Next, Live
             PROVE  LedgerInv'
  BY <1>0, Halted
<1>1. run # "cancelled" /\ \A o \in Ops : Ledger(o)
  BY DEF Live, LedgerInv
<1>2. ASSUME NEW t \in Task, TaskStep(t) \/ Timeout(t) \/ Crash(t) \/ Abandon(t)
      PROVE  LedgerInv'
  <2>1. OpOf(t) \in Ops /\ t = <<OpOf(t), 1>>
    BY OneTask
  <2>2. Ledger(OpOf(t))'
    BY <1>1, <1>2, <2>1, WalkLedger, EndLedger DEF TaskStep
  <2>3. RunMoves /\ Live'
    <3>1. run' = run \/ run' = "crashing" \/ (run = "running" /\ run' = "stopping")
      BY <1>2 DEF TaskStep, Create, Restored, Begin, CheckEdge, DepsMet, GateOpens, Start, Return,
                  ReturnCancelled, Fault, Timeout, End, Crash, Abandon, Going
    <3> QED
      BY <3>1 DEF RunMoves, Orderly, Live
  <2>4. \A o \in Ops : Ledger(o)'
    BY <1>1, <1>2, <2>2, <2>3, OthersSame, SameLedger
  <2>5. announced' = announced /\ flow' = flow
    BY <1>2 DEF TaskStep, Create, Restored, Begin, CheckEdge, DepsMet, GateOpens, Start, Return,
                ReturnCancelled, Fault, Timeout, End, Crash, Abandon, graphVars, watchVars
  <2>6. \A o \in Ops : Of(o) # "none" => Of(o)' # "none"
    <3>1. pc' = pc \/ \E place \in PCs \ {"none"} : Goto(t, place)
      BY <1>2 DEF TaskStep, Create, Restored, Begin, CheckEdge, DepsMet, GateOpens, Start, Return,
                  ReturnCancelled, Fault, Timeout, End, Crash, Abandon, PCs, AtBoundary, Proceed, Skip
    <3> QED
      BY <3>1 DEF Goto, Of, ShapeOK, TypeOK, Task
  <2> QED
    BY <2>3, <2>4, <2>5, <2>6 DEF LedgerInv, Live, ShapeOK, TypeOK
<1>3. ASSUME NEW t \in Task, NEW c \in Ops, Escalate(t, c)
      PROVE  LedgerInv'
  <2>1. /\ UNCHANGED <<flow, outcomeVars, started, told, pc, run>>
        /\ "escalate" \in flow.may
    BY <1>3 DEF Escalate, Accept, taskVars
  <2>2. \A o \in Ops : Ledger(o)'
    BY <1>1, <2>1, SameLedger DEF Same, RunMoves, outcomeVars
  <2> QED
    BY <2>1, <2>2 DEF LedgerInv, Live
<1>4. ASSUME NEW c \in Ops, NEW emitter \in Ops \cup {NoOp}, Inject(c, emitter)
      PROVE  LedgerInv'
  <2>1. /\ UNCHANGED <<flow, outcomeVars, started, told, run>>
        /\ announced' = announced \cup {c}
    BY <1>4 DEF Inject, Accept
  <2>2. Of(c) = "none" /\ Goto(<<c, 1>>, "ready")
    BY <1>4 DEF Inject, Of
  <2>3. Of(c)' = "ready" /\ \A o \in Ops : o # c => Of(o)' = Of(o)
    BY <2>2 DEF Goto, Of, ShapeOK, TypeOK, Task
  <2>4. ASSUME NEW o \in Ops
        PROVE  Ledger(o)'
    <3>1. CASE o = c
      BY <1>1, <2>1, <2>2, <2>3, <3>1 DEF Ledger, Untouched, outcomeVars, Early, Waits, Closed
    <3>2. CASE o # c
      BY <1>1, <2>1, <2>3, <3>2, SameLedger DEF Same, RunMoves, outcomeVars, Of
    <3> QED
      BY <3>1, <3>2
  <2> QED
    BY <2>1, <2>3, <2>4 DEF LedgerInv, Live, ShapeOK, TypeOK
<1>5. CASE Pause \/ Resume \/ CancelRun
  <2>1. /\ UNCHANGED <<flow, outcomeVars, watchVars, pc>>
        /\ run' = run \/ run' = "cancelling"
    BY <1>5 DEF Pause, Resume, CancelRun, graphVars, taskVars
  <2>2. \A o \in Ops : Ledger(o)'
    BY <1>1, <2>1, SameLedger DEF Same, RunMoves, Orderly, outcomeVars, watchVars
  <2> QED
    BY <2>1, <2>2 DEF LedgerInv, Live, watchVars, Of
<1>6. CASE Finish
  <2>1. UNCHANGED <<flow, outcomeVars, started, announced, pc>> /\ AllEnded
    BY <1>6 DEF Finish, graphVars, taskVars
  <2>2. AllEnded'
    BY <2>1 DEF AllEnded
  <2>3. CASE run = "cancelling"
    <3>1. run' = "cancelled" /\ told' = Sweep
      BY <1>6, <2>3 DEF Finish
    <3>2. \A o \in announced : told'[o] # "none"
      BY <3>1 DEF Sweep, ShapeOK, TypeOK
    <3> QED
      BY <2>1, <2>2, <3>1, <3>2 DEF LedgerInv, Of
  <2>4. CASE run # "cancelling"
    <3>1. /\ told' = told
          /\ \/ run = "running" /\ run' = "ended"
             \/ run = "stopping" /\ run' = "stopped"
             \/ run = "crashing" /\ run' = "crashed"
      BY <1>6, <2>4 DEF Finish, Live
    <3>2. \A o \in Ops : Ledger(o)'
      BY <1>1, <2>1, <3>1, SameLedger DEF Same, RunMoves, Orderly, outcomeVars
    <3> QED
      BY <2>1, <2>2, <3>1, <3>2 DEF LedgerInv, Of
  <2> QED
    BY <2>3, <2>4
<1> QED
  BY <1>2, <1>3, <1>4, <1>5, <1>6 DEF Next, Over, Live

(* The ledgers are right throughout.                                       *)
LEMMA AlwaysLedger ==
  ASSUME Copies = 1
  PROVE  Spec => []LedgerInv
<1>1. Init => LedgerInv
  <2> SUFFICES ASSUME Init
               PROVE  LedgerInv
    OBVIOUS
  <2>1. \A o \in Ops : <<o, 1>> \in Task /\ OpOf(<<o, 1>>) = o
    BY OneTask
  <2>2. \A o \in Ops : Of(o) \in Early /\ (o \in nodes => Of(o) # "none")
    BY <2>1 DEF Init, Of, Early
  <2>3. \A o \in Ops : status[o] = flow.was[o] /\ Untouched(o) /\ o \notin started
    BY DEF Init, Untouched
  <2>4. announced \subseteq Ops /\ announced = nodes
    BY InitShape DEF Init, ShapeOK, TypeOK
  <2> QED
    BY <2>2, <2>3, <2>4 DEF Init, LedgerInv, Ledger, Early, Waits, Closed, Live
<1>2. ShapeOK /\ LedgerInv /\ [Next]_vars => LedgerInv'
  BY NextLedger
<1> QED
  BY <1>1, <1>2, AlwaysShape, PTL DEF Spec

(* Who was told that an operation is queued is told what became of it by   *)
(* the end of the run, when each operation has one task (_queued_announced,*)
(* _cancel_announced_unfinished): but for an operation that the static     *)
(* executor had no task for when its task group ended without a            *)
(* cancellation by the caller, which is the only case without a sweep.     *)
THEOREM AnnouncedAreAnswered ==
  ASSUME Copies = 1
  PROVE  Spec => []AnnouncedIsAnswered
<1>1. ShapeOK /\ LedgerInv => AnnouncedIsAnswered
  <2> SUFFICES ASSUME ShapeOK, LedgerInv, flow.may \cap {"escalate", "fault"} = {}, ~Live,
                      NEW o \in announced, told[o] = "none", flow.was[o] # "aborted"
               PROVE  ~flow.reactive /\ run \in {"stopped", "crashed"} /\ NeverCreated(o)
    BY DEF AnnouncedIsAnswered
  <2>1. o \in Ops /\ <<o, 1>> \in Task /\ OpOf(<<o, 1>>) = o
    BY OneTask DEF ShapeOK, TypeOK
  <2>2. run # "cancelled" /\ Ledger(o) /\ "fault" \notin flow.may
    BY <2>1 DEF LedgerInv
  <2>3. Of(o) \in {"never", "ended"}
    BY <2>1 DEF LedgerInv, AllEnded, Idle, Of
  <2>4. Of(o) # "ended"
    BY <2>2 DEF Ledger, Closed
  <2>5. pc[<<o, 1>>] = "never"
    BY <2>3, <2>4 DEF Of
  <2>6. ~flow.reactive /\ run \notin {"running", "ended"}
    BY <2>1, <2>5 DEF ShapeOK, Shape
  <2> QED
    BY <2>1, <2>2, <2>5, <2>6 DEF NeverCreated, Live, ShapeOK, TypeOK
<1> QED
  BY <1>1, AlwaysShape, AlwaysLedger, PTL

(* The word each watcher got, the FlowEvent of the stream and the lists of *)
(* the result agree at the end of a run that returns a result and in which *)
(* no condition raised (_make_event, execute), also when an operation's    *)
(* own cancellation ended it.                                              *)
THEOREM AccountsDoAgree ==
  ASSUME Copies = 1
  PROVE  Spec => []AccountsAgree
<1>1. ShapeOK /\ LedgerInv => AccountsAgree
  <2> SUFFICES ASSUME ShapeOK, LedgerInv, "fault" \notin flow.may, "escalate" \notin flow.may,
                      run \in {"ended", "stopped"}, NEW o \in announced,
                      flow.was[o] \in {Pending, "completed", "failed"}, ~NeverCreated(o)
               PROVE  /\ told[o] = EventStatus(o)
                      /\ o \in skipped <=> told[o] = "skipped"
                      /\ o \in failed <=> told[o] = "failed"
                      /\ o \in CompletedOperations <=>
                           \/ told[o] = "completed"
                           \/ told[o] = "failed" /\ flow.was[o] # "failed"
    BY DEF AccountsAgree
  <2>1. o \in Ops /\ <<o, 1>> \in Task /\ OpOf(<<o, 1>>) = o
    BY OneTask DEF ShapeOK, TypeOK
  <2>2. Of(o) = "ended"
    BY <2>1 DEF LedgerInv, AllEnded, Idle, NeverCreated, Of, Live
  <2>3. Account(o)
    BY <2>1, <2>2 DEF LedgerInv, Ledger, Closed, Orderly
  <2> USE DEF EventStatus, CompletedOperations
  <2>4. preFailed \subseteq failed
    BY DEF ShapeOK, TypeOK
  <2>5. CASE told[o] = "completed"
    BY <2>3, <2>5 DEF Account
  <2>6. CASE told[o] = "failed"
    BY <2>3, <2>6 DEF Account
  <2>7. CASE told[o] = "skipped"
    BY <2>3, <2>4, <2>7 DEF Account
  <2>8. CASE told[o] = "cancelled"
    BY <2>3, <2>8 DEF Account
  <2> QED
    BY <2>3, <2>5, <2>6, <2>7, <2>8 DEF Account
<1> QED
  BY <1>1, AlwaysShape, AlwaysLedger, PTL
-----------------------------------------------------------------------------
(* Dependencies first.                                                     *)

(* What a task has waited for when it gets to a place.                     *)
Order(o) ==
  /\ o \in done => Settled(o)
  /\ Of(o) \in {"deps", "gate", "limiter"} => need[<<o, 1>>] = Needs(o)
  /\ Of(o) \in {"gate", "limiter"} => Needs(o) \subseteq done
  /\ o \in started => Of(o) # "none" /\ \A h \in Needs(o) : Settled(h)

OrderInv == \A o \in Ops : Order(o)

(* Two facts of every step: an operation that is settled stays so, and one *)
(* that is done stays done.                                                *)
LEMMA SettledStays ==
  ASSUME ShapeOK, [Next]_vars
  PROVE  /\ done \subseteq done'
         /\ \A o \in Ops : Settled(o) => Settled(o)'
<1> USE DEF Terminal, Pending
<1>0. ASSUME NEW t \in Task
      PROVE  OpOf(t) \in Ops
  BY <1>0 DEF Task, OpOf
<1>1. ASSUME UNCHANGED <<status, done, failed>>
      PROVE  done \subseteq done' /\ \A o \in Ops : Settled(o) => Settled(o)'
  BY <1>1 DEF Settled
<1>2. ASSUME NEW t \in Task, Restored(t) \/ \E begun \in BOOLEAN : Fault(t, begun)
      PROVE  done \subseteq done' /\ \A o \in Ops : Settled(o) => Settled(o)'
  BY <1>2 DEF Settled, Restored, Fault, Release
<1>3. ASSUME NEW t \in Task, NEW h \in todo[t], CheckEdge(t, h)
      PROVE  done \subseteq done' /\ \A o \in Ops : Settled(o) => Settled(o)'
  <2>1. UNCHANGED <<status, done>> \/ Skip(t)
    BY <1>3 DEF CheckEdge, Proceed
  <2>2. failed' = failed
    BY <1>3 DEF CheckEdge
  <2> QED
    BY <1>0, <2>1, <2>2 DEF Settled, Skip, Release, ShapeOK, TypeOK
<1>4. ASSUME NEW t \in Task, Start(t)
      PROVE  done \subseteq done' /\ \A o \in Ops : Settled(o) => Settled(o)'
  BY <1>0, <1>4 DEF Settled, Start, ShapeOK, TypeOK
<1>5. ASSUME NEW t \in Task, NEW out \in Outcomes, NEW verdict \in {"reject", "none"},
             Return(t, out, verdict)
      PROVE  done \subseteq done' /\ \A o \in Ops : Settled(o) => Settled(o)'
  <2>1. /\ done \subseteq done' /\ failed \subseteq failed'
        /\ \E word \in Terminal : status' = [status EXCEPT ![OpOf(t)] = word]
    BY <1>5 DEF Return, Release
  <2> QED
    BY <1>0, <2>1 DEF Settled, ShapeOK, TypeOK
<1>6. ASSUME NEW t \in Task, Cancelled(t)
      PROVE  done \subseteq done' /\ \A o \in Ops : Settled(o) => Settled(o)'
  BY <1>0, <1>6 DEF Settled, Cancelled, Release, ShapeOK, TypeOK
<1>7. ASSUME NEW t \in Task, TaskStep(t)
      PROVE  done \subseteq done' /\ \A o \in Ops : Settled(o) => Settled(o)'
  <2>1. CASE Create(t) \/ Begin(t) \/ DepsMet(t) \/ GateOpens(t) \/ End(t)
    BY <1>1, <2>1 DEF Create, Begin, DepsMet, GateOpens, End, outcomeVars
  <2> QED
    BY <1>2, <1>3, <1>4, <1>5, <1>6, <1>7, <2>1 DEF TaskStep, ReturnCancelled
<1>8. ASSUME NEW t \in Task, Timeout(t) \/ Crash(t) \/ Abandon(t)
      PROVE  done \subseteq done' /\ \A o \in Ops : Settled(o) => Settled(o)'
  BY <1>1, <1>6, <1>8 DEF Timeout, Crash, Abandon, outcomeVars
<1>9. ASSUME \/ \E t \in Task, c \in Ops : Escalate(t, c)
             \/ \E c \in Ops, emitter \in Ops \cup {NoOp} : Inject(c, emitter)
             \/ Pause \/ Resume \/ CancelRun \/ Finish \/ Over \/ UNCHANGED vars
      PROVE  done \subseteq done' /\ \A o \in Ops : Settled(o) => Settled(o)'
  BY <1>1, <1>9 DEF Escalate, Inject, Pause, Resume, CancelRun, Finish, Over, vars, outcomeVars
<1> QED
  BY <1>7, <1>8, <1>9 DEF Next

(* What an operation depends on is fixed once it has a task: the graph     *)
(* grows towards the operation it gets.                                    *)
LEMMA NeedsStay ==
  ASSUME Copies = 1, ShapeOK, [Next]_vars, NEW p \in Ops, Of(p) # "none"
  PROVE  Predecessors(p)' = Predecessors(p) /\ Needs(p)' = Needs(p) /\ Of(p)' # "none"
<1>0. <<p, 1>> \in Task /\ OpOf(<<p, 1>>) = p /\ p \in nodes
  BY OneTask DEF ShapeOK, Shape, Of
<1>1. ASSUME UNCHANGED graphVars
      PROVE  Predecessors(p)' = Predecessors(p) /\ Needs(p)' = Needs(p)
  BY <1>1 DEF graphVars, Needs, Sources, Predecessors
<1>2. ASSUME NEW t \in Task, NEW place, place # "none", Goto(t, place)
      PROVE  Of(p)' # "none"
  BY <1>0, <1>2 DEF Goto, Of, ShapeOK, TypeOK
<1>3. ASSUME NEW t \in Task, TaskStep(t) \/ Timeout(t) \/ Crash(t) \/ Abandon(t)
      PROVE  Predecessors(p)' = Predecessors(p) /\ Needs(p)' = Needs(p) /\ Of(p)' # "none"
  <2>1. UNCHANGED graphVars
    BY <1>3 DEF TaskStep, Create, Restored, Begin, CheckEdge, DepsMet, GateOpens, Start, Return,
                ReturnCancelled, Fault, Timeout, End, Crash, Abandon
  <2>2. UNCHANGED pc \/ \E place : place # "none" /\ Goto(t, place)
    <3>1. CASE Create(t) \/ Restored(t) \/ Begin(t) \/ \E h \in todo[t] : CheckEdge(t, h)
      BY <3>1 DEF Create, Restored, Begin, CheckEdge, Proceed, Skip
    <3>2. CASE DepsMet(t) \/ GateOpens(t) \/ Start(t)
      BY <3>2 DEF DepsMet, GateOpens, AtBoundary, Start
    <3>3. CASE \/ \E out \in Outcomes, verdict \in {"reject", "none"} : Return(t, out, verdict)
               \/ ReturnCancelled(t) \/ \E begun \in BOOLEAN : Fault(t, begun)
               \/ Timeout(t) \/ End(t) \/ Crash(t) \/ Abandon(t)
      BY <3>3 DEF Return, ReturnCancelled, Fault, Timeout, End, Crash, Abandon
    <3> QED
      BY <1>3, <3>1, <3>2, <3>3 DEF TaskStep
  <2> QED
    BY <1>1, <1>2, <2>1, <2>2 DEF Of
<1>4. ASSUME NEW t \in Task, NEW c \in Ops, Escalate(t, c)
      PROVE  Predecessors(p)' = Predecessors(p) /\ Needs(p)' = Needs(p) /\ Of(p)' # "none"
  <2>1. c \notin nodes /\ nodes' = nodes \cup {c} /\ edges' = edges /\ UNCHANGED <<flow, pc>>
    BY <1>4 DEF Escalate, Accept, taskVars
  <2>2. Predecessors(p)' = Predecessors(p)
    BY <2>1 DEF Predecessors, ShapeOK, TypeOK
  <2> QED
    BY <2>1, <2>2 DEF Needs, Sources, Of
<1>5. ASSUME NEW c \in Ops, NEW emitter \in Ops \cup {NoOp}, Inject(c, emitter)
      PROVE  Predecessors(p)' = Predecessors(p) /\ Needs(p)' = Needs(p) /\ Of(p)' # "none"
  <2>1. PICK n \in 1..Copies : pc[<<c, n>>] = "none" /\ Goto(<<c, n>>, "ready")
    BY <1>5 DEF Inject
  <2>2. n = 1 /\ c # p
    BY <2>1 DEF Of
  <2>3. /\ nodes' = nodes \cup {c} /\ flow' = flow
        /\ edges' = edges \cup (IF emitter = NoOp THEN {} ELSE {<<emitter, c>>})
    BY <1>5 DEF Inject, Accept
  <2>4. Predecessors(p)' = Predecessors(p)
    BY <2>2, <2>3 DEF Predecessors, ShapeOK, TypeOK
  <2>5. Of(p)' # "none"
    BY <1>2, <2>1, <2>2, OneTask
  <2> QED
    BY <2>3, <2>4, <2>5 DEF Needs, Sources
<1>6. CASE Pause \/ Resume \/ CancelRun \/ Finish \/ Over \/ UNCHANGED vars
  BY <1>1, <1>6 DEF Pause, Resume, CancelRun, Finish, Over, vars, taskVars, Of
<1> QED
  BY <1>3, <1>4, <1>5, <1>6 DEF Next

(* An operation a step does not concern keeps its order.                   *)
LEMMA OrderSame ==
  ASSUME Copies = 1, ShapeOK, [Next]_vars, NEW p \in Ops, Order(p),
         Of(p)' = Of(p), need'[<<p, 1>>] = need[<<p, 1>>],
         p \in done' <=> p \in done, p \in started' <=> p \in started
  PROVE  Order(p)'
<1>1. /\ done \subseteq done'
      /\ \A h \in Ops : Settled(h) => Settled(h)'
  BY SettledStays
<1>2. CASE Of(p) = "none"
  BY <1>1, <1>2 DEF Order
<1>3. CASE Of(p) # "none"
  <2>1. Needs(p)' = Needs(p) /\ Needs(p) \subseteq Ops
    BY <1>3, NeedsStay, NeedsType DEF ShapeOK, TypeOK
  <2> QED
    BY <1>1, <2>1 DEF Order
<1> QED
  BY <1>2, <1>3

(* A task gets past the boundary and starts only with what it waited for.  *)
LEMMA TaskOrder ==
  ASSUME Copies = 1, ShapeOK, LedgerInv, Live, [Next]_vars, NEW t \in Task, Order(OpOf(t)),
         OrderInv, TaskStep(t) \/ Timeout(t) \/ Crash(t) \/ Abandon(t)
  PROVE  Order(OpOf(t))'
<1> DEFINE p == OpOf(t)
<1>0. p \in Ops /\ t = <<p, 1>> /\ Of(p) = pc[t]
  BY OneTask DEF Of
<1>1. /\ done \subseteq done'
      /\ \A h \in Ops : Settled(h) => Settled(h)'
  BY SettledStays
<1>2. Ledger(p)
  BY <1>0 DEF LedgerInv, Live
<1>3. ASSUME Of(p) # "none"
      PROVE  Needs(p)' = Needs(p) /\ Needs(p) \subseteq Ops
  BY <1>0, <1>3, NeedsStay, NeedsType DEF ShapeOK, TypeOK
<1>4. ASSUME NEW place, Goto(t, place)
      PROVE  Of(p)' = place
  BY <1>0, <1>4 DEF Goto, Of, ShapeOK, TypeOK
<1>5. ASSUME Of(p) # "none", Of(p)' \in {"ready", "never", "edges", "invoke", "tail", "ended"},
             started' = started, p \in done' => p \in done \/ Settled(p)'
      PROVE  Order(p)'
  BY <1>0, <1>1, <1>3, <1>5 DEF Order
<1>6. ASSUME NEW S, need' = [need EXCEPT ![t] = S]
      PROVE  need'[<<p, 1>>] = S
  BY <1>0, <1>6 DEF ShapeOK, TypeOK
<1>7. CASE Create(t) \/ End(t) \/ Crash(t)
  BY <1>0, <1>4, <1>5, <1>7 DEF Create, End, Crash, watchVars, outcomeVars
<1>8. CASE Begin(t)
  <2>1. UNCHANGED <<done, started>> /\ Of(p) = "ready"
    BY <1>0, <1>8 DEF Begin, watchVars, outcomeVars
  <2>2. CASE Predecessors(p) = {}
    <3>1. Of(p)' = "deps" /\ need'[<<p, 1>>] = Needs(p)
      BY <1>4, <1>6, <1>8, <2>2 DEF Begin
    <3> QED
      BY <1>0, <1>1, <1>3, <2>1, <3>1 DEF Order
  <2>3. CASE Predecessors(p) # {}
    <3>1. Of(p)' = "edges"
      BY <1>4, <1>8, <2>3 DEF Begin
    <3> QED
      BY <1>5, <2>1, <3>1
  <2> QED
    BY <2>2, <2>3
<1>9. ASSUME NEW h \in todo[t], CheckEdge(t, h)
      PROVE  Order(p)'
  <2>1. Of(p) = "edges" /\ started' = started
    BY <1>0, <1>9 DEF CheckEdge
  <2>2. CASE UNCHANGED <<pc, need, done>>
    BY <1>0, <1>5, <2>1, <2>2 DEF Of
  <2>3. CASE Proceed(t)
    <3>1. Of(p)' = "deps" /\ need'[<<p, 1>>] = Needs(p) /\ done' = done
      BY <1>4, <1>6, <2>3 DEF Proceed
    <3> QED
      BY <1>0, <1>1, <1>3, <2>1, <3>1 DEF Order
  <2>4. CASE Skip(t)
    <3>1. Of(p)' = "tail" /\ Settled(p)'
      BY <1>0, <1>4, <2>4 DEF Skip, Settled, ShapeOK, TypeOK, Terminal
    <3> QED
      BY <1>5, <2>1, <3>1
  <2> QED
    BY <1>9, <2>2, <2>3, <2>4 DEF CheckEdge
<1>10. CASE DepsMet(t) \/ GateOpens(t)
  <2>1. /\ Of(p) \in {"deps", "gate"} /\ UNCHANGED <<done, started, need>>
        /\ Of(p) = "deps" => need[t] \subseteq done
    BY <1>0, <1>10 DEF DepsMet, GateOpens, watchVars, outcomeVars
  <2>2. Of(p)' \in {"limiter", "gate"}
    BY <1>4, <1>10 DEF DepsMet, GateOpens, AtBoundary
  <2>3. need[<<p, 1>>] = Needs(p) /\ Needs(p) \subseteq done
    BY <1>0, <2>1 DEF Order
  <2> QED
    BY <1>0, <1>1, <1>3, <2>1, <2>2, <2>3 DEF Order
<1>11. CASE Start(t)
  <2>1. Of(p) = "limiter" /\ status[p] = Pending
    BY <1>0, <1>2, <1>11 DEF Start, Ledger, Waits
  <2>2. Of(p)' = "invoke" /\ done' = done
    BY <1>4, <1>11, <2>1 DEF Start
  <2>3. \A h \in Needs(p) : Settled(h)'
    BY <1>0, <1>1, <1>3, <2>1 DEF Order, OrderInv
  <2> QED
    BY <1>0, <1>1, <1>3, <2>1, <2>2, <2>3 DEF Order
<1>12. CASE Restored(t)
  <2>1. started' = started /\ Of(p)' = "tail" /\ Of(p) # "none"
    BY <1>0, <1>4, <1>12 DEF Restored
  <2>2. Settled(p)'
    BY <1>12 DEF Restored, Settled
  <2> QED
    BY <1>5, <2>1, <2>2
<1>15. ASSUME NEW begun \in BOOLEAN, Fault(t, begun)
       PROVE  Order(p)'
  <2>1. Of(p)' = "tail" /\ Of(p) # "none" /\ Settled(p)'
    BY <1>0, <1>4, <1>15 DEF Fault, Settled
  <2>2. CASE begun
    <3>1. Of(p) = "limiter"
      BY <1>0, <1>15, <2>2 DEF Fault
    <3>2. \A h \in Needs(p) : Settled(h)'
      BY <1>0, <1>1, <1>3, <3>1 DEF Order, OrderInv
    <3> QED
      BY <1>0, <1>3, <2>1, <3>1, <3>2 DEF Order
  <2>3. CASE ~begun
    BY <1>5, <1>15, <2>1, <2>3 DEF Fault
  <2> QED
    BY <2>2, <2>3
<1>13. ASSUME NEW out \in Outcomes, NEW verdict \in {"reject", "none"}, Return(t, out, verdict)
       PROVE  Order(p)'
  <2>1. started' = started /\ Of(p)' = "tail" /\ Of(p) # "none"
    BY <1>0, <1>4, <1>13 DEF Return
  <2>2. Settled(p)'
    <3> DEFINE word == IF out = "completed" THEN "completed" ELSE "failed"
    <3>1. status' = [status EXCEPT ![p] = word]
      BY <1>13 DEF Return
    <3> QED
      BY <1>0, <3>1 DEF Settled, ShapeOK, TypeOK, Terminal
  <2> QED
    BY <1>5, <2>1, <2>2
<1>14. CASE ReturnCancelled(t) \/ Timeout(t) \/ Abandon(t)
  <2>1. started' = started /\ Of(p)' \in {"never", "ended"} /\ Of(p) # "none"
    BY <1>0, <1>4, <1>14 DEF ReturnCancelled, Timeout, Abandon, Idle
  <2>2. done' = done \/ Cancelled(t)
    BY <1>14 DEF ReturnCancelled, Timeout, Abandon, outcomeVars
  <2>3. Cancelled(t) => Settled(p)'
    BY <1>0 DEF Cancelled, Settled, ShapeOK, TypeOK, Terminal
  <2> QED
    BY <1>5, <2>1, <2>2, <2>3
<1> QED
  BY <1>7, <1>8, <1>9, <1>10, <1>11, <1>12, <1>13, <1>14, <1>15 DEF TaskStep

(* Every step keeps every operation in order.                              *)
LEMMA NextOrder ==
  ASSUME Copies = 1, ShapeOK, LedgerInv, OrderInv, [Next]_vars
  PROVE  OrderInv'
<1> SUFFICES ASSUME NEW p \in Ops
             PROVE  Order(p)'
  BY DEF OrderInv
<1>0. <<p, 1>> \in Task /\ Order(p)
  BY OneTask DEF OrderInv
<1>1. ASSUME UNCHANGED <<pc, need, done, started>>
      PROVE  Order(p)'
  BY <1>0, <1>1, OrderSame DEF Of
<1>2. CASE ~Live
  BY <1>1, <1>2, Halted DEF vars, taskVars, outcomeVars, watchVars
<1>3. ASSUME Live, NEW t \in Task, TaskStep(t) \/ Timeout(t) \/ Crash(t) \/ Abandon(t)
      PROVE  Order(p)'
  <2>1. CASE p = OpOf(t)
    BY <1>0, <1>3, <2>1, TaskOrder
  <2>2. CASE p # OpOf(t)
    <3>1. Same(p)
      BY <1>3, <2>2, OthersSame
    <3>2. t # <<p, 1>>
      BY <2>2, OneTask DEF OpOf
    <3>3. need' = need \/ \E S : need' = [need EXCEPT ![t] = S]
      BY <1>3 DEF TaskStep, Create, Restored, Begin, CheckEdge, Proceed, Skip, DepsMet, GateOpens,
                  Start, Return, ReturnCancelled, Fault, Timeout, End, Crash, Abandon
    <3>4. need'[<<p, 1>>] = need[<<p, 1>>]
      BY <1>0, <3>2, <3>3 DEF ShapeOK, TypeOK
    <3> QED
      BY <1>0, <3>1, <3>4, OrderSame DEF Same, Of
  <2> QED
    BY <2>1, <2>2
<1>4. ASSUME NEW c \in Ops, NEW emitter \in Ops \cup {NoOp}, Inject(c, emitter)
      PROVE  Order(p)'
  <2>1. /\ UNCHANGED <<need, done, started>>
        /\ pc[<<c, 1>>] = "none" /\ Goto(<<c, 1>>, "ready")
    BY <1>4 DEF Inject, outcomeVars
  <2>2. CASE p = c
    <3>1. Of(p) = "none" /\ Of(p)' = "ready"
      BY <1>0, <2>1, <2>2 DEF Of, Goto, ShapeOK, TypeOK
    <3> QED
      BY <1>0, <2>1, <3>1, SettledStays DEF Order
  <2>3. CASE p # c
    <3>1. Of(p)' = Of(p)
      BY <1>0, <2>1, <2>3 DEF Of, Goto, ShapeOK, TypeOK
    <3> QED
      BY <1>0, <2>1, <3>1, OrderSame
  <2> QED
    BY <2>2, <2>3
<1>5. CASE \/ \E t \in Task, c \in Ops : Escalate(t, c)
           \/ Pause \/ Resume \/ CancelRun \/ Finish \/ UNCHANGED vars
  BY <1>1, <1>5 DEF Escalate, Pause, Resume, CancelRun, Finish, vars, taskVars, outcomeVars, watchVars
<1> QED
  BY <1>2, <1>3, <1>4, <1>5 DEF Next, Over

(* An operation runs only once everything it depends on, predecessors and  *)
(* aggregation sources, is settled, however the graph grew meanwhile       *)
(* (_wait_for_dependencies, _accept_node).                                 *)
THEOREM DependenciesComeFirst ==
  ASSUME Copies = 1
  PROVE  Spec => []StartsAfterDependencies
<1>1. Init => OrderInv
  <2> SUFFICES ASSUME Init, NEW o \in Ops
               PROVE  Order(o)
    BY DEF OrderInv
  <2>1. Of(o) \in {"none", "due", "ready"}
    BY OneTask DEF Init, Of
  <2> QED
    BY <2>1 DEF Init, Order, Settled, Terminal
<1>2. ShapeOK /\ LedgerInv /\ OrderInv /\ [Next]_vars => OrderInv'
  BY NextOrder
<1>3. ShapeOK /\ OrderInv => StartsAfterDependencies
  BY DEF ShapeOK, TypeOK, OrderInv, Order, Needs, StartsAfterDependencies
<1> QED
  BY <1>1, <1>2, <1>3, AlwaysShape, AlwaysLedger, PTL DEF Spec

-----------------------------------------------------------------------------
(* Gates.                                                                  *)

(* What a veto needs to reach everything downstream: no condition raises,  *)
(* no task that times out is survived by the run, no gate was restored     *)
(* with a REJECT (each breaks the contract), and what the checkpoint       *)
(* restores has its predecessors restored, as a checkpoint of this         *)
(* executor has.                                                           *)
Innocent ==
  /\ "fault" \notin flow.may
  /\ "timeout" \in flow.may => "error" \notin flow.takes
  /\ flow.saidNo = {}
  /\ \A e \in flow.edges : flow.was[e[1]] = Pending => flow.was[e[2]] = Pending

\* Not downstream of a no: it ran, or found no path, or was restored.
Clean(o) == o \in started \/ o \in skipped \ vetoed \/ flow.was[o] \in Terminal

\* And it will never say no: the edges it heads stay open to the veto.
Fine(h) ==
  /\ Clean(h) /\ h \notin vetoed /\ h \notin rejected
  /\ h \in done \/ flow.was[h] \in Terminal

(* Who gets past its edges without a veto has heads that are fine, and who *)
(* is answered in a run that goes on is clean or vetoed.                   *)
Upright(o) ==
  /\ flow.was[o] \in Terminal => Of(o) # "none"
  /\ Of(o) = "invoke" => o \in started
  /\ run = "running" /\ o \in done => Clean(o) \/ o \in vetoed
  /\ Of(o) = "edges" /\ ~veto[<<o, 1>>] => \A h \in Predecessors(o) \ todo[<<o, 1>>] : Fine(h)
  /\ Of(o) \in {"deps", "gate", "limiter"} => \A h \in Predecessors(o) : Fine(h)
  /\ Clean(o) => \A h \in Predecessors(o) : Fine(h)

UprightInv == Innocent => \A o \in Ops : Upright(o)

(* Only a task at its edges is skipped or vetoed, and only one that runs   *)
(* rejects.                                                                *)
LEMMA WhoIsVetoed ==
  ASSUME Copies = 1, ShapeOK, [Next]_vars
  PROVE  /\ flow' = flow /\ started \subseteq started' /\ skipped \subseteq skipped'
         /\ vetoed \subseteq vetoed'
         /\ \A p \in Ops : p \in vetoed' => p \in vetoed \/ Of(p) = "edges"
         /\ \A p \in Ops : p \in rejected' => p \in rejected \/ Of(p) = "invoke"
         /\ run' = "running" => run = "running"
<1> DEFINE Claim == /\ flow' = flow /\ started \subseteq started' /\ skipped \subseteq skipped'
                    /\ vetoed \subseteq vetoed'
                    /\ \A p \in Ops : p \in vetoed' => p \in vetoed \/ Of(p) = "edges"
                    /\ \A p \in Ops : p \in rejected' => p \in rejected \/ Of(p) = "invoke"
                    /\ run' = "running" => run = "running"
<1>1. ASSUME UNCHANGED <<flow, vetoed, rejected>>, started \subseteq started', skipped' = skipped,
             run' = run \/ run = "running" \/ run' # "running"
      PROVE  Claim
  BY <1>1
<1>2. ASSUME NEW t \in Task, NEW h \in todo[t], CheckEdge(t, h)
      PROVE  Claim
  <2>1. OpOf(t) \in Ops /\ Of(OpOf(t)) = "edges"
    BY <1>2, OneTask DEF CheckEdge, Of
  <2>2. UNCHANGED <<flow, rejected, started, run>>
    BY <1>2 DEF CheckEdge, graphVars
  <2>3. UNCHANGED <<skipped, vetoed>> \/ Skip(t)
    BY <1>2 DEF CheckEdge, Proceed
  <2> QED
    BY <2>1, <2>2, <2>3 DEF Skip
<1>3. ASSUME NEW t \in Task, NEW out, NEW verdict, Return(t, out, verdict)
      PROVE  Claim
  <2>1. OpOf(t) \in Ops /\ Of(OpOf(t)) = "invoke"
    BY <1>3, OneTask DEF Return, Of
  <2>2. /\ UNCHANGED <<flow, skipped, vetoed, started, run>>
        /\ rejected' = rejected \/ rejected' = rejected \cup {OpOf(t)}
    BY <1>3 DEF Return, graphVars
  <2> QED
    BY <2>1, <2>2
<1> HIDE DEF Claim
<1>4. ASSUME NEW t \in Task, TaskStep(t)
      PROVE  Claim
  <2>1. CASE Create(t) \/ Restored(t) \/ Begin(t) \/ DepsMet(t) \/ GateOpens(t) \/ Start(t)
    BY <1>1, <2>1 DEF Create, Restored, Begin, DepsMet, GateOpens, Start, graphVars, outcomeVars,
                      watchVars
  <2>2. CASE ReturnCancelled(t) \/ (\E begun \in BOOLEAN : Fault(t, begun)) \/ End(t)
    BY <1>1, <2>2 DEF ReturnCancelled, Cancelled, Fault, End, graphVars, outcomeVars, watchVars
  <2> QED
    BY <1>2, <1>3, <1>4, <2>1, <2>2 DEF TaskStep
<1>5. ASSUME NEW t \in Task, Timeout(t) \/ Crash(t) \/ Abandon(t)
      PROVE  Claim
  BY <1>1, <1>5 DEF Timeout, Crash, Abandon, Cancelled, graphVars, outcomeVars, watchVars
<1>6. ASSUME \/ \E t \in Task, c \in Ops : Escalate(t, c)
             \/ \E c \in Ops, emitter \in Ops \cup {NoOp} : Inject(c, emitter)
      PROVE  Claim
  BY <1>1, <1>6 DEF Escalate, Inject, Accept, outcomeVars
<1>7. CASE Pause \/ Resume \/ CancelRun \/ Finish \/ Over \/ UNCHANGED vars
  BY <1>1, <1>7 DEF Pause, Resume, CancelRun, Finish, Over, vars, graphVars, outcomeVars, watchVars,
                    Live
<1> QED
  BY <1>4, <1>5, <1>6, <1>7 DEF Next, Claim

(* Clean stays clean, and fine stays fine: an operation that is done, or   *)
(* restored, is past its edges and past its verdict.                       *)
LEMMA FineStays ==
  ASSUME Copies = 1, ShapeOK, LedgerInv, Live, [Next]_vars, NEW h \in Ops
  PROVE  /\ Clean(h) => Clean(h)'
         /\ Fine(h) => Fine(h)'
<1>1. Ledger(h)
  BY DEF LedgerInv, Live
<1>2. Clean(h) => Of(h) # "edges"
  BY <1>1 DEF Clean, Ledger, Waits, Untouched, Terminal, Pending
<1>3. Fine(h) => Of(h) # "invoke"
  BY <1>1 DEF Fine, Ledger, Untouched, Terminal, Pending
<1> QED
  BY <1>2, <1>3, WhoIsVetoed, SettledStays DEF Clean, Fine

(* What a step leaves of an operation it is not about.                     *)
LEMMA UprightSame ==
  ASSUME Copies = 1, ShapeOK, LedgerInv, Live, [Next]_vars, NEW p \in Ops, Upright(p),
         Of(p) # "none", Of(p)' = Of(p),
         todo'[<<p, 1>>] = todo[<<p, 1>>], veto'[<<p, 1>>] = veto[<<p, 1>>],
         p \in done' => p \in done, Clean(p)' => Clean(p)
  PROVE  Upright(p)'
<1>1. Predecessors(p)' = Predecessors(p) /\ Predecessors(p) \subseteq Ops
  BY NeedsStay, NeedsType DEF ShapeOK, TypeOK
<1>2. \A h \in Ops : (Clean(h) => Clean(h)') /\ (Fine(h) => Fine(h)')
  BY FineStays
<1>3. /\ flow' = flow /\ started \subseteq started' /\ vetoed \subseteq vetoed'
      /\ run' = "running" => run = "running"
  BY WhoIsVetoed
<1>4. run' = "running" /\ p \in done' => Clean(p)' \/ p \in vetoed'
  BY <1>2, <1>3 DEF Upright
<1> QED
  BY <1>1, <1>2, <1>3, <1>4 DEF Upright

(* A task gets past its edges with heads that are fine, or ends.           *)
LEMMA TaskUpright ==
  ASSUME Copies = 1, ShapeOK, LedgerInv, Live, [Next]_vars, Innocent, NEW t \in Task,
         Upright(OpOf(t)), TaskStep(t) \/ Timeout(t) \/ Crash(t) \/ Abandon(t), UprightInv
  PROVE  Upright(OpOf(t))'
<1> DEFINE p == OpOf(t)
<1>0. p \in Ops /\ t = <<p, 1>> /\ Of(p) = pc[t]
  BY OneTask DEF Of
<1>1. Of(p) # "none"
  BY <1>0 DEF TaskStep, Create, Restored, Begin, CheckEdge, DepsMet, GateOpens, Start, Return,
              ReturnCancelled, Fault, Timeout, End, Crash, Abandon, Idle
<1>2. Predecessors(p)' = Predecessors(p) /\ Predecessors(p) \subseteq Ops /\ Of(p)' # "none"
  BY <1>0, <1>1, NeedsStay, NeedsType DEF ShapeOK, TypeOK
<1>3. \A h \in Ops : (Clean(h) => Clean(h)') /\ (Fine(h) => Fine(h)')
  BY FineStays
<1>4. /\ flow' = flow /\ started \subseteq started' /\ vetoed \subseteq vetoed'
      /\ run' = "running" => run = "running"
  BY WhoIsVetoed
<1>5. Ledger(p)
  BY <1>0 DEF LedgerInv, Live
<1>6. ASSUME NEW place, Goto(t, place)
      PROVE  Of(p)' = place
  BY <1>0, <1>6 DEF Goto, Of, ShapeOK, TypeOK
<1>7. ASSUME Of(p)' \notin {"edges", "deps", "gate", "limiter"},
             Of(p)' = "invoke" => p \in started',
             run' = "running" /\ p \in done' => Clean(p)' \/ p \in vetoed',
             Clean(p)' => \A h \in Predecessors(p) : Fine(h)
      PROVE  Upright(p)'
  BY <1>0, <1>2, <1>3, <1>4, <1>7 DEF Upright
<1>8. CASE Create(t) \/ End(t) \/ Crash(t)
  <2>1. Of(p)' \in {"ready", "ended"} /\ UNCHANGED <<flow, outcomeVars, started>>
    BY <1>6, <1>8 DEF Create, End, Crash, graphVars, watchVars
  <2>2. Clean(p)' <=> Clean(p)
    BY <2>1 DEF Clean, outcomeVars
  <2> QED
    BY <1>0, <1>4, <1>7, <2>1, <2>2 DEF Upright, outcomeVars
<1>9. CASE Begin(t)
  <2>1. Of(p) = "ready" /\ UNCHANGED <<flow, outcomeVars, started, veto, run>>
    BY <1>0, <1>9 DEF Begin, graphVars, watchVars
  <2>2. Clean(p)' <=> Clean(p)
    BY <2>1 DEF Clean, outcomeVars
  <2>3. todo'[t] = Predecessors(p)
    BY <1>9 DEF Begin, ShapeOK, TypeOK
  <2>4. \/ Of(p)' = "deps" /\ Predecessors(p) = {}
        \/ Of(p)' = "edges"
    BY <1>6, <1>9 DEF Begin
  <2> QED
    BY <1>0, <1>2, <1>3, <2>1, <2>2, <2>3, <2>4 DEF Upright, outcomeVars
<1>10. ASSUME NEW h \in todo[t], CheckEdge(t, h)
       PROVE  Upright(p)'
  <2>1. /\ Of(p) = "edges" /\ h \in done /\ run = "running"
        /\ UNCHANGED <<flow, rejected, started, run>>
    BY <1>0, <1>10 DEF CheckEdge, graphVars, Going
  <2>2. todo'[t] = todo[t] \ {h} /\ veto'[t] = (veto[t] \/ Vetoes(h))
    BY <1>10 DEF CheckEdge, ShapeOK, TypeOK
  <2>3. h \in Ops /\ (~Vetoes(h) => Fine(h))
    BY <2>1 DEF ShapeOK, TypeOK, UprightInv, Upright, Vetoes, Fine
  <2>4. ~veto'[t] => \A g \in Predecessors(p) \ todo'[t] : Fine(g)
    BY <1>0, <2>1, <2>2, <2>3 DEF Upright
  <2>5. p \notin started /\ flow.was[p] = Pending /\ p \notin skipped
    BY <1>5, <2>1 DEF Ledger, Waits, Untouched
  <2>6. ~Clean(p) /\ p \notin done
    BY <1>5, <2>1, <2>5 DEF Clean, Ledger, Waits, Untouched, Terminal, Pending
  <2>7. CASE UNCHANGED <<pc, skipped, vetoed, done>>
    <3>1. Of(p)' = "edges" /\ ~Clean(p)'
      BY <2>1, <2>6, <2>7 DEF Clean, Of
    <3> QED
      BY <1>0, <1>2, <1>3, <2>4, <2>5, <2>6, <2>7, <3>1 DEF Upright, Terminal, Pending
  <2>8. CASE todo'[t] = {} /\ Passes(t) /\ Proceed(t)
    <3>1. Of(p)' = "deps" /\ ~Clean(p)' /\ p \notin done'
      BY <1>6, <2>1, <2>6, <2>8 DEF Clean, Proceed
    <3>2. \A g \in Predecessors(p) : Fine(g)
      BY <2>4, <2>8 DEF Passes
    <3> QED
      BY <1>2, <1>3, <3>1, <3>2 DEF Upright
  <2>9. CASE todo'[t] = {} /\ Skip(t)
    <3>1. Of(p)' = "tail" /\ p \in skipped' /\ (p \in vetoed' <=> p \in vetoed \/ veto'[t])
      BY <1>6, <2>9 DEF Skip
    <3>2. Clean(p)' => \A g \in Predecessors(p) : Fine(g)
      BY <2>1, <2>4, <2>5, <2>9, <3>1 DEF Clean, Terminal, Pending
    <3> QED
      BY <1>7, <3>1, <3>2 DEF Clean
  <2> QED
    BY <1>10, <2>7, <2>8, <2>9 DEF CheckEdge
<1>11. CASE DepsMet(t) \/ GateOpens(t)
  <2>1. Of(p) \in {"deps", "gate"} /\ UNCHANGED <<flow, outcomeVars, started, run>>
    BY <1>0, <1>11 DEF DepsMet, GateOpens, graphVars, watchVars
  <2>2. Clean(p)' <=> Clean(p)
    BY <2>1 DEF Clean, outcomeVars
  <2>3. Of(p)' \in {"gate", "limiter"}
    BY <1>6, <1>11 DEF DepsMet, GateOpens, AtBoundary
  <2> QED
    BY <1>2, <1>3, <2>1, <2>2, <2>3 DEF Upright, outcomeVars
<1>12. CASE Start(t)
  <2>1. Of(p) = "limiter" /\ p \in started' /\ status[p] = Pending
    BY <1>0, <1>5, <1>12 DEF Start, Ledger, Waits
  <2>2. Of(p)' = "invoke"
    BY <1>6, <1>12, <2>1 DEF Start
  <2>3. \A h \in Predecessors(p) : Fine(h)
    BY <2>1 DEF Upright
  <2> QED
    BY <1>7, <2>1, <2>2, <2>3 DEF Clean
<1>13. CASE Restored(t)
  <2>1. flow.was[p] \in Terminal /\ Of(p)' = "tail"
    BY <1>0, <1>5, <1>6, <1>13 DEF Restored, Ledger, Early
  <2>2. Clean(p)
    BY <2>1 DEF Clean
  <2> QED
    BY <1>0, <1>3, <1>7, <2>1, <2>2 DEF Upright
<1>14. CASE \/ \E out \in Outcomes, verdict \in {"reject", "none"} : Return(t, out, verdict)
            \/ ReturnCancelled(t)
  <2>1. Of(p) = "invoke" /\ Of(p)' \in {"tail", "ended"}
    BY <1>0, <1>6, <1>14 DEF Return, ReturnCancelled
  <2>2. Clean(p)
    BY <2>1 DEF Upright, Clean
  <2> QED
    BY <1>0, <1>3, <1>7, <2>1, <2>2 DEF Upright
<1>15. CASE Timeout(t) \/ Abandon(t)
  <2>1. /\ Of(p)' \in {"never", "ended"} /\ run' # "running"
        /\ UNCHANGED <<flow, skipped, vetoed, started>>
    BY <1>6, <1>15 DEF Timeout, Abandon, Cancelled, Going, Innocent, outcomeVars, graphVars
  <2>2. Clean(p)' <=> Clean(p)
    BY <2>1 DEF Clean
  <2> QED
    BY <1>7, <2>1, <2>2 DEF Upright
<1> QED
  BY <1>8, <1>9, <1>10, <1>11, <1>12, <1>13, <1>14, <1>15 DEF TaskStep, Fault, Innocent

(* Every step keeps every operation upright.                               *)
LEMMA NextUpright ==
  ASSUME Copies = 1, ShapeOK, LedgerInv, UprightInv, [Next]_vars
  PROVE  UprightInv'
<1> SUFFICES ASSUME Innocent', NEW p \in Ops
             PROVE  Upright(p)'
  BY DEF UprightInv
<1>0. <<p, 1>> \in Task /\ Innocent /\ Upright(p)
  BY OneTask, WhoIsVetoed DEF UprightInv, Innocent
<1>1. CASE ~Live
  <2>1. UNCHANGED vars
    BY <1>1, Halted
  <2> QED
    BY <1>0, <2>1 DEF vars, graphVars, outcomeVars, watchVars, taskVars, Upright, Of, Clean, Fine,
                      Predecessors
<1>2. ASSUME Live, Of(p) = "none", Of(p)' = Of(p), p \in done' <=> p \in done,
             p \in started' <=> p \in started, p \in skipped' <=> p \in skipped
      PROVE  Upright(p)'
  <2>1. /\ Untouched(p) /\ p \notin started /\ flow.was[p] \notin Terminal
    BY <1>0, <1>2 DEF LedgerInv, Live, Ledger, Early, Upright
  <2>2. p \notin done'
    BY <1>2, <2>1 DEF Untouched, Terminal
  <2>3. ~Clean(p)'
    BY <1>2, <2>1, WhoIsVetoed DEF Clean, Untouched
  <2> QED
    BY <1>2, <2>1, <2>2, <2>3, WhoIsVetoed DEF Upright
<1>3. CASE Live /\ UNCHANGED <<flow, outcomeVars, started, pc, todo, veto>>
  <2>1. Clean(p)' <=> Clean(p)
    BY <1>3 DEF Clean, outcomeVars
  <2> QED
    BY <1>0, <1>2, <1>3, <2>1, UprightSame DEF outcomeVars, Of
<1>4. ASSUME Live, NEW t \in Task, TaskStep(t) \/ Timeout(t) \/ Crash(t) \/ Abandon(t)
      PROVE  Upright(p)'
  <2>1. CASE p = OpOf(t)
    BY <1>0, <1>4, <2>1, TaskUpright
  <2>2. CASE p # OpOf(t)
    <3>1. Same(p) /\ flow' = flow /\ t # <<p, 1>>
      BY <1>4, <2>2, OthersSame, OneTask
    <3>2. /\ todo' = todo \/ \E S : todo' = [todo EXCEPT ![t] = S]
          /\ veto' = veto \/ \E b : veto' = [veto EXCEPT ![t] = b]
      BY <1>4 DEF TaskStep, Create, Restored, Begin, CheckEdge, DepsMet, GateOpens, Start, Return,
                  ReturnCancelled, Fault, Timeout, End, Crash, Abandon
    <3>3. todo'[<<p, 1>>] = todo[<<p, 1>>] /\ veto'[<<p, 1>>] = veto[<<p, 1>>]
      BY <1>0, <3>1, <3>2 DEF ShapeOK, TypeOK
    <3>4. Clean(p)' => Clean(p)
      BY <3>1, WhoIsVetoed DEF Clean, Same
    <3> QED
      BY <1>0, <1>2, <1>4, <3>1, <3>3, <3>4, UprightSame DEF Same, Of
  <2> QED
    BY <2>1, <2>2
<1>5. ASSUME Live, NEW c \in Ops, NEW emitter \in Ops \cup {NoOp}, Inject(c, emitter)
      PROVE  Upright(p)'
  <2>1. /\ UNCHANGED <<flow, outcomeVars, started, todo, veto, run>>
        /\ pc[<<c, 1>>] = "none" /\ Goto(<<c, 1>>, "ready")
    BY <1>5 DEF Inject, Accept
  <2>2. CASE p = c
    <3>1. Of(p) = "none" /\ Of(p)' = "ready"
      BY <1>0, <2>1, <2>2 DEF Of, Goto, ShapeOK, TypeOK
    <3>2. Untouched(p) /\ p \notin started /\ flow.was[p] \notin Terminal
      BY <1>0, <1>5, <3>1 DEF LedgerInv, Live, Ledger, Early, Upright
    <3> QED
      BY <2>1, <3>1, <3>2 DEF Upright, Clean, Untouched, outcomeVars, Terminal
  <2>3. CASE p # c
    <3>1. Of(p)' = Of(p)
      BY <1>0, <2>1, <2>3 DEF Of, Goto, ShapeOK, TypeOK
    <3>2. Clean(p)' <=> Clean(p)
      BY <2>1 DEF Clean, outcomeVars
    <3> QED
      BY <1>0, <1>2, <1>5, <2>1, <3>1, <3>2, UprightSame DEF outcomeVars
  <2> QED
    BY <2>2, <2>3
<1>6. CASE Live /\ \/ \E t \in Task, c \in Ops : Escalate(t, c)
                   \/ Pause \/ Resume \/ CancelRun \/ Finish \/ UNCHANGED vars
  BY <1>3, <1>6 DEF Escalate, Accept, Pause, Resume, CancelRun, Finish, vars, graphVars, taskVars,
                    outcomeVars, watchVars
<1> QED
  BY <1>1, <1>4, <1>5, <1>6 DEF Next, Over

(* Nothing downstream of a gate that said no ever starts, whatever other   *)
(* paths lead to it and however the graph grows, when no condition raises  *)
(* and the checkpoint restores no REJECT and nothing ahead of its          *)
(* predecessors (_check_edge_conditions, _gate_rejections).                *)
THEOREM AVetoIsAbsolute ==
  ASSUME Copies = 1
  PROVE  Spec => [](Innocent => GateVetoes)
<1>1. ShapeOK /\ Init => UprightInv
  <2> SUFFICES ASSUME ShapeOK, Init, Innocent, NEW o \in Ops
               PROVE  Upright(o)
    BY DEF UprightInv
  <2>1. <<o, 1>> \in Task /\ OpOf(<<o, 1>>) = o
    BY OneTask
  <2>2. Of(o) \in {"none", "due", "ready"} /\ (o \in nodes => Of(o) # "none")
    BY <2>1 DEF Init, Of
  <2>3. flow.was[o] \in Terminal => o \in nodes
    BY FlowFacts DEF ShapeOK, Init, Terminal, Pending
  <2>4. o \in done => Clean(o)
    BY DEF Init, Clean, Terminal
  <2>5. ASSUME Clean(o), NEW h \in Predecessors(o)
        PROVE  Fine(h)
    <3>1. flow.was[o] # Pending /\ <<h, o>> \in flow.edges
      BY <2>5 DEF Init, Clean, Predecessors, Terminal, Pending
    <3>2. h \in Ops /\ flow.was[h] # Pending
      BY <2>5, <3>1 DEF Innocent, Predecessors, ShapeOK, TypeOK
    <3>3. flow.was[h] \in Terminal
      BY <3>2, FlowFacts DEF ShapeOK
    <3> QED
      BY <3>3 DEF Init, Fine, Clean
  <2> QED
    BY <2>2, <2>3, <2>4, <2>5 DEF Upright
<1>2. ShapeOK /\ LedgerInv /\ UprightInv /\ [Next]_vars => UprightInv'
  BY NextUpright
<1>3. ShapeOK /\ UprightInv => (Innocent => GateVetoes)
  <2> SUFFICES ASSUME ShapeOK, Innocent, \A o \in Ops : Upright(o)
               PROVE  GateVetoes
    BY DEF UprightInv
  <2> DEFINE S == {o \in nodes : ~Clean(o)}
  <2>1. S \in SUBSET (nodes \ started)
    BY DEF Clean
  <2>2. ASSUME NEW e \in edges, e[1] \in Rejecting \cup S
        PROVE  e[2] \in S
    <3>1. e[2] \in nodes /\ e[2] \in Ops /\ e[1] \in Predecessors(e[2])
      BY <2>2 DEF ShapeOK, TypeOK, Predecessors
    <3>2. Clean(e[2]) => Fine(e[1])
      BY <3>1 DEF Upright
    <3>3. ~Fine(e[1])
      BY <2>2 DEF Rejecting, Innocent, Fine
    <3> QED
      BY <3>1, <3>2, <3>3
  <2> QED
    BY <2>1, <2>2 DEF GateVetoes
<1> QED
  BY <1>1, <1>2, <1>3, InitShape, AlwaysShape, AlwaysLedger, PTL DEF Spec
===============================================================================
