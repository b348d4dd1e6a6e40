--------------------------- MODULE MCFlowExecutor ---------------------------
(* FlowExecutor on small graphs.                                           *)
EXTENDS FlowExecutor, TLC

CONSTANTS a, b, c, d

Graph(N, E) ==
  [nodes |-> N, edges |-> E, conditional |-> {}, gates |-> {},
   sources |-> [o \in Ops |-> {}], was |-> [o \in Ops |-> Pending], saidNo |-> {},
   reactive |-> FALSE, takes |-> {}, may |-> {}]
Reactive(F) == {[f EXCEPT !.reactive = TRUE] : f \in F}
Facing(M, F) == {[f EXCEPT !.may = M] : f \in F}
Taking(E, F) == {[f EXCEPT !.takes = E] : f \in F}

\* a -> b, c -> d: the gate b and a conditional edge on the way to d.
Diamond ==
  [Graph({a, b, c, d}, {<<a, b>>, <<a, c>>, <<b, d>>, <<c, d>>})
     EXCEPT !.conditional = {<<a, c>>, <<c, d>>}, !.gates = {b}]

\* A gate two steps above d, which has an unconditional root as well.
LongWay ==
  [Graph({a, b, c, d}, {<<a, b>>, <<b, d>>, <<c, d>>}) EXCEPT !.gates = {a}]

\* d aggregates a and b, and has an edge from b only.
Aggregation ==
  [Graph({a, b, d}, {<<b, d>>}) EXCEPT !.sources = [Graph({}, {}).sources EXCEPT ![d] = {a, b}]]

\* Resumed runs: a was completed, or failed; b waits for it and for c.
Resumed(st) ==
  [Graph({a, b, c, d}, {<<a, b>>, <<c, b>>, <<b, d>>})
     EXCEPT !.was = [o \in Ops |-> IF o = a THEN st ELSE Pending], !.gates = {c}]
Aborted == [Resumed("aborted") EXCEPT !.conditional = {<<a, b>>}]

\* Resumed after the gate a said no.
Refused == [Graph({a, b}, {<<a, b>>})
              EXCEPT !.was = [o \in Ops |-> IF o = a THEN "completed" ELSE Pending],
                     !.gates = {a}, !.saidNo = {a}]

Two == Graph({a, b}, {})
Three == Graph({a, b, c}, {})
Chain == Graph({a, b}, {<<a, b>>})
Choice == [Chain EXCEPT !.conditional = {<<a, b>>}]
Fork == Graph({a, b, c}, {<<a, b>>, <<a, c>>})
Gated == [Chain EXCEPT !.gates = {a}]

Fixed == {Diamond, LongWay, Aggregation, Aborted} \cup {Resumed(st) : st \in Words}

\* The ways a task group of the static executor ends: an operation's own
\* cancellation, a timeout, a callback that raises, and what survives them.
Hard == {Choice, [Chain EXCEPT !.was = [o \in Ops |-> IF o = a THEN "failed" ELSE Pending]]}
Ending ==
  Facing({"cancel", "quit", "timeout", "crash"}, Hard)
  \cup Facing({"quit", "timeout"}, Taking({"error"}, {Choice}) \cup Taking({"error", "cancelled"}, {Choice}))

\* Everything but a raising condition, and no escalation where all are answered.
Wild ==
  Fixed
  \cup Facing({"quit"}, {Diamond, LongWay, Gated, Fork})
  \cup Facing({"cancel", "crash", "escalate", "quit"}, Reactive(Fixed \cup {Gated, Choice}))
  \cup Facing({"cancel", "crash", "quit"}, {Chain, Fork} \cup Reactive({Two, Chain, Gated}))
  \cup Facing({"pause"}, {Fork, Three})
  \cup Ending

Steered ==
  Facing({"pause", "cancel", "fault"}, {Aggregation, Choice} \cup Reactive({Choice}))
  \cup Facing({"fault", "crash", "quit", "timeout"}, {Choice})
  \cup Facing({"quit", "timeout"}, Taking({"error"}, {Chain}) \cup Taking({"error", "cancelled"}, {Chain}))
Escalating == Facing({"escalate"}, Reactive({Two}))
ResumedGate == {Refused}
=============================================================================
