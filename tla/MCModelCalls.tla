---------------------------- MODULE MCModelCalls ----------------------------
(* Small instances of ModelCalls for TLC.                                  *)
EXTENDS ModelCalls, TLC
CONSTANTS c1, c2, c3, c4

Free == [c \in Callers |-> 0]

\* Four callers at the endpoint, none through the processor.
AtTheEndpoint ==
  [direct |-> Callers, routed |-> {}, again |-> TRUE, breaker |-> TRUE,
   limits |-> {}, requests |-> 0, tokens |-> 0, cost |-> Free,
   capacity |-> 1, slots |-> 1, cancels |-> 0, closes |-> 0]

Routed == [AtTheEndpoint EXCEPT !.direct = {}, !.routed = {c1, c2, c3}]
Unguarded == [Routed EXCEPT !.again = FALSE, !.breaker = FALSE]

\* Through the processor to the same breaker, two at a time.
Guarded == [Routed EXCEPT !.routed = {c1, c2}, !.capacity = 2, !.slots = 2]
\* No limits: a queue longer than the capacity, a cut cycle, a closed model.
Unlimited == [Unguarded EXCEPT !.cancels = 1, !.closes = 1]
Roomy == [Unlimited EXCEPT !.capacity = 2, !.slots = 2]
\* One request per interval.
ByRequests == [Roomy EXCEPT !.limits = {"requests"}, !.requests = 1, !.cancels = 0, !.closes = 0]
\* Requests and tokens, calls of different cost, one without.
ByBoth ==
  [Roomy EXCEPT !.limits = {"requests", "tokens"}, !.requests = 2, !.tokens = 2,
     !.cost = [c \in Callers |-> IF c = c1 THEN 2 ELSE IF c = c2 THEN 0 ELSE 1],
     !.closes = 0]
\* A call that costs more than the model ever has, in a model that may be closed.
Oversize == [ByBoth EXCEPT !.routed = {c1, c3}, !.tokens = 1, !.closes = 1]

Small == {AtTheEndpoint, Guarded, Unlimited, Roomy, ByRequests, ByBoth, Oversize}
=============================================================================
