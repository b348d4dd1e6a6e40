---------------------------- MODULE MCTaskWorker ----------------------------
(* TaskWorker on small instances: the applications each run submits.       *)
EXTENDS TaskWorker, TLC

CONSTANTS w1, w2, k1

App(k, d) == [key |-> k, dur |-> d, parks |-> FALSE, notify |-> FALSE,
              served |-> Workers, warm |-> {}]

\* One key, nothing parks.
SameKey == {App(k1, 0)}

\* Every way admit() can go: parked over the cap, over-long, warm, one-worker.
Varied == {App(k1, 0),
           [App(k1, 0) EXCEPT !.parks = TRUE, !.warm = {w1}],
           [App(NoKey, LeaseTTL) EXCEPT !.notify = TRUE],
           [App(k1, 0) EXCEPT !.served = {w1}]}
=============================================================================
