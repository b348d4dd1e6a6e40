-------------------------- MODULE MCScheduleEngine --------------------------
(* ScheduleEngine on small schedules.                                      *)
EXTENDS ScheduleEngine

CONSTANTS d1, d2

Quiet ==
  [once |-> FALSE, skips |-> FALSE, recovers |-> FALSE, limit |-> 0, chains |-> FALSE,
   peers |-> 1, starts |-> 2, fires |-> 2, manual |-> 0, faults |-> 1]
Calm == [Quiet EXCEPT !.faults = 0]

\* A budget of one, and everything that may claim it.
Contended == [Quiet EXCEPT !.limit = 1, !.recovers = TRUE, !.manual = 1]
\* The same with nothing that fails, so that no claim is given back.
Budgeted == [Calm EXCEPT !.limit = 1, !.recovers = TRUE]
\* A chain under the same budget, through two faults.
Chained == [Quiet EXCEPT !.limit = 1, !.chains = TRUE, !.starts = 3, !.faults = 2]
\* A chain that could be longer than it may.
LongChain == [Calm EXCEPT !.chains = TRUE, !.fires = 3]
\* Missed instants and overlapping runs.
Missed == [Quiet EXCEPT !.recovers = TRUE, !.skips = TRUE]
Once == [Quiet EXCEPT !.once = TRUE, !.limit = 1, !.recovers = TRUE]
Manual == [Calm EXCEPT !.recovers = TRUE, !.limit = 2, !.manual = 1]
\* Two schedulers on one database.
Peers == [Calm EXCEPT !.peers = 2, !.skips = TRUE]

Watched == {Contended, Budgeted, Chained, LongChain, Missed, Once, Manual, Peers}

\* A run started by hand while the repair passes of the start are under way.
Starting == {[Calm EXCEPT !.chains = TRUE, !.fires = 3, !.manual = 1]}
=============================================================================
