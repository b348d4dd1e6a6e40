------------------------------ MODULE Exchange ------------------------------
(***************************************************************************)
(* Mail between branches (lionagi/session/exchange.py): a mailbox per      *)
(* registered owner, with an outbox and one inbox per sender.              *)
(*                                                                         *)
(* Several collectors empty the outboxes on one event loop: the polling    *)
(* loop run(), the one collect_all() of who stopped it, and calls of a     *)
(* session.                                                                *)
(* collect() takes an outbox and notes its mail as in flight in one step,  *)
(* then lets one task per delivery write the inboxes.  Between the two the *)
(* team round check collects and looks synchronously, idle workers are     *)
(* drained, tools read, and owners come and go.                            *)
(***************************************************************************)
EXTENDS Enumeration

CONSTANTS
  Owners,     \* ids that may be registered
  All,        \* the recipient of a broadcast
  Collectors, \* the tasks that collect
  Loop,       \* the one of them that runs run()
  Final,      \* the one that calls stop(), and collect_all() once after it
  MaxSent,    \* bound on the messages sent
  MaxCancels, \* bound on the collectors cancelled
  MaxLeaves   \* bound on the owners unregistered

ASSUME ParameterAssumption ==
  /\ IsFiniteSet(Owners)
  /\ All \notin Owners
  /\ {Loop, Final} \subseteq Collectors
  /\ Loop # Final
  /\ {MaxSent, MaxCancels, MaxLeaves} \subseteq Nat

VARIABLES
  members, \* the keys of _owner_index
  outbox,  \* per owner: the messages queued
  transit, \* _in_flight: the copies between an outbox and an inbox
  inbox,   \* per owner and sender: the ids, in order of arrival
  visit,   \* the owners a collector has still to come to
  left,    \* the copies whose delivery tasks a collector waits for
  over,    \* run() starts no further sync: _stop is set, or it was cancelled
  final,   \* the last collect_all(): "due", "begun", or "cut" short
  sent,    \* messages sent so far; they are numbered as they are sent
  cancels,
  leaves,
  routed,  \* history: every copy that left an outbox for a mailbox
  lost,    \* history: those whose mailbox was gone, or went with them
  read,    \* history: those a reader took
  pops,    \* history: the owners that read by other means than drain_pending
  quiet,   \* history: who had no mail at the last check, and got none since
  before   \* history: the messages sent before the polling was over

boxVars == <<members, outbox, transit, inbox>>
taskVars == <<visit, left, over, final>>
boundVars == <<sent, cancels, leaves>>
historyVars == <<routed, lost, read, pops, quiet, before>>
vars == <<boxVars, taskVars, boundVars, historyVars>>

Ids == 1..MaxSent
Mail == [id : Ids, to : Owners \cup {All}]
Copy == [id : Ids, from : Owners, to : Owners]

NoMail == [s \in Owners |-> <<>>]

Init ==
  /\ members = Owners
  /\ outbox = [o \in Owners |-> {}]
  /\ transit = {}
  /\ inbox = [o \in Owners |-> NoMail]
  /\ visit = [c \in Collectors |-> {}]
  /\ left = [c \in Collectors |-> {}]
  /\ over = FALSE /\ final = "due"
  /\ sent = 0 /\ cancels = 0 /\ leaves = 0
  /\ routed = {} /\ lost = {} /\ read = {} /\ pops = {} /\ quiet = {} /\ before = 0

-----------------------------------------------------------------------------
\* What the inboxes of r hold.
CopiesIn(r) ==
  UNION {{[id |-> inbox[r][s][n], from |-> s, to |-> r] : n \in DOMAIN inbox[r][s]} : s \in Owners}
For(r, S) == {x \in S : x.to = r}

Register(o) ==
  /\ o \notin members
  /\ members' = members \cup {o}
  /\ UNCHANGED <<outbox, transit, inbox, taskVars, boundVars, historyVars>>

\* Broken variant: what the owner has not sent yet stays behind.
Unregister_KeepsOutbox(o) ==
  /\ o \in members
  /\ leaves < MaxLeaves
  /\ leaves' = leaves + 1
  /\ members' = members \ {o}
  /\ inbox' = [inbox EXCEPT ![o] = NoMail]
  /\ lost' = lost \cup CopiesIn(o)
  /\ UNCHANGED <<outbox, transit, taskVars, sent, cancels, routed, read, pops, quiet, before>>

\* The flow goes with all it holds; what is in flight for it stays.
Unregister(o) ==
  /\ o \in members
  /\ leaves < MaxLeaves
  /\ leaves' = leaves + 1
  /\ members' = members \ {o}
  /\ outbox' = [outbox EXCEPT ![o] = {}]
  /\ inbox' = [inbox EXCEPT ![o] = NoMail]
  /\ lost' = lost \cup CopiesIn(o)
  /\ UNCHANGED <<transit, taskVars, sent, cancels, routed, read, pops, quiet, before>>

\* Nothing is delivered yet.
Send(s, to) ==
  /\ s \in members
  /\ sent < MaxSent
  /\ sent' = sent + 1
  /\ outbox' = [outbox EXCEPT ![s] = @ \cup {[id |-> sent + 1, to |-> to]}]
  /\ quiet' = IF to = All THEN {} ELSE quiet \ {to}
  /\ UNCHANGED <<members, transit, inbox, taskVars, cancels, leaves,
                 routed, lost, read, pops, before>>

-----------------------------------------------------------------------------
(* Collecting.                                                             *)

\* Who gets message m of o; mail for nobody is dropped.
Recipients(o, m) == IF m.to = All THEN members \ {o} ELSE {m.to} \cap members

\* The copies an outbox turns into.
Routes(o) ==
  UNION {{[id |-> m.id, from |-> o, to |-> r] : r \in Recipients(o, m)} : m \in outbox[o]}

\* The copies of S that have a mailbox are appended to it, in the order of sending.
Written(S) ==
  [r \in Owners |-> [s \in Owners |->
     LET new == {x.id : x \in {y \in S : y.to = r /\ y.from = s}}
     IN  IF r \in members THEN inbox[r][s] \o InOrder(new) ELSE inbox[r][s]]]
Homeless(S) == {x \in S : x.to \notin members}

Idle(c) == visit[c] = {} /\ left[c] = {}

\* run() calls collect_all() until stop(): a snapshot of the owners.
BeginSync ==
  /\ Idle(Loop) /\ ~over
  /\ visit' = [visit EXCEPT ![Loop] = members]
  /\ UNCHANGED <<boxVars, left, over, final, boundVars, historyVars>>

\* Broken variant: the last collection comes before stop().
MayClose_Early == Idle(Loop)
\* Who stops run() waits for its end.
MayClose == over /\ Idle(Loop)

\* The last collect_all(), once.  A fan-out that failed goes without: it is as
\* if the call were cancelled at once.
BeginFinal ==
  /\ final = "due" /\ MayClose
  /\ final' = "begun"
  /\ visit' = [visit EXCEPT ![Final] = members]
  /\ UNCHANGED <<boxVars, left, over, boundVars, historyVars>>

\* _mark_in_flight, before the lock is released.
Note(o) == transit' = transit \cup Routes(o)

(* Phase one of collect(): the outbox is emptied and its mail noted as in  *)
(* flight without an await in between.                                     *)
TakeOutbox(c, o) ==
  /\ left[c] = {}
  /\ outbox' = [outbox EXCEPT ![o] = {}]
  /\ Note(o)
  /\ left' = [left EXCEPT ![c] = Routes(o)]
  /\ routed' = routed \cup Routes(o)
  /\ UNCHANGED <<members, inbox, over, final, boundVars, lost, read, pops, quiet, before>>

\* The next of a collect_all(); an owner that went is skipped.
Collect(c, o) ==
  /\ o \in visit[c]
  /\ visit' = [visit EXCEPT ![c] = @ \ {o}]
  /\ TakeOutbox(c, o)

\* collect() by a session; its sync() is one after the other.
CollectOne(c, o) ==
  /\ c \notin {Loop, Final}
  /\ o \in members
  /\ visit' = visit
  /\ TakeOutbox(c, o)

\* Broken variant: the delivery task does not look whether its copy is still
\* in flight.
ToWrite_Blindly(c) == left[c]
ToWrite(c) == left[c] \cap transit

(* Phase two: the delivery tasks of one gather() were made together and do *)
(* not await, so nothing comes between them.                               *)
Deliver(c) ==
  /\ left[c] # {}
  /\ left' = [left EXCEPT ![c] = {}]
  /\ inbox' = Written(ToWrite(c))
  /\ transit' = transit \ left[c]
  /\ lost' = lost \cup Homeless(ToWrite(c))
  /\ UNCHANGED <<members, outbox, visit, over, final, boundVars, routed, read, pops, quiet,
                 before>>

\* What was sent when the polling ends.
Closing == before' = IF over' /\ ~over THEN sent ELSE before

\* The collector is cancelled before its delivery tasks have run; the last
\* collect_all() is not called again.
Cancel(c) ==
  /\ ~Idle(c)
  /\ cancels < MaxCancels
  /\ cancels' = cancels + 1
  /\ visit' = [visit EXCEPT ![c] = {}]
  /\ left' = [left EXCEPT ![c] = {}]
  /\ over' = (over \/ c = Loop)
  /\ final' = IF c = Final THEN "cut" ELSE final
  /\ Closing
  /\ UNCHANGED <<boxVars, sent, leaves, routed, lost, read, pops, quiet>>

\* stop()
Stop ==
  /\ ~over
  /\ over' = TRUE
  /\ Closing
  /\ UNCHANGED <<boxVars, visit, left, final, boundVars, routed, lost, read, pops, quiet>>

-----------------------------------------------------------------------------
(* Readers.                                                                *)

\* Broken variant: only the inbox is looked at.
Pending_InboxOnly(box, r) == {x \in Owners : box[r][x] # <<>>} # {}
\* peek_pending: mail delivered or in flight for r.
Pending(box, r) == {x \in Owners : box[r][x] # <<>>} # {} \/ For(r, transit) # {}

(* The round check of a team: collect_all_sync() empties every outbox into *)
(* the inboxes, then peek_pending() of each worker, all without an await.  *)
CheckRound ==
  LET new == UNION {Routes(o) : o \in members}
  IN  /\ outbox' = [o \in Owners |-> {}]
      /\ routed' = routed \cup new
      /\ inbox' = Written(new)
      /\ quiet' = {r \in members : ~Pending(inbox', r)}
  /\ UNCHANGED <<members, transit, taskVars, boundVars, lost, read, pops, before>>

\* Broken variant: what is in flight is left to the delivery tasks.
Drain_InboxOnly(r) ==
  /\ r \in members
  /\ read' = read \cup CopiesIn(r)
  /\ inbox' = [inbox EXCEPT ![r] = NoMail]
  /\ UNCHANGED <<members, outbox, transit, taskVars, boundVars, routed, lost, pops, quiet, before>>

Drained(r) == CopiesIn(r) \cup For(r, transit)

\* drain_pending, whose result the round sorts by time: delivers what is in
\* flight and takes all.
Drain(r) ==
  /\ Drained(r) # {}
  /\ IF r \in members THEN read' = read \cup Drained(r) /\ lost' = lost
                      ELSE lost' = lost \cup For(r, transit) /\ read' = read
  /\ transit' = transit \ For(r, transit)
  /\ inbox' = [inbox EXCEPT ![r] = NoMail]
  /\ UNCHANGED <<members, outbox, taskVars, boundVars, routed, pops, quiet, before>>

\* pop_message: the head of one inbox.
Pop(r, s) ==
  /\ inbox[r][s] # <<>>
  /\ read' = read \cup {[id |-> Head(inbox[r][s]), from |-> s, to |-> r]}
  /\ inbox' = [inbox EXCEPT ![r][s] = Tail(@)]
  /\ pops' = pops \cup {r}
  /\ UNCHANGED <<members, outbox, transit, taskVars, boundVars, routed, lost, quiet, before>>

Next ==
  \/ \E o \in Owners : Register(o) \/ Unregister(o) \/ Drain(o)
  \/ \E s \in Owners, to \in Owners \cup {All} : Send(s, to)
  \/ \E c \in Collectors :
       \/ Deliver(c) \/ Cancel(c)
       \/ \E o \in Owners : Collect(c, o) \/ CollectOne(c, o)
  \/ \E r, s \in Owners : Pop(r, s)
  \/ BeginSync \/ Stop \/ BeginFinal \/ CheckRound

Spec == Init /\ [][Next]_vars

(* run() polls until it is stopped, if it ever is, a collector goes on, and *)
(* who stopped it comes to collect once.  Nobody need call collect()       *)
(* besides.                                                                *)
Fairness ==
  /\ WF_vars(BeginSync)
  /\ WF_vars(BeginFinal)
  /\ \A c \in Collectors :
       /\ WF_vars(\E o \in Owners : Collect(c, o))
       /\ WF_vars(Deliver(c))

FairSpec == Spec /\ Fairness

-----------------------------------------------------------------------------
InInbox == UNION {CopiesIn(r) : r \in Owners}

TypeOK ==
  /\ members \subseteq Owners
  /\ outbox \in [Owners -> SUBSET Mail]
  /\ transit \subseteq Copy
  /\ inbox \in [Owners -> [Owners -> Seq(Ids)]]
  /\ visit \in [Collectors -> SUBSET Owners]
  /\ left \in [Collectors -> SUBSET Copy]
  /\ over \in BOOLEAN
  /\ final \in {"due", "begun", "cut"}
  /\ sent \in 0..MaxSent
  /\ cancels \in 0..MaxCancels
  /\ leaves \in 0..MaxLeaves
  /\ {routed, lost, read} \subseteq SUBSET Copy
  /\ {pops, quiet} \subseteq SUBSET Owners
  /\ before \in 0..sent
  /\ \A o \in Owners \ members : outbox[o] = {} /\ inbox[o] = NoMail

(* Every copy that left an outbox is in exactly one place: in flight, in   *)
(* its inbox, read, or gone with its mailbox.  So no race of collectors,   *)
(* drains, readers, cancellations and leaving owners loses mail for a      *)
(* mailbox that exists or shows it twice (_deliver_to, drain_pending).     *)
EachCopyOnce ==
  /\ routed = transit \cup InInbox \cup read \cup lost
  /\ transit \cap (InInbox \cup read \cup lost) = {}
  /\ InInbox \cap (read \cup lost) = {}
  /\ read \cap lost = {}
  /\ \A r, s \in Owners : \A m, n \in DOMAIN inbox[r][s] :
       inbox[r][s][m] = inbox[r][s][n] => m = n

(* peek_pending: a worker the round check finds without mail has none, not *)
(* in its inbox, not in flight and not in an outbox, until somebody sends  *)
(* to it: a team is not declared quiet over mail in transit.               *)
QuietMeansNoMail ==
  \A r \in quiet :
    /\ r \in members => CopiesIn(r) = {} /\ For(r, transit) = {}
    /\ \A o \in Owners : \A m \in outbox[o] : r \notin Recipients(o, m)

(* A worker that reads by drain_pending alone gets each sender's mail in   *)
(* the order it was sent, over all its drains, although a synchronous      *)
(* collection overtakes mail in flight.                                    *)
DrainsKeepOrder ==
  [][\A x \in read' \ read, y \in read :
       x.to = y.to /\ x.from = y.from /\ x.to \notin pops' => y.id < x.id]_vars

(* No mail stays in an outbox for ever, nor with a delivery task: while    *)
(* run() polls it takes all, and what was sent before it is stopped is     *)
(* left for the one collect_all() after it, whoever else collects or is    *)
(* cancelled meanwhile.  If that last one is cancelled, or not called, mail *)
(* stays: nobody collects again.                                           *)
EveryMailLeaves ==
  <>[](/\ final = "cut" \/ \A o \in Owners : \A m \in outbox[o] : over /\ m.id > before
       /\ \A c \in Collectors : left[c] = {})
=============================================================================
