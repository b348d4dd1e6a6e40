--------------------------- MODULE ExchangeProofs ---------------------------
(* Theorems about Exchange, for any finite set of owners, any collectors   *)
(* and any number of messages, cancellations and departures.               *)
EXTENDS Exchange, EnumerationProofs

-----------------------------------------------------------------------------
\* _deliver_to: the ids a collection appends are those of its copies, once.
LEMMA InOrderOfIds ==
  ASSUME NEW S \in SUBSET Ids
  PROVE  /\ InOrder(S) \in Seq(Ids)
         /\ Elements(InOrder(S)) = S
         /\ NoRepeats(InOrder(S))
<1>1. MaxSent \in Nat
  BY ParameterAssumption
<1>2. IsFiniteSet(Ids) /\ Ids \subseteq Nat
  BY <1>1, FS_Interval DEF Ids
<1>3. IsFiniteSet(S) /\ S \in SUBSET Nat
  BY <1>2, FS_Subset
<1> QED
  BY <1>3, InOrderIs

-----------------------------------------------------------------------------
(* What the inboxes hold, as a set of copies.                              *)

Boxes == [Owners -> [Owners -> Seq(Ids)]]
Within(b) == {x \in Copy : x.id \in Elements(b[x.to][x.from])}
Distinct(b) == \A r, s \in Owners : NoRepeats(b[r][s])

LEMMA CopyIs ==
  ASSUME NEW x \in Copy
  PROVE  /\ x = [id |-> x.id, from |-> x.from, to |-> x.to]
         /\ x.id \in Ids /\ x.from \in Owners /\ x.to \in Owners
BY DEF Copy

\* CopiesIn of any boxes.
CopiesOf(b, r) ==
  UNION {{[id |-> b[r][s][n], from |-> s, to |-> r] : n \in DOMAIN b[r][s]} : s \in Owners}

LEMMA CopiesAre ==
  ASSUME NEW b \in Boxes, NEW r \in Owners
  PROVE  CopiesOf(b, r) = {x \in Within(b) : x.to = r}
<1>1. ASSUME NEW x \in CopiesOf(b, r) PROVE x \in Within(b) /\ x.to = r
  <2>1. PICK s \in Owners : x \in {[id |-> b[r][s][n], from |-> s, to |-> r] : n \in DOMAIN b[r][s]}
    BY <1>1 DEF CopiesOf
  <2>2. PICK n \in DOMAIN b[r][s] : x = [id |-> b[r][s][n], from |-> s, to |-> r]
    BY <2>1
  <2>3. b[r][s][n] \in Elements(b[r][s]) /\ Elements(b[r][s]) \subseteq Ids
    BY ElementsType DEF Boxes, Elements
  <2> QED
    BY <2>2, <2>3 DEF Within, Copy
<1>2. ASSUME NEW x \in Within(b), x.to = r PROVE x \in CopiesOf(b, r)
  <2>1. x = [id |-> x.id, from |-> x.from, to |-> r] /\ x.from \in Owners
    BY <1>2, CopyIs DEF Within
  <2>2. PICK n \in DOMAIN b[r][x.from] : x.id = b[r][x.from][n]
    BY <1>2 DEF Within, Elements
  <2> QED
    BY <2>1, <2>2 DEF CopiesOf
<1> QED
  BY <1>1, <1>2

LEMMA InboxIs ==
  TypeOK => /\ \A r \in Owners : CopiesIn(r) = {x \in Within(inbox) : x.to = r}
            /\ InInbox = Within(inbox)
<1> SUFFICES ASSUME TypeOK
             PROVE  /\ \A r \in Owners : CopiesIn(r) = {x \in Within(inbox) : x.to = r}
                    /\ InInbox = Within(inbox)
  OBVIOUS
<1>1. \A r \in Owners : CopiesIn(r) = {x \in Within(inbox) : x.to = r}
  BY CopiesAre DEF CopiesIn, CopiesOf, TypeOK, Boxes
<1>2. \A x \in Within(inbox) : x.to \in Owners
  BY CopyIs DEF Within
<1> QED
  BY <1>1, <1>2 DEF InInbox

\* collect(), phase one: copies of this outbox for mailboxes that exist.
LEMMA RoutesAre ==
  ASSUME TypeOK, NEW o \in Owners, NEW x \in Routes(o)
  PROVE  /\ x \in Copy /\ x.from = o /\ x.to \in members
         /\ \E m \in outbox[o] : m.id = x.id /\ x.to \in Recipients(o, m)
<1>1. PICK m \in outbox[o] : x \in {[id |-> m.id, from |-> o, to |-> r] : r \in Recipients(o, m)}
  BY DEF Routes
<1>2. PICK r \in Recipients(o, m) : x = [id |-> m.id, from |-> o, to |-> r]
  BY <1>1
<1>3. m \in Mail /\ r \in members /\ members \subseteq Owners
  BY DEF TypeOK, Recipients
<1> QED
  BY <1>2, <1>3 DEF Copy, Mail

\* _deliver_to: the copies that have a mailbox are in it.
LEMMA WrittenIs ==
  ASSUME TypeOK, NEW S \in SUBSET Copy
  PROVE  /\ Written(S) \in Boxes
         /\ Within(Written(S)) = Within(inbox) \cup {x \in S : x.to \in members}
         /\ Distinct(inbox) /\ S \cap Within(inbox) = {} => Distinct(Written(S))
         /\ \A r \in Owners \ members : Written(S)[r] = NoMail
<1> DEFINE new(r, s) == {x.id : x \in {y \in S : y.to = r /\ y.from = s}}
<1>1. \A r, s \in Owners : inbox[r][s] \in Seq(Ids)
  BY DEF TypeOK
<1>2. \A r, s \in Owners : /\ new(r, s) \in SUBSET Ids
                           /\ InOrder(new(r, s)) \in Seq(Ids)
                           /\ Elements(InOrder(new(r, s))) = new(r, s)
                           /\ NoRepeats(InOrder(new(r, s)))
  <2>1. \A r, s \in Owners : new(r, s) \in SUBSET Ids
    BY DEF Copy
  <2> HIDE DEF new
  <2> QED
    BY <2>1, InOrderOfIds
<1>3. \A r, s \in Owners :
        Written(S)[r][s] = IF r \in members THEN inbox[r][s] \o InOrder(new(r, s)) ELSE inbox[r][s]
  BY DEF Written
<1>4. \A r, s \in Owners : \A n \in Ids :
        n \in new(r, s) <=> [id |-> n, from |-> s, to |-> r] \in S
  <2> SUFFICES ASSUME NEW r \in Owners, NEW s \in Owners, NEW n \in Ids
               PROVE  n \in new(r, s) <=> [id |-> n, from |-> s, to |-> r] \in S
    OBVIOUS
  <2>1. ASSUME n \in new(r, s) PROVE [id |-> n, from |-> s, to |-> r] \in S
    <3>1. PICK x \in S : x.to = r /\ x.from = s /\ x.id = n
      BY <2>1
    <3> QED
      BY <3>1, CopyIs
  <2> QED
    BY <2>1
<1> HIDE DEF new
<1>5. \A r, s \in Owners :
        /\ Written(S)[r][s] \in Seq(Ids)
        /\ Elements(Written(S)[r][s])
             = Elements(inbox[r][s]) \cup (IF r \in members THEN new(r, s) ELSE {})
  <2> SUFFICES ASSUME NEW r \in Owners, NEW s \in Owners
               PROVE  /\ Written(S)[r][s] \in Seq(Ids)
                      /\ Elements(Written(S)[r][s])
                           = Elements(inbox[r][s]) \cup (IF r \in members THEN new(r, s) ELSE {})
    OBVIOUS
  <2>1. CASE r \in members
    <3>1. Written(S)[r][s] = inbox[r][s] \o InOrder(new(r, s))
      BY <1>3, <2>1
    <3>2. /\ inbox[r][s] \o InOrder(new(r, s)) \in Seq(Ids)
          /\ Elements(inbox[r][s] \o InOrder(new(r, s))) = Elements(inbox[r][s]) \cup new(r, s)
      BY <1>1, <1>2, JoinIs
    <3> QED
      BY <2>1, <3>1, <3>2
  <2>2. CASE r \notin members
    BY <1>1, <1>3, <2>2
  <2> QED
    BY <2>1, <2>2
<1>6. Written(S) \in Boxes
  <2>1. Written(S) = [r \in Owners |-> [s \in Owners |-> Written(S)[r][s]]]
    BY DEF Written
  <2> QED
    BY <1>5, <2>1 DEF Boxes
<1>7. Within(Written(S)) = Within(inbox) \cup {x \in S : x.to \in members}
  <2> SUFFICES ASSUME NEW x \in Copy
               PROVE  x \in Within(Written(S)) <=> x \in Within(inbox) \/ (x \in S /\ x.to \in members)
    BY DEF Within
  <2>1. x \in S <=> x.id \in new(x.to, x.from)
    BY <1>4, CopyIs
  <2> QED
    BY <1>5, <2>1, CopyIs DEF Within
<1>8. ASSUME Distinct(inbox), S \cap Within(inbox) = {} PROVE Distinct(Written(S))
  <2> SUFFICES ASSUME NEW r \in Owners, NEW s \in Owners PROVE NoRepeats(Written(S)[r][s])
    BY DEF Distinct
  <2>1. Elements(inbox[r][s]) \cap new(r, s) = {}
    <3> SUFFICES ASSUME NEW n \in Elements(inbox[r][s]), n \in new(r, s) PROVE FALSE
      OBVIOUS
    <3>1. n \in Ids
      BY <1>1, ElementsType
    <3>2. [id |-> n, from |-> s, to |-> r] \in S
      BY <1>4, <3>1
    <3>3. [id |-> n, from |-> s, to |-> r] \in Within(inbox)
      BY <3>1 DEF Within, Copy
    <3> QED
      BY <1>8, <3>2, <3>3
  <2> QED
    BY <1>1, <1>2, <1>3, <1>8, <2>1, JoinIs DEF Distinct
<1>9. \A r \in Owners \ members : Written(S)[r] = NoMail
  <2> SUFFICES ASSUME NEW r \in Owners \ members PROVE Written(S)[r] = NoMail
    OBVIOUS
  <2>1. inbox[r] = NoMail
    BY DEF TypeOK
  <2>2. Written(S)[r] = [s \in Owners |-> Written(S)[r][s]]
    BY DEF Written
  <2>3. \A s \in Owners : Written(S)[r][s] = <<>>
    BY <1>3, <2>1 DEF NoMail
  <2> QED
    BY <2>2, <2>3 DEF NoMail
<1> QED
  BY <1>6, <1>7, <1>8, <1>9

-----------------------------------------------------------------------------
LEMMA NoMailType == NoMail \in [Owners -> Seq(Ids)] /\ Elements(<<>>) = {} /\ NoRepeats(<<>>)
BY DEF NoMail, Elements, NoRepeats

LEMMA Bounds == MaxSent \in Nat /\ MaxCancels \in Nat /\ MaxLeaves \in Nat
BY ParameterAssumption

LEMMA InitType == Init => TypeOK
<1> SUFFICES ASSUME Init PROVE TypeOK
  OBVIOUS
<1>1. inbox \in [Owners -> [Owners -> Seq(Ids)]]
  BY NoMailType DEF Init
<1>2. sent \in 0..MaxSent /\ cancels \in 0..MaxCancels /\ leaves \in 0..MaxLeaves
  BY Bounds DEF Init
<1>3. before \in 0..sent
  BY DEF Init
<1> QED
  BY <1>1, <1>2, <1>3 DEF Init, TypeOK

\* Owners come, go and send.
LEMMA OwnerType ==
  ASSUME TypeOK, NEW o \in Owners,
         Register(o) \/ Unregister(o) \/ \E to \in Owners \cup {All} : Send(o, to)
  PROVE  TypeOK'
<1>1. CASE Register(o)
  BY <1>1 DEF Register, TypeOK, taskVars, boundVars, historyVars
<1>2. CASE Unregister(o)
  <2>1. CopiesIn(o) \subseteq Copy
    BY InboxIs DEF Within
  <2>2. leaves' \in 0..MaxLeaves
    BY <1>2, Bounds DEF Unregister, TypeOK
  <2>3. inbox' \in [Owners -> [Owners -> Seq(Ids)]] /\ inbox'[o] = NoMail /\ outbox'[o] = {}
    BY <1>2, NoMailType DEF Unregister, TypeOK
  <2> QED
    BY <1>2, <2>1, <2>2, <2>3 DEF Unregister, TypeOK, taskVars
<1>3. ASSUME NEW to \in Owners \cup {All}, Send(o, to) PROVE TypeOK'
  <2>1. sent' \in 0..MaxSent /\ sent + 1 \in Ids
    BY <1>3, ParameterAssumption DEF Send, TypeOK, Ids
  <2>2. [id |-> sent + 1, to |-> to] \in Mail
    BY <2>1 DEF Mail
  <2> QED
    BY <1>3, <2>1, <2>2 DEF Send, TypeOK, taskVars
<1> QED
  BY <1>1, <1>2, <1>3

LEMMA CollectorType ==
  ASSUME TypeOK, NEW c \in Collectors,
         \/ BeginSync \/ BeginFinal \/ Deliver(c) \/ Cancel(c)
         \/ \E o \in Owners : Collect(c, o) \/ CollectOne(c, o)
  PROVE  TypeOK'
<1>1. CASE BeginSync \/ BeginFinal \/ Cancel(c)
  <2>1. visit' \in [Collectors -> SUBSET Owners]
    BY <1>1 DEF BeginSync, BeginFinal, Cancel, TypeOK
  <2>2. left' \in [Collectors -> SUBSET Copy]
    BY <1>1 DEF BeginSync, BeginFinal, Cancel, TypeOK
  <2>3. over' \in BOOLEAN /\ final' \in {"due", "begun", "cut"}
    BY <1>1 DEF BeginSync, BeginFinal, Cancel, TypeOK
  <2>4. /\ cancels' \in 0..MaxCancels
        /\ UNCHANGED <<boxVars, sent, leaves, routed, lost, read, pops, quiet>>
    BY <1>1, Bounds DEF BeginSync, BeginFinal, Cancel, TypeOK, boundVars, historyVars
  <2>5. before' \in 0..sent
    BY <1>1, Bounds DEF BeginSync, BeginFinal, Cancel, Closing, TypeOK, historyVars
  <2> QED
    BY <2>1, <2>2, <2>3, <2>4, <2>5 DEF TypeOK, boxVars
<1>2. ASSUME NEW o \in Owners, Collect(c, o) \/ CollectOne(c, o) PROVE TypeOK'
  <2>1. Routes(o) \subseteq Copy
    BY RoutesAre
  <2>2. visit' \in [Collectors -> SUBSET Owners]
    BY <1>2 DEF Collect, CollectOne, TypeOK
  <2>3. TakeOutbox(c, o)
    BY <1>2 DEF Collect, CollectOne
  <2> QED
    BY <2>1, <2>2, <2>3 DEF TakeOutbox, Note, TypeOK, boundVars
<1>3. CASE Deliver(c)
  <2>1. ToWrite(c) \in SUBSET Copy
    BY DEF ToWrite, TypeOK
  <2>2. inbox' \in Boxes /\ \A r \in Owners \ members : inbox'[r] = NoMail
    BY <1>3, <2>1, WrittenIs DEF Deliver
  <2> QED
    BY <1>3, <2>1, <2>2 DEF Deliver, Homeless, TypeOK, Boxes, boundVars
<1> QED
  BY <1>1, <1>2, <1>3

\* What the round check collects: copies for mailboxes that exist.
LEMMA AllRoutes ==
  ASSUME TypeOK, NEW x \in UNION {Routes(o) : o \in members}
  PROVE  x \in Copy /\ x.to \in members /\ x.from \in members /\ x \in Routes(x.from)
<1>1. PICK o \in members : x \in Routes(o)
  OBVIOUS
<1> QED
  BY <1>1, RoutesAre DEF TypeOK

LEMMA ReaderType ==
  ASSUME TypeOK,
         \/ CheckRound \/ Stop
         \/ \E r \in Owners : Drain(r) \/ \E s \in Owners : Pop(r, s)
  PROVE  TypeOK'
<1>1. CASE CheckRound
  <2> DEFINE new == UNION {Routes(o) : o \in members}
  <2>1. new \in SUBSET Copy
    BY AllRoutes
  <2>2. inbox' = Written(new)
    BY <1>1 DEF CheckRound
  <2>3. inbox' \in Boxes /\ \A r \in Owners \ members : inbox'[r] = NoMail
    <3> HIDE DEF new
    <3> QED
      BY <2>1, <2>2, WrittenIs
  <2> QED
    BY <1>1, <2>1, <2>3 DEF CheckRound, TypeOK, Boxes, taskVars, boundVars
<1>2. CASE Stop
  BY <1>2, Bounds DEF Stop, Closing, TypeOK, boxVars, boundVars
<1>3. ASSUME NEW r \in Owners, Drain(r) PROVE TypeOK'
  <2>1. Drained(r) \subseteq Copy /\ For(r, transit) \subseteq Copy
    BY InboxIs DEF Drained, For, Within, TypeOK
  <2> QED
    <3>1. inbox' \in [Owners -> [Owners -> Seq(Ids)]] /\ \A o \in Owners \ members : inbox'[o] = NoMail
      BY <1>3, NoMailType DEF Drain, TypeOK
    <3>2. transit' \subseteq Copy /\ {routed', lost', read'} \subseteq SUBSET Copy
      BY <1>3, <2>1 DEF Drain, TypeOK
    <3> QED
      BY <1>3, <3>1, <3>2 DEF Drain, TypeOK, taskVars, boundVars
<1>4. ASSUME NEW r \in Owners, NEW s \in Owners, Pop(r, s) PROVE TypeOK'
  <2>1. r \in members
    BY <1>4 DEF Pop, TypeOK, NoMail
  <2>2. Head(inbox[r][s]) \in Ids /\ Tail(inbox[r][s]) \in Seq(Ids)
    BY <1>4, TailIs DEF Pop, TypeOK
  <2>3. [id |-> Head(inbox[r][s]), from |-> s, to |-> r] \in Copy
    BY <2>2 DEF Copy
  <2> QED
    BY <1>4, <2>1, <2>2, <2>3 DEF Pop, TypeOK, taskVars, boundVars
<1> QED
  BY <1>1, <1>2, <1>3, <1>4

LEMMA NextType == TypeOK /\ [Next]_vars => TypeOK'
<1> SUFFICES ASSUME TypeOK, [Next]_vars PROVE TypeOK'
  OBVIOUS
<1>1. CASE UNCHANGED vars
  BY <1>1 DEF vars, boxVars, taskVars, boundVars, historyVars, TypeOK
<1>2. Loop \in Collectors
  BY ParameterAssumption
<1> QED
  BY <1>1, <1>2, OwnerType, CollectorType, ReaderType DEF Next

(* Mailboxes hold numbered mail between owners, and an owner that is not   *)
(* registered has nothing queued and no mailbox (register, unregister).    *)
THEOREM TypeCorrect == Spec => []TypeOK
<1> QED
  BY InitType, NextType, PTL DEF Spec

-----------------------------------------------------------------------------
(* Mail is numbered as it is sent, and an outbox is always emptied as a    *)
(* whole: what has left it is older than what is in it.                    *)
Fresh ==
  /\ \A o \in Owners : \A m \in outbox[o] : m.id <= sent
  /\ \A x \in routed : x.id <= sent /\ \A m \in outbox[x.from] : x.id < m.id

LEMMA Numbers ==
  TypeOK => /\ sent \in Nat
            /\ \A o \in Owners : \A m \in outbox[o] : m.id \in Nat
            /\ \A x \in Copy : x.id \in Nat
BY Bounds DEF TypeOK, Ids, Mail, Copy

LEMMA RoutesFresh ==
  ASSUME TypeOK, Fresh, NEW o \in Owners, NEW x \in Routes(o)
  PROVE  x.id <= sent /\ x \notin routed
<1>1. PICK m \in outbox[o] : m.id = x.id /\ x.from = o
  BY RoutesAre
<1> QED
  BY <1>1, Numbers DEF Fresh

LEMMA FreshStep == TypeOK /\ Fresh /\ [Next]_vars => Fresh'
<1> SUFFICES ASSUME TypeOK, Fresh, [Next]_vars PROVE Fresh'
  OBVIOUS
<1>1. \A x \in routed : x.from \in Owners
  BY CopyIs DEF TypeOK
<1>2. ASSUME routed' = routed, sent' = sent, \A o \in Owners : outbox'[o] \in {outbox[o], {}}
      PROVE  Fresh'
  BY <1>1, <1>2 DEF Fresh
<1>3. ASSUME NEW o \in Owners, Register(o) \/ Unregister(o) \/ Drain(o) \/ \E s \in Owners : Pop(o, s)
      PROVE  Fresh'
  BY <1>2, <1>3 DEF Register, Unregister, Drain, Pop, boundVars, historyVars, TypeOK
<1>4. ASSUME NEW s \in Owners, NEW to \in Owners \cup {All}, Send(s, to) PROVE Fresh'
  <2> DEFINE new == [id |-> sent + 1, to |-> to]
  <2>1. /\ sent' = sent + 1 /\ routed' = routed
        /\ \A o \in Owners : \A m \in outbox'[o] : m \in outbox[o] \/ m = new
    BY <1>4 DEF Send, TypeOK
  <2>2. \A o \in Owners : \A m \in outbox'[o] : m \in outbox[o] \/ m.id = sent + 1
    BY <2>1
  <2>3. sent \in Nat /\ \A o \in Owners : \A m \in outbox[o] : m.id \in Nat /\ m.id <= sent
    BY Numbers DEF Fresh
  <2>4. \A x \in routed : x.id \in Nat /\ x.id <= sent
    BY Numbers DEF Fresh, TypeOK
  <2>5. \A o \in Owners : \A m \in outbox'[o] : m.id <= sent'
    BY <2>1, <2>2, <2>3
  <2>6. \A x \in routed : x.id <= sent' /\ \A m \in outbox'[x.from] : x.id < m.id
    <3> SUFFICES ASSUME NEW x \in routed, NEW m \in outbox'[x.from]
                 PROVE  x.id <= sent' /\ x.id < m.id
      BY <2>1, <2>3, <2>4
    <3> QED
      BY <1>1, <2>1, <2>2, <2>3, <2>4 DEF Fresh
  <2> QED
    BY <2>1, <2>5, <2>6 DEF Fresh
<1>5. CASE BeginSync \/ BeginFinal \/ \E c \in Collectors : Deliver(c) \/ Cancel(c)
  BY <1>2, <1>5 DEF BeginSync, BeginFinal, Deliver, Cancel, boxVars, boundVars, historyVars
<1>6. ASSUME NEW c \in Collectors, NEW o \in Owners, Collect(c, o) \/ CollectOne(c, o) PROVE Fresh'
  <2>1. /\ sent' = sent /\ routed' = routed \cup Routes(o)
        /\ outbox' = [outbox EXCEPT ![o] = {}]
    BY <1>6 DEF Collect, CollectOne, TakeOutbox, boundVars
  <2>2. \A x \in Routes(o) : x.id <= sent /\ x.from = o
    BY RoutesAre, RoutesFresh
  <2> QED
    BY <1>1, <2>1, <2>2 DEF Fresh, TypeOK
<1>7. CASE CheckRound
  <2> DEFINE new == UNION {Routes(o) : o \in members}
  <2>1. /\ sent' = sent /\ routed' = routed \cup new
        /\ outbox' = [o \in Owners |-> {}]
    BY <1>7 DEF CheckRound, boundVars
  <2>2. \A x \in new : x.id <= sent /\ x.from \in Owners
    BY AllRoutes, RoutesFresh DEF TypeOK
  <2> HIDE DEF new
  <2> QED
    BY <1>1, <2>1, <2>2 DEF Fresh
<1>8. CASE Stop
  BY <1>2, <1>8 DEF Stop, boxVars, boundVars, historyVars
<1>9. CASE UNCHANGED vars
  BY <1>2, <1>9 DEF vars, boxVars, boundVars, historyVars
<1> QED
  BY <1>3, <1>4, <1>5, <1>6, <1>7, <1>8, <1>9 DEF Next

-----------------------------------------------------------------------------
(* EachCopyOnce, with the inboxes as one set of copies.                    *)
EachInv ==
  /\ routed = transit \cup Within(inbox) \cup read \cup lost
  /\ transit \cap (Within(inbox) \cup read \cup lost) = {}
  /\ Within(inbox) \cap (read \cup lost) = {}
  /\ read \cap lost = {}
  /\ Distinct(inbox)

\* unregister() and drain_pending(): a mailbox is emptied.
LEMMA Emptied ==
  ASSUME TypeOK, NEW o \in Owners, inbox' = [inbox EXCEPT ![o] = NoMail]
  PROVE  /\ Within(inbox') = {x \in Within(inbox) : x.to # o}
         /\ Distinct(inbox) => Distinct(inbox')
<1>1. \A r, s \in Owners : inbox'[r][s] = IF r = o THEN <<>> ELSE inbox[r][s]
  BY DEF TypeOK, NoMail
<1>2. ASSUME NEW x \in Copy PROVE x \in Within(inbox') <=> x \in Within(inbox) /\ x.to # o
  BY <1>1, CopyIs, NoMailType DEF Within
<1> QED
  BY <1>1, <1>2, NoMailType DEF Within, Distinct

\* pop_message(): one copy leaves.
LEMMA Popped ==
  ASSUME TypeOK, NEW r \in Owners, NEW s \in Owners, Distinct(inbox), Pop(r, s)
  PROVE  \E x \in Within(inbox) :
           /\ x = [id |-> Head(inbox[r][s]), from |-> s, to |-> r]
           /\ Within(inbox') = Within(inbox) \ {x}
           /\ Distinct(inbox')
<1> DEFINE x == [id |-> Head(inbox[r][s]), from |-> s, to |-> r]
           q == inbox[r][s]
<1>1. q \in Seq(Ids) /\ q # <<>> /\ NoRepeats(q)
  BY DEF Pop, TypeOK, Distinct
<1>2. /\ Head(q) \in Elements(q) /\ Head(q) \in Ids
      /\ Elements(q) = Elements(Tail(q)) \cup {Head(q)}
      /\ Head(q) \notin Elements(Tail(q)) /\ NoRepeats(Tail(q))
  <2> HIDE DEF q
  <2> QED
    BY <1>1, TailIs
<1>3. \A t, u \in Owners : inbox'[t][u] = IF t = r /\ u = s THEN Tail(q) ELSE inbox[t][u]
  BY DEF Pop, TypeOK
<1>4. x \in Copy /\ x \in Within(inbox)
  BY <1>2 DEF Within, Copy
<1>5. ASSUME NEW y \in Copy PROVE y \in Within(inbox') <=> y \in Within(inbox) /\ y # x
  <2>1. CASE y.to = r /\ y.from = s
    <3>1. y # x <=> y.id # Head(q)
      BY <2>1, CopyIs
    <3>2. inbox'[y.to][y.from] = Tail(q) /\ inbox[y.to][y.from] = q
      BY <1>3, <2>1
    <3> HIDE DEF x, q
    <3> QED
      BY <1>2, <3>1, <3>2 DEF Within
  <2>2. CASE ~(y.to = r /\ y.from = s)
    <3>1. y # x
      BY <2>2
    <3>2. inbox'[y.to][y.from] = inbox[y.to][y.from]
      BY <1>3, <2>2, CopyIs
    <3> QED
      BY <3>1, <3>2 DEF Within
  <2> QED
    BY <2>1, <2>2
<1>6. Distinct(inbox')
  BY <1>2, <1>3 DEF Distinct
<1> HIDE DEF x
<1>7. Within(inbox') = Within(inbox) \ {x}
  BY <1>5 DEF Within
<1> QED
  BY <1>4, <1>6, <1>7 DEF x

LEMMA EachStep == TypeOK /\ Fresh /\ EachInv /\ [Next]_vars => EachInv'
<1> SUFFICES ASSUME TypeOK, Fresh, EachInv, [Next]_vars PROVE EachInv'
  OBVIOUS
<1>1. ASSUME UNCHANGED <<transit, inbox, routed, lost, read>> PROVE EachInv'
  BY <1>1 DEF EachInv, Within, Distinct
<1>2. ASSUME NEW o \in Owners, Register(o) \/ \E to \in Owners \cup {All} : Send(o, to)
      PROVE  EachInv'
  BY <1>1, <1>2 DEF Register, Send, historyVars
<1>3. ASSUME NEW o \in Owners, Unregister(o) PROVE EachInv'
  <2>1. /\ Within(inbox)' = {x \in Within(inbox) : x.to # o}
        /\ Distinct(inbox)'
    BY <1>3, Emptied DEF Unregister, EachInv, Within, Distinct
  <2>2. lost' = lost \cup {x \in Within(inbox) : x.to = o}
    BY <1>3, InboxIs DEF Unregister
  <2> QED
    BY <1>3, <2>1, <2>2 DEF Unregister, EachInv
<1>4. ASSUME NEW r \in Owners, Drain(r) PROVE EachInv'
  <2>1. /\ Within(inbox)' = {x \in Within(inbox) : x.to # r}
        /\ Distinct(inbox)'
    BY <1>4, Emptied DEF Drain, EachInv, Within, Distinct
  <2>2. Drained(r) = {x \in Within(inbox) : x.to = r} \cup {x \in transit : x.to = r}
    BY InboxIs DEF Drained, For
  <2>3. CASE r \in members
    BY <1>4, <2>1, <2>2, <2>3 DEF Drain, For, EachInv
  <2>4. CASE r \notin members
    <3>1. \A x \in Within(inbox) : x.to # r
      BY <2>4, NoMailType, CopyIs DEF Within, TypeOK, NoMail
    <3> QED
      BY <1>4, <2>1, <2>4, <3>1 DEF Drain, For, EachInv
  <2> QED
    BY <2>3, <2>4
<1>5. ASSUME NEW r \in Owners, NEW s \in Owners, Pop(r, s) PROVE EachInv'
  <2>1. PICK x \in Within(inbox) :
          /\ x = [id |-> Head(inbox[r][s]), from |-> s, to |-> r]
          /\ Within(inbox') = Within(inbox) \ {x}
          /\ Distinct(inbox')
    BY <1>5, Popped DEF EachInv
  <2>2. read' = read \cup {x} /\ UNCHANGED <<transit, routed, lost>>
    BY <1>5, <2>1 DEF Pop
  <2>3. Within(inbox)' = Within(inbox) \ {x} /\ Distinct(inbox)'
    BY <2>1 DEF Within, Distinct
  <2> QED
    BY <2>2, <2>3 DEF EachInv
<1>6. CASE BeginSync \/ BeginFinal \/ \E c \in Collectors : Cancel(c)
  BY <1>1, <1>6 DEF BeginSync, BeginFinal, Cancel, boxVars, historyVars
<1>7. ASSUME NEW c \in Collectors, NEW o \in Owners, Collect(c, o) \/ CollectOne(c, o) PROVE EachInv'
  <2>1. Routes(o) \cap routed = {}
    BY RoutesFresh
  <2>2. /\ routed' = routed \cup Routes(o) /\ transit' = transit \cup Routes(o)
        /\ UNCHANGED <<inbox, lost, read>>
    BY <1>7 DEF Collect, CollectOne, TakeOutbox, Note
  <2>3. Within(inbox)' = Within(inbox) /\ (Distinct(inbox) => Distinct(inbox)')
    BY <2>2 DEF Within, Distinct
  <2> QED
    BY <2>1, <2>2, <2>3 DEF EachInv
<1>8. ASSUME NEW c \in Collectors, Deliver(c) PROVE EachInv'
  <2> DEFINE S == ToWrite(c)
  <2>1. S = left[c] \cap transit /\ S \in SUBSET Copy
    BY DEF ToWrite, TypeOK
  <2>2. /\ inbox' = Written(S) /\ transit' = transit \ left[c]
        /\ lost' = lost \cup {x \in S : x.to \notin members}
        /\ UNCHANGED <<routed, read>>
    BY <1>8 DEF Deliver, Homeless
  <2> HIDE DEF S
  <2>3. S \cap Within(inbox) = {}
    BY <2>1 DEF EachInv
  <2>4. /\ Within(inbox') = Within(inbox) \cup {x \in S : x.to \in members}
        /\ Distinct(inbox')
    BY <2>1, <2>2, <2>3, WrittenIs DEF EachInv
  <2>5. /\ Within(inbox)' = Within(inbox) \cup {x \in S : x.to \in members}
        /\ Distinct(inbox)'
    BY <2>4 DEF Within, Distinct
  <2> QED
    BY <2>1, <2>2, <2>5 DEF EachInv
<1>9. CASE CheckRound
  <2> DEFINE S == UNION {Routes(o) : o \in members}
  <2>1. S \in SUBSET Copy /\ (\A x \in S : x.to \in members) /\ S \cap routed = {}
    BY AllRoutes, RoutesFresh DEF TypeOK
  <2>2. /\ inbox' = Written(S) /\ routed' = routed \cup S
        /\ UNCHANGED <<transit, lost, read>>
    BY <1>9 DEF CheckRound
  <2> HIDE DEF S
  <2>3. S \cap Within(inbox) = {}
    BY <2>1 DEF EachInv
  <2>4. Within(inbox') = Within(inbox) \cup S /\ Distinct(inbox')
    BY <2>1, <2>2, <2>3, WrittenIs DEF EachInv
  <2>5. Within(inbox)' = Within(inbox) \cup S /\ Distinct(inbox)'
    BY <2>4 DEF Within, Distinct
  <2> QED
    BY <2>1, <2>2, <2>5 DEF EachInv
<1>10. CASE Stop \/ UNCHANGED vars
  BY <1>1, <1>10 DEF Stop, vars, boxVars, historyVars
<1> QED
  BY <1>2, <1>3, <1>4, <1>5, <1>6, <1>7, <1>8, <1>9, <1>10 DEF Next

LEMMA EachHolds == Spec => [](Fresh /\ EachInv)
<1>1. Init => Fresh /\ EachInv
  <2> SUFFICES ASSUME Init PROVE Fresh /\ EachInv
    OBVIOUS
  <2>1. Fresh
    BY DEF Init, Fresh
  <2>2. \A r, s \in Owners : inbox[r][s] = <<>>
    BY DEF Init, NoMail
  <2>3. Within(inbox) = {} /\ Distinct(inbox)
    BY <2>2, CopyIs, NoMailType DEF Within, Distinct
  <2> QED
    BY <2>1, <2>3 DEF Init, EachInv
<1> QED
  BY <1>1, FreshStep, EachStep, TypeCorrect, PTL DEF Spec

(* _deliver_to, drain_pending: no race of collectors, drains, readers,     *)
(* cancellations and leaving owners loses a copy or shows it twice.        *)
THEOREM EachCopyOnceHolds == Spec => []EachCopyOnce
<1>1. TypeOK /\ EachInv => EachCopyOnce
  BY InboxIs DEF EachInv, EachCopyOnce, Distinct, NoRepeats
<1> QED
  BY <1>1, EachHolds, TypeCorrect, PTL

-----------------------------------------------------------------------------
(* What the round check found stays true wherever the owner goes: there is *)
(* no mail for it anywhere until somebody sends some.                      *)
QuietInv ==
  \A r \in quiet :
    /\ \A x \in Within(inbox) \cup transit : x.to # r
    /\ \A o \in Owners : \A m \in outbox[o] : m.to # r /\ (m.to = All => o = r)

LEMMA NoRouteToQuiet ==
  ASSUME TypeOK, QuietInv, NEW o \in Owners, NEW x \in Routes(o)
  PROVE  x.to \notin quiet
<1>1. PICK m \in outbox[o] : x.to \in Recipients(o, m)
  BY RoutesAre
<1> QED
  BY <1>1 DEF QuietInv, Recipients

LEMMA QuietStep == TypeOK /\ EachInv /\ QuietInv /\ [Next]_vars => QuietInv'
<1> SUFFICES ASSUME TypeOK, EachInv, QuietInv, [Next]_vars PROVE QuietInv'
  OBVIOUS
\* Nothing new for the owners that stay quiet.
<1>1. ASSUME quiet' \subseteq quiet,
             \A x \in Within(inbox') \cup transit' :
               x \in Within(inbox) \cup transit \/ x.to \notin quiet',
             \A o \in Owners : \A m \in outbox'[o] :
               m \in outbox[o] \/ \A r \in quiet' : m.to # r /\ (m.to = All => o = r)
      PROVE  QuietInv'
  BY <1>1 DEF QuietInv, Within
<1>2. ASSUME NEW o \in Owners, Register(o) PROVE QuietInv'
  BY <1>1, <1>2 DEF Register, historyVars
<1>3. ASSUME NEW o \in Owners, Unregister(o) \/ Drain(o) PROVE QuietInv'
  <2>1. inbox' = [inbox EXCEPT ![o] = NoMail]
    BY <1>3 DEF Unregister, Drain
  <2>2. Within(inbox') \subseteq Within(inbox)
    BY <2>1, Emptied
  <2> QED
    BY <1>1, <1>3, <2>2 DEF Unregister, Drain, TypeOK
<1>4. ASSUME NEW s \in Owners, NEW to \in Owners \cup {All}, Send(s, to) PROVE QuietInv'
  <2>1. /\ UNCHANGED <<inbox, transit>>
        /\ quiet' = IF to = All THEN {} ELSE quiet \ {to}
    BY <1>4 DEF Send
  <2>2. \A o \in Owners : \A m \in outbox'[o] :
          m \in outbox[o] \/ m = [id |-> sent + 1, to |-> to]
    BY <1>4 DEF Send, TypeOK
  <2>3. \A o \in Owners : \A m \in outbox'[o] : m \in outbox[o] \/ m.to = to
    BY <2>2
  <2> QED
    BY <1>1, <2>1, <2>3
<1>5. CASE BeginSync \/ BeginFinal \/ \E c \in Collectors : Cancel(c)
  BY <1>1, <1>5 DEF BeginSync, BeginFinal, Cancel, boxVars, historyVars
<1>6. ASSUME NEW c \in Collectors, NEW o \in Owners, Collect(c, o) \/ CollectOne(c, o) PROVE QuietInv'
  <2>1. \A x \in Routes(o) : x.to \notin quiet
    BY NoRouteToQuiet
  <2> QED
    BY <1>1, <1>6, <2>1 DEF Collect, CollectOne, TakeOutbox, Note, TypeOK
<1>7. ASSUME NEW c \in Collectors, Deliver(c) PROVE QuietInv'
  <2>1. ToWrite(c) \subseteq transit /\ ToWrite(c) \in SUBSET Copy
    BY DEF ToWrite, TypeOK
  <2>2. inbox' = Written(ToWrite(c)) /\ transit' \subseteq transit /\ UNCHANGED <<quiet, outbox>>
    BY <1>7 DEF Deliver
  <2>3. Within(inbox') \subseteq Within(inbox) \cup transit
    BY <2>1, <2>2, WrittenIs
  <2> QED
    BY <1>1, <2>2, <2>3
<1>8. CASE CheckRound
  <2> DEFINE S == UNION {Routes(o) : o \in members}
  <2>1. /\ inbox' = Written(S) /\ UNCHANGED transit
        /\ outbox' = [o \in Owners |-> {}]
        /\ quiet' = {r \in members : ~Pending(inbox', r)}
    BY <1>8 DEF CheckRound
  <2>2. S \in SUBSET Copy
    BY AllRoutes
  <2> HIDE DEF S
  <2>3. inbox' \in Boxes
    BY <2>1, <2>2, WrittenIs
  <2>4. ASSUME NEW r \in quiet', NEW x \in Within(inbox') \cup transit' PROVE x.to # r
    <3>1. For(r, transit) = {} /\ \A s \in Owners : inbox'[r][s] = <<>>
      BY <2>1 DEF Pending
    <3>2. CASE x \in Within(inbox')
      <4>1. x.from \in Owners /\ x.id \in Elements(inbox'[x.to][x.from])
        BY <3>2, CopyIs DEF Within
      <4> QED
        BY <3>1, <4>1, NoMailType
    <3>3. CASE x \in transit
      BY <3>1, <3>3 DEF For
    <3> QED
      BY <2>1, <3>2, <3>3
  <2> QED
    BY <2>1, <2>4 DEF QuietInv, Within
<1>9. ASSUME NEW r \in Owners, NEW s \in Owners, Pop(r, s) PROVE QuietInv'
  <2>1. Within(inbox') \subseteq Within(inbox)
    BY <1>9, Popped DEF EachInv
  <2> QED
    BY <1>1, <1>9, <2>1 DEF Pop
<1>10. CASE Stop \/ UNCHANGED vars
  BY <1>1, <1>10 DEF Stop, vars, boxVars, historyVars
<1> QED
  BY <1>2, <1>3, <1>4, <1>5, <1>6, <1>7, <1>8, <1>9, <1>10 DEF Next

(* peek_pending: a team is never declared quiet over mail in an outbox, in *)
(* flight or in an inbox.                                                  *)
THEOREM QuietHolds == Spec => []QuietMeansNoMail
<1>1. Init => QuietInv
  BY DEF Init, QuietInv
<1>2. TypeOK /\ QuietInv => QuietMeansNoMail
  <2> SUFFICES ASSUME TypeOK, QuietInv, NEW r \in quiet
               PROVE  /\ CopiesIn(r) = {} /\ For(r, transit) = {}
                      /\ \A o \in Owners : \A m \in outbox[o] : r \notin Recipients(o, m)
    BY DEF QuietMeansNoMail
  <2>1. r \in Owners
    BY DEF TypeOK
  <2>2. CopiesIn(r) = {} /\ For(r, transit) = {}
    BY <2>1, InboxIs DEF QuietInv, For
  <2>3. \A o \in Owners : \A m \in outbox[o] : r \notin Recipients(o, m)
    BY DEF QuietInv, Recipients
  <2> QED
    BY <2>2, <2>3
<1> QED
  BY <1>1, <1>2, QuietStep, EachHolds, TypeCorrect, PTL DEF Spec

-----------------------------------------------------------------------------
(* A worker that reads by drain_pending takes all that has left the        *)
(* outboxes: what it has not read yet is newer.                            *)
ReadInv ==
  \A y \in read : y.to \notin pops =>
    \A x \in Within(inbox) \cup transit :
      x.to = y.to /\ x.from = y.from => y.id < x.id

LEMMA RoutesNewer ==
  ASSUME TypeOK, Fresh, NEW o \in Owners, NEW x \in Routes(o), NEW y \in routed, x.from = y.from
  PROVE  y.id < x.id
<1>1. PICK m \in outbox[o] : m.id = x.id /\ x.from = o
  BY RoutesAre
<1> QED
  BY <1>1 DEF Fresh

\* The steps that read nothing.
LEMMA ReadKept ==
  ASSUME TypeOK, Fresh, EachInv, ReadInv,
         read' = read, pops \subseteq pops',
         \A x \in Within(inbox') \cup transit' :
           x \in Within(inbox) \cup transit \/ \E o \in Owners : x \in Routes(o)
  PROVE  ReadInv'
<1> SUFFICES ASSUME NEW y \in read, y.to \notin pops,
                    NEW x \in Within(inbox') \cup transit', x.to = y.to, x.from = y.from
             PROVE  y.id < x.id
  BY DEF ReadInv, Within
<1>1. y \in routed
  BY DEF EachInv
<1> QED
  BY <1>1, RoutesNewer DEF ReadInv

LEMMA ReadStep ==
  TypeOK /\ Fresh /\ EachInv /\ ReadInv /\ [Next]_vars =>
    /\ ReadInv'
    /\ \A x \in read' \ read, y \in read :
         x.to = y.to /\ x.from = y.from /\ x.to \notin pops' => y.id < x.id
<1> DEFINE Later == \A x \in read' \ read, y \in read :
              x.to = y.to /\ x.from = y.from /\ x.to \notin pops' => y.id < x.id
<1> SUFFICES ASSUME TypeOK, Fresh, EachInv, ReadInv, [Next]_vars PROVE ReadInv' /\ Later
  OBVIOUS
<1>1. ASSUME UNCHANGED <<inbox, transit, read, pops>> PROVE ReadInv' /\ Later
  BY <1>1, ReadKept
<1>2. ASSUME NEW o \in Owners, Register(o) \/ \E to \in Owners \cup {All} : Send(o, to)
      PROVE  ReadInv' /\ Later
  BY <1>1, <1>2 DEF Register, Send, historyVars
<1>3. ASSUME NEW o \in Owners, Unregister(o) PROVE ReadInv' /\ Later
  <2>1. Within(inbox') \subseteq Within(inbox)
    BY <1>3, Emptied DEF Unregister
  <2> QED
    BY <1>3, <2>1, ReadKept DEF Unregister
<1>4. ASSUME NEW r \in Owners, Drain(r) PROVE ReadInv' /\ Later
  <2>1. Within(inbox') = {x \in Within(inbox) : x.to # r}
    BY <1>4, Emptied DEF Drain
  <2>2. /\ transit' = {x \in transit : x.to # r} /\ pops' = pops
        /\ read' \ read \subseteq {x \in Within(inbox) \cup transit : x.to = r}
        /\ read \subseteq read'
    BY <1>4, InboxIs DEF Drain, Drained, For
  <2>3. Later
    BY <2>2 DEF ReadInv
  <2>4. ReadInv'
    <3> SUFFICES ASSUME NEW y \in read', y.to \notin pops,
                        NEW x \in Within(inbox') \cup transit', x.to = y.to, x.from = y.from
                 PROVE  y.id < x.id
      BY <2>2 DEF ReadInv, Within
    <3>1. x.to # r /\ x \in Within(inbox) \cup transit
      BY <2>1, <2>2
    <3>2. y \in read
      BY <2>2, <3>1
    <3> QED
      BY <3>1, <3>2 DEF ReadInv
  <2> QED
    BY <2>3, <2>4
<1>5. ASSUME NEW r \in Owners, NEW s \in Owners, Pop(r, s) PROVE ReadInv' /\ Later
  <2>1. PICK x \in Within(inbox) :
          /\ x = [id |-> Head(inbox[r][s]), from |-> s, to |-> r]
          /\ Within(inbox') = Within(inbox) \ {x}
    BY <1>5, Popped DEF EachInv
  <2>2. read' = read \cup {x} /\ pops' = pops \cup {r} /\ UNCHANGED transit
    BY <1>5, <2>1 DEF Pop
  <2>3. x.to = r
    BY <2>1
  <2> QED
    BY <2>1, <2>2, <2>3 DEF ReadInv, Within
<1>6. CASE BeginSync \/ BeginFinal \/ \E c \in Collectors : Cancel(c)
  BY <1>1, <1>6 DEF BeginSync, BeginFinal, Cancel, boxVars, historyVars
<1>7. ASSUME NEW c \in Collectors, NEW o \in Owners, Collect(c, o) \/ CollectOne(c, o) PROVE ReadInv' /\ Later
  BY <1>7, ReadKept DEF Collect, CollectOne, TakeOutbox, Note
<1>8. ASSUME NEW c \in Collectors, Deliver(c) PROVE ReadInv' /\ Later
  <2>1. ToWrite(c) \subseteq transit /\ ToWrite(c) \in SUBSET Copy
    BY DEF ToWrite, TypeOK
  <2>2. inbox' = Written(ToWrite(c)) /\ transit' \subseteq transit /\ UNCHANGED <<read, pops>>
    BY <1>8 DEF Deliver
  <2>3. Within(inbox') \subseteq Within(inbox) \cup transit
    BY <2>1, <2>2, WrittenIs
  <2> QED
    BY <2>2, <2>3, ReadKept
<1>9. CASE CheckRound
  <2> DEFINE S == UNION {Routes(o) : o \in members}
  <2>1. inbox' = Written(S) /\ UNCHANGED <<transit, read, pops>>
    BY <1>9 DEF CheckRound
  <2>2. S \in SUBSET Copy /\ \A x \in S : \E o \in Owners : x \in Routes(o)
    BY AllRoutes DEF TypeOK
  <2> HIDE DEF S
  <2>3. Within(inbox') \subseteq Within(inbox) \cup S
    BY <2>1, <2>2, WrittenIs
  <2> QED
    BY <2>1, <2>2, <2>3, ReadKept
<1>10. CASE Stop \/ UNCHANGED vars
  BY <1>1, <1>10 DEF Stop, vars, boxVars, historyVars
<1> QED
  BY <1>2, <1>3, <1>4, <1>5, <1>6, <1>7, <1>8, <1>9, <1>10 DEF Next

(* drain_pending: over all its drains a worker reads each sender's mail in *)
(* the order of sending, although a synchronous collection overtakes mail  *)
(* in flight.                                                              *)
THEOREM DrainsKeepOrderHolds == Spec => DrainsKeepOrder
<1>1. Init => ReadInv
  BY DEF Init, ReadInv
<1> QED
  BY <1>1, ReadStep, EachHolds, TypeCorrect, PTL DEF Spec, DrainsKeepOrder
=============================================================================
