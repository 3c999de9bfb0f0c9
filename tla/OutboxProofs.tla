---------------------------- MODULE OutboxProofs ----------------------------
(***************************************************************************)
(* Proofs, for every number of events, deliveries, overlapping passes and  *)
(* workers, and every limit, that what the outbox and the webhooks say of  *)
(* an event and of a delivery is true, and that messages are not queued    *)
(* without end.                                                            *)
(*                                                                         *)
(* Counts are read, carried about, and written over newer ones, so none of *)
(* them is right.  All that holds is that none is ahead of the facts: the  *)
(* posts and the failed passes there have been.  Counted and Tried say so  *)
(* of the rows and of every copy under way, and that is enough.            *)
(***************************************************************************)
EXTENDS Outbox, FiniteSetTheorems, TLAPS

Posted(d, n) == n <= posts[d] \/ posts[d] = WebhookMaxAttempts

Counted ==
    /\ \A d \in Delivery : Posted(d, attempts[d])
    /\ \A s \in Sender : job[s] # None =>
         /\ Posted(job[s].delivery, job[s].attempts + 1)
         /\ job[s].ok => job[s].delivery \in accepted

HookInv == HookTypeOK /\ OutcomeIsTrue /\ Counted

EventTypeOK ==
    /\ state \in [Event -> {"NONE", "PENDING", "DISPATCHED", "FAILED"}]
    /\ tries \in [Event -> Nat]
    /\ messages \in [Event -> Nat]
    /\ unwanted \subseteq Event
    /\ failures \in [Event -> 0..MaxAttempts]
    /\ list \in [Pass -> SUBSET Copy]
    /\ now \in [Pass -> Copy \union {None}]
    /\ phase \in [Pass -> {"idle", "take", "queue", "send", "fail"}]

Failed(e, n) == n <= failures[e] \/ failures[e] = MaxAttempts

\* Its message is queued or not wanted.
Settled(e) == messages[e] > 0 \/ e \in unwanted

Tried ==
    /\ \A e \in Event : Failed(e, tries[e])
    /\ \A p \in Pass : \A c \in list[p] : Failed(c.event, c.tries)
    /\ \A p \in Pass : phase[p] \in {"queue", "send", "fail"} =>
         now[p] \in Copy /\ Failed(now[p].event, now[p].tries)
    /\ \A p \in Pass : phase[p] = "send" => Settled(now[p].event)

\* The passes about to queue a message for an event: they looked when there
\* was none.
Queueing(e) == {p \in Pass : phase[p] = "queue" /\ now[p].event = e}
Room == \A e \in Event : messages[e] + Cardinality(Queueing(e)) <= Cardinality(Pass)

EventInv == EventTypeOK /\ VerdictIsTrue /\ Tried /\ Room

RestTypeOK ==
    /\ asked \in Event \union {None}
    /\ deaths \in 0..MaxDeaths /\ retries \in 0..MaxRetries

Inv == HookInv /\ EventInv /\ RestTypeOK

-----------------------------------------------------------------------------
(* The deliveries *)

LEMMA HookInitHolds == HookInit => HookInv
  BY SendersAssumption DEF HookInit, HookInv, HookTypeOK, OutcomeIsTrue, Counted, Posted

LEMMA CreateRowHolds ==
  ASSUME HookInv, NEW s \in Sender, NEW d \in Delivery, CreateRow(s, d)
  PROVE  HookInv'
  <1>1. HookTypeOK'
    BY DEF HookInv, HookTypeOK, CreateRow, worldVars
  <1>. QED  BY <1>1 DEF HookInv, HookTypeOK, OutcomeIsTrue, Counted, Posted, CreateRow, worldVars

LEMMA DrainHolds == ASSUME HookInv, NEW s \in Sender, Drain(s)  PROVE HookInv'
  <1>1. HookTypeOK'
    BY DEF HookInv, HookTypeOK, Drain, rowVars, worldVars
  <1>. QED  BY <1>1 DEF HookInv, OutcomeIsTrue, Counted, Posted, Drain, rowVars, worldVars

\* The post that is counted is the one the copy in job will count.
LEMMA PostHolds ==
  ASSUME HookInv, NEW s \in Sender, NEW d \in Delivery, Post(s, d)
  PROVE  HookInv'
  <1>1. PICK taken \in BOOLEAN, ok \in BOOLEAN :
          /\ ok => taken
          /\ accepted' = IF taken THEN accepted \union {d} ELSE accepted
          /\ job' = [job EXCEPT ![s] = [delivery |-> d, attempts |-> attempts[d], ok |-> ok]]
    BY DEF Post
  <1>2. [delivery |-> d, attempts |-> attempts[d], ok |-> ok] \in Job
    BY DEF HookInv, HookTypeOK, Job
  <1>3. /\ posts' \in [Delivery -> 0..WebhookMaxAttempts]
        /\ posts'[d] = WebhookMaxAttempts \/ posts'[d] = posts[d] + 1
        /\ \A e \in Delivery : posts[e] <= posts'[e] /\ posts'[e] <= WebhookMaxAttempts
    BY SendersAssumption DEF HookInv, HookTypeOK, Post
  <1>4. HookTypeOK'
    <2>1. queue' \in [Sender -> SUBSET Delivery]
      BY DEF HookInv, HookTypeOK, Post
    <2>. QED  BY <1>1, <1>2, <1>3, <2>1 DEF HookInv, HookTypeOK, Post, rowVars
  <1>5. OutcomeIsTrue'
    BY <1>1, <1>3, SendersAssumption DEF HookInv, HookTypeOK, OutcomeIsTrue, Post, rowVars
  <1>6. \A e \in Delivery, n \in Nat : Posted(e, n) => Posted(e, n)'
    BY <1>3, SendersAssumption DEF HookInv, HookTypeOK, Posted
  <1>7. Posted(d, attempts[d] + 1)'
    BY <1>3, SendersAssumption DEF HookInv, HookTypeOK, Counted, Posted, Post, rowVars
  <1>8. Counted'
    <2>1. ASSUME NEW e \in Delivery  PROVE Posted(e, attempts[e])'
      BY <1>6 DEF HookInv, HookTypeOK, Counted, Post, rowVars, Posted
    <2>2. ASSUME NEW t \in Sender, job'[t] # None
          PROVE  /\ Posted(job[t].delivery, job[t].attempts + 1)'
                 /\ job'[t].ok => job'[t].delivery \in accepted'
      <3>1. CASE t = s
        <4>1. job'[s] = [delivery |-> d, attempts |-> attempts[d], ok |-> ok] /\ attempts' = attempts
          BY <1>1 DEF HookInv, HookTypeOK, Post, rowVars
        <4>. QED  BY <3>1, <4>1, <1>1, <1>7 DEF Posted
      <3>2. CASE t # s
        <4>1. job'[t] = job[t] /\ job[t] \in Job
          BY <3>2, <2>2, <1>1 DEF HookInv, HookTypeOK
        <4>2. Posted(job[t].delivery, job[t].attempts + 1)'
          BY <4>1, <2>2, <1>6 DEF HookInv, Counted, Job, Posted
        <4>. QED  BY <4>1, <4>2, <2>2, <1>1 DEF HookInv, Counted
      <3>. QED  BY <3>1, <3>2
    <2>. QED  BY <2>1, <2>2 DEF Counted
  <1>. QED  BY <1>4, <1>5, <1>8 DEF HookInv

LEMMA RecordHolds == ASSUME HookInv, NEW s \in Sender, Record(s)  PROVE HookInv'
  <1> DEFINE d == job[s].delivery
             n == job[s].attempts + 1
  <1>1. /\ d \in Delivery /\ n \in Nat /\ job[s] # None
        /\ Posted(d, n) /\ (job[s].ok => d \in accepted)
        /\ attempts' = [attempts EXCEPT ![d] = n]
        /\ \/ job[s].ok /\ row' = [row EXCEPT ![d] = "OK"]
           \/ row' = IF n >= WebhookMaxAttempts THEN [row EXCEPT ![d] = "FAILED"] ELSE row
        /\ job' = [job EXCEPT ![s] = None]
        /\ UNCHANGED <<worldVars, queue, judged>>
    BY DEF HookInv, HookTypeOK, Record, Counted, Job
  <1>. HIDE DEF d, n
  <1>2. HookTypeOK'
    BY <1>1 DEF HookInv, HookTypeOK, worldVars
  <1>3. OutcomeIsTrue'
    BY <1>1, SendersAssumption DEF HookInv, HookTypeOK, OutcomeIsTrue, Posted, worldVars
  <1>4. Counted'
    BY <1>1 DEF HookInv, HookTypeOK, Counted, Posted, worldVars
  <1>. QED  BY <1>2, <1>3, <1>4 DEF HookInv

LEMMA LoseHolds == ASSUME HookInv, NEW s \in Sender, LoseOutcome(s)  PROVE HookInv'
  <1>1. HookTypeOK'
    BY DEF HookInv, HookTypeOK, LoseOutcome, rowVars, worldVars
  <1>. QED  BY <1>1 DEF HookInv, HookTypeOK, OutcomeIsTrue, Counted, Posted, LoseOutcome, rowVars, worldVars

LEMMA AdminHolds ==
  ASSUME HookInv, (\E d \in Delivery : JudgeDelivery(d)) \/ RetryDelivery
  PROVE  HookInv'
  <1>1. ASSUME NEW d \in Delivery, JudgeDelivery(d)  PROVE HookInv'
    <2>1. HookTypeOK'
      BY <1>1 DEF HookInv, HookTypeOK, JudgeDelivery, rowVars, worldVars
    <2>. QED  BY <1>1, <2>1 DEF HookInv, OutcomeIsTrue, Counted, Posted, JudgeDelivery, rowVars, worldVars
  <1>2. CASE RetryDelivery
    <2>1. HookTypeOK'
      BY <1>2 DEF HookInv, HookTypeOK, RetryDelivery, worldVars
    <2>. QED  BY <1>2, <2>1 DEF HookInv, HookTypeOK, OutcomeIsTrue, Counted, Posted, RetryDelivery, worldVars
  <1>. QED  BY <1>1, <1>2

LEMMA DropHolds == ASSUME HookInv, NEW s \in Sender, DropSender(s)  PROVE HookInv'
  <1>1. HookTypeOK'
    BY DEF HookInv, HookTypeOK, DropSender, rowVars, worldVars
  <1>. QED  BY <1>1 DEF HookInv, HookTypeOK, OutcomeIsTrue, Counted, Posted, DropSender, rowVars, worldVars

LEMMA HookStutter == ASSUME HookInv, UNCHANGED hookVars  PROVE HookInv'
  BY DEF HookInv, HookTypeOK, OutcomeIsTrue, Counted, Posted, hookVars, rowVars, worldVars

LEMMA SenderHolds == ASSUME HookInv, NEW s \in Sender, SenderStep(s)  PROVE HookInv'
  BY DrainHolds, PostHolds, RecordHolds, LoseHolds DEF SenderStep

-----------------------------------------------------------------------------
(* The events *)

\* What an event step leaves to the rest of the system does not matter here:
\* EventInv speaks of eventVars, factVars and passVars alone.
LEMMA EventStutter ==
  ASSUME EventInv, UNCHANGED <<eventVars, factVars, passVars>>
  PROVE  EventInv'
  <1>1. EventTypeOK'
    BY DEF EventInv, EventTypeOK, eventVars, factVars, passVars
  <1>2. VerdictIsTrue' /\ Tried'
    BY DEF EventInv, VerdictIsTrue, Tried, Failed, Settled, eventVars, factVars, passVars
  <1>3. Room'
    BY DEF EventInv, Room, Queueing, eventVars, factVars, passVars
  <1>. QED  BY <1>1, <1>2, <1>3 DEF EventInv

LEMMA FinitePasses ==
  /\ IsFiniteSet(Pass) /\ Cardinality(Pass) \in Nat
  /\ \A S \in SUBSET Pass : /\ IsFiniteSet(S) /\ Cardinality(S) \in Nat
                            /\ Cardinality(S) <= Cardinality(Pass)
  /\ \A S, T \in SUBSET Pass : S \subseteq T => Cardinality(S) <= Cardinality(T)
  /\ \A S \in SUBSET Pass : \A p \in S : Cardinality(S \ {p}) = Cardinality(S) - 1
  <1>1. IsFiniteSet(Pass)
    BY OutboxAssumption
  <1>2. \A S \in SUBSET Pass : IsFiniteSet(S) /\ Cardinality(S) <= Cardinality(Pass)
    BY <1>1, FS_Subset
  <1>3. \A S \in SUBSET Pass : Cardinality(S) \in Nat
    BY <1>2, FS_CardinalityType
  <1>4. \A S, T \in SUBSET Pass : S \subseteq T => Cardinality(S) <= Cardinality(T)
    BY <1>2, FS_Subset
  <1>5. ASSUME NEW S \in SUBSET Pass, NEW p \in S
        PROVE  Cardinality(S \ {p}) = Cardinality(S) - 1
    <2>1. IsFiniteSet(S)
      BY <1>2
    <2>. QED  BY <2>1, FS_RemoveElement
  <1>. QED  BY <1>1, <1>2, <1>3, <1>4, <1>5

\* No message is queued and no pass takes up one to queue.
LEMMA RoomKept ==
  ASSUME EventInv, UNCHANGED messages,
         \A e \in Event : Queueing(e)' \subseteq Queueing(e)
  PROVE  Room'
  <1>1. ASSUME NEW e \in Event
        PROVE  messages'[e] + Cardinality(Queueing(e)') <= Cardinality(Pass)
    <2> DEFINE S == Queueing(e)'
               T == Queueing(e)
    <2>1. S \in SUBSET Pass /\ T \in SUBSET Pass /\ S \subseteq T
      BY DEF Queueing
    <2>2. messages[e] + Cardinality(T) <= Cardinality(Pass) /\ messages[e] \in Nat
      BY DEF EventInv, Room, EventTypeOK
    <2>. HIDE DEF S, T
    <2>3. Cardinality(S) <= Cardinality(T) /\ Cardinality(S) \in Nat /\ Cardinality(T) \in Nat
      BY <2>1, FinitePasses
    <2>4. messages[e] + Cardinality(S) <= Cardinality(Pass)
      BY <2>2, <2>3, FinitePasses
    <2>. QED  BY <2>4 DEF S
  <1>. QED  BY <1>1 DEF Room

LEMMA EventInitHolds == Init => EventInv
  <1>. SUFFICES ASSUME Init PROVE EventInv
    OBVIOUS
  <1>1. EventTypeOK
    BY OutboxAssumption DEF Init, EventTypeOK
  <1>2. VerdictIsTrue /\ Tried
    BY OutboxAssumption DEF Init, VerdictIsTrue, Tried, Failed, Settled
  <1>3. ASSUME NEW e \in Event  PROVE messages[e] + Cardinality(Queueing(e)) <= Cardinality(Pass)
    <2>1. Queueing(e) \in SUBSET Pass
      BY DEF Queueing
    <2>2. Cardinality(Queueing(e)) <= Cardinality(Pass) /\ Cardinality(Queueing(e)) \in Nat
      BY <2>1, FinitePasses
    <2>. QED  BY <2>2 DEF Init
  <1>. QED  BY <1>1, <1>2, <1>3 DEF EventInv, Room

LEMMA PublishHolds == ASSUME EventInv, NEW e \in Event, Publish(e)  PROVE EventInv'
  <1>1. EventTypeOK' /\ VerdictIsTrue' /\ Tried'
    BY DEF EventInv, EventTypeOK, VerdictIsTrue, Tried, Failed, Settled, Publish, factVars, passVars
  <1>2. Room'
    BY RoomKept DEF Publish, Queueing, factVars, passVars
  <1>. QED  BY <1>1, <1>2 DEF EventInv

LEMMA PollHolds == ASSUME EventInv, NEW p \in Pass, Poll(p)  PROVE EventInv'
  <1> DEFINE Found == {[event |-> e, tries |-> tries[e]] : e \in {e \in Event : state[e] = "PENDING"}}
  <1>1. /\ Found \subseteq Copy
        /\ \A c \in Found : Failed(c.event, c.tries)
    BY DEF EventInv, EventTypeOK, Tried, Copy
  <1>2. /\ list' = [list EXCEPT ![p] = Found]
        /\ phase' = [phase EXCEPT ![p] = "take"]
        /\ UNCHANGED <<eventVars, factVars, now>>
    BY DEF Poll, Go
  <1>. HIDE DEF Found
  <1>3. EventTypeOK'
    BY <1>1, <1>2 DEF EventInv, EventTypeOK, eventVars, factVars
  <1>4. VerdictIsTrue'
    BY <1>2 DEF EventInv, VerdictIsTrue, eventVars, factVars
  <1>5. Tried'
    BY <1>1, <1>2 DEF EventInv, EventTypeOK, Tried, Failed, Settled, eventVars, factVars
  <1>6. Room'
    <2>1. \A e \in Event : Queueing(e)' \subseteq Queueing(e)
      BY <1>2 DEF EventInv, EventTypeOK, Queueing
    <2>. QED  BY <2>1, <1>2, RoomKept DEF factVars
  <1>. QED  BY <1>3, <1>4, <1>5, <1>6 DEF EventInv

\* A pass that takes up an event to queue its message has seen none: there is
\* room for all passes at once.
LEMMA TakeHolds ==
  ASSUME EventInv, NEW p \in Pass, NEW c \in list[p], Take(p, c)
  PROVE  EventInv'
  <1>1. /\ c \in Copy /\ c.event \in Event /\ Failed(c.event, c.tries)
    BY DEF EventInv, EventTypeOK, Tried, Copy
  <1>2. PICK ph \in {"queue", "send", "fail"} :
          /\ phase' = [phase EXCEPT ![p] = ph]
          /\ ph = "queue" => messages[c.event] = 0
          /\ ph = "send" => messages[c.event] # 0 \/ c.event \in unwanted'
          /\ unwanted' = unwanted \/ unwanted' = unwanted \union {c.event}
    BY DEF Take, Go
  <1>3. /\ list' = [list EXCEPT ![p] = @ \ {c}]
        /\ now' = [now EXCEPT ![p] = c]
        /\ UNCHANGED <<eventVars, messages, failures>>
    BY DEF Take
  <1>4. EventTypeOK'
    BY <1>1, <1>2, <1>3 DEF EventInv, EventTypeOK, eventVars, factVars
  <1>5. VerdictIsTrue'
    BY <1>2, <1>3 DEF EventInv, VerdictIsTrue, eventVars
  <1>6. Tried'
    <2>1. \A e \in Event : Failed(e, tries[e])'
      BY <1>3 DEF EventInv, Tried, Failed, Settled, eventVars, factVars
    <2>2. \A q \in Pass : \A k \in list'[q] : Failed(k.event, k.tries)'
      BY <1>3 DEF EventInv, EventTypeOK, Tried, Failed, Settled, factVars
    <2>3. ASSUME NEW q \in Pass, phase'[q] \in {"queue", "send", "fail"}
          PROVE  /\ now'[q] \in Copy /\ Failed(now[q].event, now[q].tries)'
                 /\ phase'[q] = "send" => Settled(now[q].event)'
      <3>1. CASE q = p
        <4>1. now'[q] = c /\ phase'[q] = ph
          BY <3>1, <1>2, <1>3 DEF EventInv, EventTypeOK
        <4>2. messages'[c.event] \in Nat /\ Failed(c.event, c.tries)'
          BY <1>1, <1>3 DEF EventInv, EventTypeOK, Failed
        <4>. QED  BY <4>1, <4>2, <1>1, <1>2, <1>3 DEF Failed, Settled
      <3>2. CASE q # p
        BY <3>2, <2>3, <1>2, <1>3 DEF EventInv, EventTypeOK, Tried, Failed, Settled, factVars
      <3>. QED  BY <3>1, <3>2
    <2>. QED  BY <2>1, <2>2, <2>3 DEF Tried
  <1>7. Room'
    <2>1. CASE ph = "queue"
      <3>1. ASSUME NEW e \in Event, e # c.event
            PROVE  messages'[e] + Cardinality(Queueing(e)') <= Cardinality(Pass)
        <4>1. Queueing(e)' \subseteq Queueing(e) /\ Queueing(e) \in SUBSET Pass
          BY <3>1, <1>2, <1>3 DEF EventInv, EventTypeOK, Queueing
        <4>2. Cardinality(Queueing(e)') <= Cardinality(Queueing(e))
              /\ Cardinality(Queueing(e)') \in Nat /\ Cardinality(Queueing(e)) \in Nat
          <5> DEFINE S == Queueing(e)'
                     T == Queueing(e)
          <5>1. S \in SUBSET Pass /\ T \in SUBSET Pass /\ S \subseteq T
            BY <4>1
          <5>. HIDE DEF S, T
          <5>2. Cardinality(S) <= Cardinality(T) /\ Cardinality(S) \in Nat /\ Cardinality(T) \in Nat
            BY <5>1, FinitePasses
          <5>. QED  BY <5>2 DEF S, T
        <4>. QED  BY <4>2, <1>3, FinitePasses DEF EventInv, EventTypeOK, Room, factVars
      <3>2. messages'[c.event] + Cardinality(Queueing(c.event)') <= Cardinality(Pass)
        <4> DEFINE S == Queueing(c.event)'
        <4>1. S \in SUBSET Pass
          BY DEF Queueing
        <4>. HIDE DEF S
        <4>2. Cardinality(S) <= Cardinality(Pass) /\ Cardinality(S) \in Nat
          BY <4>1, FinitePasses
        <4>3. messages'[c.event] = 0
          BY <2>1, <1>2, <1>3 DEF factVars
        <4>4. 0 + Cardinality(S) <= Cardinality(Pass)
          BY <4>2
        <4>. QED  BY <4>3, <4>4 DEF S
      <3>. QED  BY <3>1, <3>2 DEF Room
    <2>2. CASE ph # "queue"
      <3>1. \A e \in Event : Queueing(e)' \subseteq Queueing(e)
        BY <2>2, <1>2, <1>3 DEF EventInv, EventTypeOK, Queueing
      <3>. QED  BY <3>1, <1>3, RoomKept DEF factVars
    <2>. QED  BY <2>1, <2>2
  <1>. QED  BY <1>4, <1>5, <1>6, <1>7 DEF EventInv

\* The pass that queues a message is one of those that had room to.
LEMMA QueueHolds == ASSUME EventInv, NEW p \in Pass, Queue(p)  PROVE EventInv'
  <1>0. phase[p] = "queue" /\ now[p] \in Copy /\ Failed(now[p].event, now[p].tries)
    BY DEF EventInv, Tried, Queue
  <1>. PICK c \in Copy : c = now[p]
    BY <1>0
  <1>1. /\ phase[p] = "queue" /\ c = now[p] /\ c.event \in Event /\ Failed(c.event, c.tries)
        /\ UNCHANGED <<eventVars, unwanted, failures, list, now>>
    BY <1>0 DEF Queue, Copy
  <1>2. CASE messages' = [messages EXCEPT ![c.event] = @ + 1] /\ phase' = [phase EXCEPT ![p] = "send"]
    <2>1. EventTypeOK'
      BY <1>1, <1>2 DEF EventInv, EventTypeOK, eventVars
    <2>2. \A e \in Event : messages'[e] >= messages[e]
      BY <1>1, <1>2 DEF EventInv, EventTypeOK
    <2>3. VerdictIsTrue'
      BY <1>1, <1>2 DEF EventInv, EventTypeOK, VerdictIsTrue, eventVars
    <2>4. Tried'
      <3>1. c = now[p]
        BY <1>1
      <3>2. messages'[c.event] > 0 /\ now' = now /\ Copy = Copy'
        BY <1>1, <1>2 DEF EventInv, EventTypeOK, Copy
      <3>3. \A q \in Pass : phase'[q] = "send" => Settled(now[q].event)'
        <4>1. ASSUME NEW q \in Pass, q # p, phase'[q] = "send"
              PROVE  Settled(now[q].event)'
          <5>1. Settled(now[q].event) /\ now[q].event \in Event
            BY <4>1, <1>2 DEF EventInv, EventTypeOK, Tried, Copy
          <5>2. messages[now[q].event] \in Nat /\ messages'[now[q].event] \in Nat
            BY <5>1, <2>1 DEF EventInv, EventTypeOK
          <5>. QED  BY <5>1, <5>2, <2>2, <1>1, <3>2 DEF Settled
        <4>. QED  BY <4>1, <3>1, <3>2, <1>1 DEF Settled
      <3>. QED  BY <1>1, <1>2, <3>1, <3>3 DEF EventInv, EventTypeOK, Tried, Failed, Settled, eventVars
    <2>5. Room'
      <3>1. ASSUME NEW e \in Event, e # c.event
            PROVE  messages'[e] + Cardinality(Queueing(e)') <= Cardinality(Pass)
        <4>1. Queueing(e)' = Queueing(e)
          BY <3>1, <1>1, <1>2 DEF EventInv, EventTypeOK, Queueing
        <4>. QED  BY <3>1, <4>1, <1>2 DEF EventInv, EventTypeOK, Room
      <3>2. messages'[c.event] + Cardinality(Queueing(c.event)') <= Cardinality(Pass)
        <4> DEFINE S == Queueing(c.event)
        <4>1. Queueing(c.event)' = S \ {p} /\ p \in S /\ S \in SUBSET Pass
          BY <1>1, <1>2 DEF EventInv, EventTypeOK, Queueing
        <4>2. messages[c.event] + Cardinality(S) <= Cardinality(Pass)
          BY <1>1 DEF EventInv, Room
        <4>. HIDE DEF S
        <4>3. /\ Cardinality(S \ {p}) = Cardinality(S) - 1
              /\ Cardinality(S) \in Nat /\ Cardinality(Pass) \in Nat
          BY <4>1, FinitePasses
        <4>4. messages'[c.event] = messages[c.event] + 1 /\ messages[c.event] \in Nat
          BY <1>1, <1>2 DEF EventInv, EventTypeOK
        <4>5. messages'[c.event] + Cardinality(S \ {p}) <= Cardinality(Pass)
          BY <4>2, <4>3, <4>4
        <4>. QED  BY <4>1, <4>5
      <3>. QED  BY <3>1, <3>2 DEF Room
    <2>. QED  BY <2>1, <2>3, <2>4, <2>5 DEF EventInv
  <1>3. CASE phase' = [phase EXCEPT ![p] = "fail"] /\ UNCHANGED messages
    <2>1. EventTypeOK' /\ VerdictIsTrue' /\ Tried'
      BY <1>1, <1>3 DEF EventInv, EventTypeOK, VerdictIsTrue, Tried, Failed, Settled, eventVars
    <2>2. \A e \in Event : Queueing(e)' \subseteq Queueing(e)
      BY <1>1, <1>3 DEF EventInv, EventTypeOK, Queueing
    <2>. QED  BY <2>1, <2>2, <1>3, RoomKept DEF EventInv
  <1>. QED  BY <1>1, <1>2, <1>3 DEF Queue, Go

LEMMA FanOutHolds == ASSUME EventInv, NEW p \in Pass, FanOut(p)  PROVE EventInv'
  BY EventStutter DEF FanOut

\* A pass that has finished an event goes to the next, or rests.
LEMMA DoneFacts ==
  ASSUME EventInv, NEW p \in Pass, Done(p), phase[p] # "queue"
  PROVE  /\ list' = list /\ now' \in [Pass -> Copy \union {None}] /\ now'[p] = None
         /\ phase' \in [Pass -> {"idle", "take", "queue", "send", "fail"}]
         /\ phase'[p] \in {"idle", "take"}
         /\ \A q \in Pass : q # p => now'[q] = now[q] /\ phase'[q] = phase[q]
         /\ \A e \in Event : Queueing(e)' \subseteq Queueing(e)
  <1>1. /\ list' = list /\ now' = [now EXCEPT ![p] = None]
        /\ phase' = [phase EXCEPT ![p] = IF list[p] = {} THEN "idle" ELSE "take"]
    BY DEF Done, Go
  <1>2. now' \in [Pass -> Copy \union {None}]
        /\ phase' \in [Pass -> {"idle", "take", "queue", "send", "fail"}]
    BY <1>1 DEF EventInv, EventTypeOK
  <1>3. \A q \in Pass : q # p => now'[q] = now[q] /\ phase'[q] = phase[q]
    BY <1>1 DEF EventInv, EventTypeOK
  <1>4. now'[p] = None /\ phase'[p] \in {"idle", "take"}
    BY <1>1 DEF EventInv, EventTypeOK
  <1>. QED  BY <1>1, <1>2, <1>3, <1>4 DEF Queueing

LEMMA MarkHolds == ASSUME EventInv, NEW p \in Pass, Mark(p)  PROVE EventInv'
  <1> DEFINE e == now[p].event
  <1>1. /\ phase[p] = "send" /\ e \in Event /\ Settled(e) /\ UNCHANGED <<tries, factVars>>
    BY DEF EventInv, Tried, Mark, Copy
  <1>2. CASE state' = [state EXCEPT ![e] = "DISPATCHED"] /\ Done(p)
    <2>. HIDE DEF e
    <2>1. EventTypeOK'
      BY <1>1, <1>2, DoneFacts DEF EventInv, EventTypeOK, factVars
    <2>2. VerdictIsTrue'
      BY <1>1, <1>2 DEF EventInv, EventTypeOK, VerdictIsTrue, Settled, factVars
    <2>3. Tried'
      BY <1>1, <1>2, DoneFacts DEF EventInv, Tried, Failed, Settled, factVars
    <2>4. Room'
      BY <1>1, <1>2, DoneFacts, RoomKept DEF factVars
    <2>. QED  BY <2>1, <2>2, <2>3, <2>4 DEF EventInv
  <1>3. CASE phase' = [phase EXCEPT ![p] = "fail"] /\ UNCHANGED <<state, list, now>>
    <2>1. EventTypeOK' /\ VerdictIsTrue' /\ Tried'
      BY <1>1, <1>3 DEF EventInv, EventTypeOK, VerdictIsTrue, Tried, Failed, Settled, factVars
    <2>2. \A k \in Event : Queueing(k)' \subseteq Queueing(k)
      BY <1>1, <1>3 DEF EventInv, EventTypeOK, Queueing
    <2>. QED  BY <1>1, <2>1, <2>2, RoomKept DEF EventInv, factVars
  <1>. QED  BY <1>2, <1>3 DEF Mark, Go

\* The failure that is counted is the one the copy in hand will count.
LEMMA FailEventHolds == ASSUME EventInv, NEW p \in Pass, FailEvent(p)  PROVE EventInv'
  <1>0. phase[p] = "fail" /\ now[p] \in Copy /\ Failed(now[p].event, now[p].tries)
    BY DEF EventInv, Tried, FailEvent
  <1>. PICK e \in Event, n \in Nat : e = now[p].event /\ n = now[p].tries + 1
    BY <1>0 DEF Copy
  <1>1. /\ phase[p] = "fail" /\ e \in Event /\ n \in Nat /\ n > 0 /\ Failed(e, n - 1)
        /\ tries' = [tries EXCEPT ![e] = n]
        /\ state' = [state EXCEPT ![e] = IF n >= MaxAttempts THEN "FAILED" ELSE "PENDING"]
        /\ failures' = IF failures[e] = MaxAttempts THEN failures ELSE [failures EXCEPT ![e] = @ + 1]
        /\ Done(p) /\ UNCHANGED <<messages, unwanted>>
    BY <1>0 DEF FailEvent, Copy
  <1>2. /\ failures' \in [Event -> 0..MaxAttempts]
        /\ \A k \in Event : failures[k] <= failures'[k] /\ failures'[k] <= MaxAttempts
        /\ Failed(e, n)'
    <2>1. failures' \in [Event -> 0..MaxAttempts]
      BY <1>1, OutboxAssumption DEF EventInv, EventTypeOK
    <2>2. \A k \in Event : failures[k] <= failures'[k] /\ failures'[k] <= MaxAttempts
      BY <1>1, <2>1, OutboxAssumption DEF EventInv, EventTypeOK
    <2>3. failures'[e] = MaxAttempts \/ failures'[e] = failures[e] + 1
      BY <1>1 DEF EventInv, EventTypeOK
    <2>4. n <= failures'[e] \/ failures'[e] = MaxAttempts
      BY <1>1, <2>2, <2>3, OutboxAssumption DEF EventInv, EventTypeOK, Failed
    <2>. QED  BY <2>1, <2>2, <2>4 DEF Failed
  <1>3. EventTypeOK'
    BY <1>1, <1>2, DoneFacts DEF EventInv, EventTypeOK
  <1>4. VerdictIsTrue'
    BY <1>1, <1>2, OutboxAssumption DEF EventInv, EventTypeOK, VerdictIsTrue, Failed
  <1>5. \A k \in Event, m \in Nat : Failed(k, m) => Failed(k, m)'
    BY <1>2, OutboxAssumption DEF EventInv, EventTypeOK, Failed
  <1>6. Tried'
    <2>1. \A k \in Event : Failed(k, tries[k])'
      BY <1>1, <1>2, <1>5 DEF EventInv, EventTypeOK, Tried, Failed, Settled
    <2>2. ASSUME NEW q \in Pass, NEW c \in list'[q]  PROVE Failed(c.event, c.tries)'
      <3>1. c \in Copy /\ Failed(c.event, c.tries)
        BY <1>1, DoneFacts DEF EventInv, EventTypeOK, Tried
      <3>. QED  BY <3>1, <1>5 DEF Copy
    <2>3. ASSUME NEW q \in Pass, phase'[q] \in {"queue", "send", "fail"}
          PROVE  /\ now'[q] \in Copy /\ Failed(now[q].event, now[q].tries)'
                 /\ phase'[q] = "send" => Settled(now[q].event)'
      <3>1. q # p /\ now'[q] = now[q] /\ phase'[q] = phase[q]
        BY <2>3, <1>1, DoneFacts
      <3>2. now[q] \in Copy /\ Failed(now[q].event, now[q].tries)
            /\ (phase[q] = "send" => Settled(now[q].event))
        BY <2>3, <3>1 DEF EventInv, Tried
      <3>3. Failed(now[q].event, now[q].tries)'
        <4>1. PICK k \in Event, m \in Nat : k = now[q].event /\ m = now[q].tries
          BY <3>2 DEF Copy
        <4>2. Failed(k, m)'
          BY <3>2, <4>1, <1>5
        <4>. QED  BY <3>1, <4>1, <4>2 DEF Failed
      <3>. QED  BY <3>1, <3>2, <3>3, <1>1 DEF Settled
    <2>. QED  BY <2>1, <2>2, <2>3 DEF Tried
  <1>7. Room'
    BY <1>1, DoneFacts, RoomKept
  <1>. QED  BY <1>3, <1>4, <1>6, <1>7 DEF EventInv

LEMMA RetryHolds == ASSUME EventInv, asked \in Event \union {None}, RetryEvent  PROVE EventInv'
  <1>1. EventTypeOK' /\ VerdictIsTrue' /\ Tried'
    BY DEF EventInv, EventTypeOK, VerdictIsTrue, Tried, Failed, Settled, RetryEvent, factVars, passVars
  <1>2. Room'
    BY RoomKept DEF RetryEvent, Queueing, factVars, passVars
  <1>. QED  BY <1>1, <1>2 DEF EventInv

LEMMA DieHolds ==
  ASSUME EventInv, NEW s \in Sender, Die(s)
  PROVE  EventInv'
  <1>1. CASE s \in Pass
    <2>1. /\ list' = [list EXCEPT ![s] = {}] /\ now' = [now EXCEPT ![s] = None]
          /\ phase' = [phase EXCEPT ![s] = "idle"] /\ UNCHANGED <<eventVars, factVars>>
      BY <1>1 DEF Die, Go
    <2>2. EventTypeOK'
      BY <2>1 DEF EventInv, EventTypeOK, eventVars, factVars
    <2>3. VerdictIsTrue' /\ Tried'
      BY <2>1 DEF EventInv, EventTypeOK, VerdictIsTrue, Tried, Failed, Settled, eventVars, factVars
    <2>4. \A e \in Event : Queueing(e)' \subseteq Queueing(e)
      BY <2>1 DEF EventInv, EventTypeOK, Queueing
    <2>. QED  BY <2>1, <2>2, <2>3, <2>4, RoomKept DEF EventInv, factVars
  <1>2. CASE s \notin Pass
    BY <1>2, EventStutter DEF Die
  <1>. QED  BY <1>1, <1>2

-----------------------------------------------------------------------------
(* The theorems *)

LEMMA InitHolds == Init => Inv
  <1>. SUFFICES ASSUME Init PROVE Inv
    OBVIOUS
  <1>1. RestTypeOK
    BY OutboxAssumption DEF Init, RestTypeOK
  <1>. QED  BY <1>1, HookInitHolds, EventInitHolds DEF Init, Inv

LEMMA PassHolds == ASSUME Inv, NEW p \in Pass, PassStep(p)  PROVE Inv'
  <1>1. EventInv'
    BY PollHolds, TakeHolds, QueueHolds, FanOutHolds, MarkHolds, FailEventHolds DEF Inv, PassStep
  <1>2. HookInv'
    <2>1. CASE FanOut(p)
      BY <2>1, CreateRowHolds, OutboxAssumption DEF Inv, FanOut
    <2>2. CASE ~FanOut(p)
      BY <2>2, HookStutter DEF Inv, PassStep, Poll, Take, Queue, Mark, FailEvent
    <2>. QED  BY <2>1, <2>2
  <1>3. RestTypeOK'
    BY DEF Inv, RestTypeOK, PassStep, Poll, Take, Queue, FanOut, Mark, FailEvent, boundVars
  <1>. QED  BY <1>1, <1>2, <1>3 DEF Inv

LEMMA NextHolds == Inv /\ [Next]_vars => Inv'
  <1>. SUFFICES ASSUME Inv, [Next]_vars PROVE Inv'
    OBVIOUS
  <1>1. ASSUME NEW e \in Event, Publish(e)  PROVE Inv'
    <2>1. RestTypeOK'
      BY <1>1 DEF Inv, RestTypeOK, Publish, boundVars
    <2>. QED  BY <1>1, <2>1, PublishHolds, HookStutter DEF Inv, Publish
  <1>2. ASSUME NEW p \in Pass, PassStep(p)  PROVE Inv'
    BY <1>2, PassHolds
  <1>3. ASSUME NEW s \in Sender, Sending(s)  PROVE Inv'
    <2>1. RestTypeOK'
      BY <1>3 DEF Inv, RestTypeOK, Sending, boundVars
    <2>. QED  BY <1>3, <2>1, SenderHolds, EventStutter DEF Inv, Sending
  <1>4. ASSUME NEW s \in Sender, Die(s)  PROVE Inv'
    <2>1. RestTypeOK'
      BY <1>4, OutboxAssumption DEF Inv, RestTypeOK, Die
    <2>. QED  BY <1>4, <2>1, DieHolds, DropHolds DEF Inv, Die
  <1>5. CASE Ask
    <2>1. RestTypeOK'
      BY <1>5, OutboxAssumption DEF Inv, RestTypeOK, Ask
    <2>2. HookInv'
      BY <1>5, AdminHolds, HookStutter DEF Inv, Ask
    <2>. QED  BY <1>5, <2>1, <2>2, EventStutter DEF Inv, Ask
  <1>6. CASE RetryEvent
    <2>1. RestTypeOK'
      BY <1>6 DEF Inv, RestTypeOK, RetryEvent, boundVars
    <2>. QED  BY <1>6, <2>1, RetryHolds, HookStutter DEF Inv, RestTypeOK, RetryEvent
  <1>7. CASE Retrying
    <2>1. RestTypeOK'
      BY <1>7 DEF Inv, RestTypeOK, Retrying, boundVars
    <2>. QED  BY <1>7, <2>1, AdminHolds, EventStutter DEF Inv, Retrying
  <1>8. CASE UNCHANGED vars
    <2>1. RestTypeOK'
      BY <1>8 DEF Inv, RestTypeOK, vars, boundVars
    <2>. QED  BY <1>8, <2>1, HookStutter, EventStutter DEF Inv, vars
  <1>. QED  BY <1>1, <1>2, <1>3, <1>4, <1>5, <1>6, <1>7, <1>8 DEF Next

THEOREM Invariant == Spec => []Inv
  <1>. QED  BY InitHolds, NextHolds, PTL DEF Spec

\* Every row, copy and post under way has a value the code could have given
\* it.  (TypeOK of event-bus.service.ts and webhooks.service.ts)
THEOREM OutboxTypeCorrect == Spec => []TypeOK
  <1>1. Inv => TypeOK
    BY DEF Inv, HookInv, EventInv, EventTypeOK, RestTypeOK, TypeOK
  <1>. QED  BY <1>1, Invariant, PTL

\* OK on a delivery means the endpoint has taken it, FAILED that it was posted
\* as often as the limit says, however senders overlap (attempt).
THEOREM OutcomesAreTrue == Spec => []OutcomeIsTrue
  <1>1. Inv => OutcomeIsTrue
    BY DEF Inv, HookInv
  <1>. QED  BY <1>1, Invariant, PTL

\* DISPATCHED on an event means its message is queued or was found not to be
\* wanted, FAILED that as many passes failed on it as the limit says (drainOnce).
THEOREM VerdictsAreTrue == Spec => []VerdictIsTrue
  <1>1. Inv => VerdictIsTrue
    BY DEF Inv, EventInv
  <1>. QED  BY <1>1, Invariant, PTL

\* An event has never more messages than passes can run at a time: the
\* handlers look before they create, whatever is retried and dies.
THEOREM MessagesStayBounded == Spec => []MessagesBounded
  <1>1. Inv => MessagesBounded
    <2>. SUFFICES ASSUME Inv, NEW e \in Event  PROVE messages[e] <= Cardinality(Pass)
      BY DEF MessagesBounded
    <2>1. Queueing(e) \in SUBSET Pass
      BY DEF Queueing
    <2>2. Cardinality(Queueing(e)) \in Nat
      BY <2>1, FinitePasses
    <2>. QED  BY <2>2, FinitePasses DEF Inv, EventInv, EventTypeOK, Room
  <1>. QED  BY <1>1, Invariant, PTL
=============================================================================
