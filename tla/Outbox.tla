------------------------------- MODULE Outbox -------------------------------
(***************************************************************************)
(* The transactional outbox (events/event-bus.service.ts): events that     *)
(* transactions of the shop leave behind are handled by passes of a timer, *)
(* fanned out to the webhooks (module Webhooks), and marked.  A timer does *)
(* not wait for its last pass, and every server process has one, so passes *)
(* overlap: Pass is a set of them.                                         *)
(*                                                                         *)
(* list[p] are the rows pass p has read and not yet handled, now[p] the    *)
(* one in hand; both keep the number of attempts as it was read.           *)
(* availableAt only says "not yet": it is left open how long that is.      *)
(*                                                                         *)
(* An event stands for one whose handler queues a text message for the     *)
(* customer (OrderPaid, OrderDelivered, POS_SALE_COMPLETED) unless there   *)
(* is one, or none is wanted: no mobile number, the setting off, no key of *)
(* the provider.                                                           *)
(***************************************************************************)
EXTENDS Webhooks

CONSTANTS
    Event,
    Pass,
    MaxAttempts,    \* 5 in the code
    MaxDeaths,      \* bound: passes, workers and requests that die
    MaxRetries      \* bound: retries an administrator asks for

ASSUME OutboxAssumption ==
    /\ Sender = Pass \union Worker \union {Admin}
    /\ Pass \intersect Worker = {} /\ Admin \notin Pass
    /\ IsFiniteSet(Pass)
    /\ MaxAttempts \in Nat \ {0} /\ MaxDeaths \in Nat /\ MaxRetries \in Nat
    /\ None \notin Event

VARIABLES
    state,      \* of an event, NONE before it is published
    tries,      \* its attempts
    messages,   \* text messages queued for an event
    unwanted,   \* events for which a handler found no message to be wanted
    failures,   \* passes that failed on it, counted to MaxAttempts
    list, now, phase,
    asked,      \* event the administrator found FAILED
    deaths, retries

eventVars == <<state, tries>>
factVars == <<messages, unwanted, failures>>
passVars == <<list, now, phase>>
boundVars == <<deaths, retries>>
vars == <<hookVars, eventVars, factVars, passVars, asked, boundVars>>

Copy == [event : Event, tries : Nat]

TypeOK ==
    /\ HookTypeOK
    /\ state \in [Event -> {"NONE", "PENDING", "DISPATCHED", "FAILED"}]
    /\ tries \in [Event -> Nat]
    /\ messages \in [Event -> Nat]
    /\ unwanted \subseteq Event
    /\ failures \in [Event -> 0..MaxAttempts]
    /\ list \in [Pass -> SUBSET Copy]
    /\ now \in [Pass -> Copy \union {None}]
    /\ phase \in [Pass -> {"idle", "take", "queue", "send", "fail"}]
    /\ asked \in Event \union {None}
    /\ deaths \in 0..MaxDeaths /\ retries \in 0..MaxRetries

Init ==
    /\ HookInit
    /\ state = [e \in Event |-> "NONE"]
    /\ tries = [e \in Event |-> 0]
    /\ messages = [e \in Event |-> 0]
    /\ unwanted = {}
    /\ failures = [e \in Event |-> 0]
    /\ list = [p \in Pass |-> {}]
    /\ now = [p \in Pass |-> None]
    /\ phase = [p \in Pass |-> "idle"]
    /\ asked = None
    /\ deaths = 0 /\ retries = 0

Go(p, ph) == phase' = [phase EXCEPT ![p] = ph]
Done(p) ==
    /\ now' = [now EXCEPT ![p] = None]
    /\ Go(p, IF list[p] = {} THEN "idle" ELSE "take")
    /\ UNCHANGED list

Publish(e) ==
    /\ state[e] = "NONE"
    /\ state' = [state EXCEPT ![e] = "PENDING"]
    /\ UNCHANGED <<hookVars, tries, factVars, passVars, asked, boundVars>>

\* Fault: only events that have not been tried are looked for.
PollFresh(p) ==
    LET Found == {[event |-> e, tries |-> 0] : e \in {e \in Event : state[e] = "PENDING" /\ tries[e] = 0}} IN
    /\ phase[p] = "idle" /\ Found # {}
    /\ list' = [list EXCEPT ![p] = Found]
    /\ Go(p, "take")
    /\ UNCHANGED <<hookVars, eventVars, factVars, now, asked, boundVars>>

\* The order of the rows in a pass makes no difference here.
Poll(p) ==
    LET Found == {[event |-> e, tries |-> tries[e]] : e \in {e \in Event : state[e] = "PENDING"}} IN
    /\ phase[p] = "idle" /\ Found # {}
    /\ list' = [list EXCEPT ![p] = Found]
    /\ Go(p, "take")
    /\ UNCHANGED <<hookVars, eventVars, factVars, now, asked, boundVars>>

\* Fault: the handler does not look.
TakeBlindly(p, c) ==
    /\ phase[p] = "take" /\ c \in list[p]
    /\ list' = [list EXCEPT ![p] = @ \ {c}]
    /\ now' = [now EXCEPT ![p] = c]
    /\ \/ (Go(p, "queue") \/ Go(p, "fail")) /\ UNCHANGED unwanted
       \/ Go(p, "send") /\ unwanted' = unwanted \union {c.event}
    /\ UNCHANGED <<hookVars, eventVars, messages, failures, asked, boundVars>>

\* The handler looks whether the message is queued already, or fails; or finds
\* that none is wanted.
Take(p, c) ==
    /\ phase[p] = "take" /\ c \in list[p]
    /\ list' = [list EXCEPT ![p] = @ \ {c}]
    /\ now' = [now EXCEPT ![p] = c]
    /\ \/ (Go(p, IF messages[c.event] = 0 THEN "queue" ELSE "send") \/ Go(p, "fail")) /\ UNCHANGED unwanted
       \/ Go(p, "send") /\ unwanted' = unwanted \union {c.event}
    /\ UNCHANGED <<hookVars, eventVars, messages, failures, asked, boundVars>>

\* Fault: a message that cannot be queued does not fail the event.
QueueSwallowed(p) ==
    /\ phase[p] = "queue"
    /\ Go(p, "send")
    /\ \/ messages' = [messages EXCEPT ![now[p].event] = @ + 1]
       \/ UNCHANGED messages
    /\ UNCHANGED <<hookVars, eventVars, unwanted, failures, list, now, asked, boundVars>>

Queue(p) ==
    /\ phase[p] = "queue"
    /\ \/ /\ messages' = [messages EXCEPT ![now[p].event] = @ + 1]
          /\ Go(p, "send")
       \/ Go(p, "fail") /\ UNCHANGED messages
    /\ UNCHANGED <<hookVars, eventVars, unwanted, failures, list, now, asked, boundVars>>

\* dispatchEvent creates a row for each endpoint that is on and listens, and
\* attempts it before the next; ...
FanOut(p) ==
    /\ phase[p] = "send" /\ AtRest(p)
    /\ \E d \in Delivery : CreateRow(p, d)
    /\ UNCHANGED <<eventVars, factVars, passVars, asked, boundVars>>

\* ... that it fails to is swallowed.  Then the pass marks the event, whatever
\* it has become.
Mark(p) ==
    /\ phase[p] = "send" /\ AtRest(p)
    /\ \/ /\ state' = [state EXCEPT ![now[p].event] = "DISPATCHED"]
          /\ Done(p)
       \/ Go(p, "fail") /\ UNCHANGED <<state, list, now>>
    /\ UNCHANGED <<hookVars, tries, factVars, asked, boundVars>>

\* The catch of the loop.  The number of attempts is the one read by Poll.
FailEvent(p) ==
    LET e == now[p].event
        n == now[p].tries + 1 IN
    /\ phase[p] = "fail"
    /\ tries' = [tries EXCEPT ![e] = n]
    /\ state' = [state EXCEPT ![e] = IF n >= MaxAttempts THEN "FAILED" ELSE "PENDING"]
    /\ failures' = IF failures[e] = MaxAttempts THEN failures ELSE [failures EXCEPT ![e] = @ + 1]
    /\ Done(p)
    /\ UNCHANGED <<hookVars, messages, unwanted, asked, boundVars>>

-----------------------------------------------------------------------------
(* The administrator: one request at a time, read before it writes. *)

Ask ==
    /\ asked = None /\ judged = None /\ AtRest(Admin) /\ retries < MaxRetries
    /\ retries' = retries + 1
    /\ \/ \E d \in Delivery : JudgeDelivery(d) /\ UNCHANGED asked
       \/ \E e \in Event :
            /\ state[e] = "FAILED"
            /\ asked' = e
            /\ UNCHANGED hookVars
    /\ UNCHANGED <<eventVars, factVars, passVars, deaths>>

RetryEvent ==
    /\ asked # None
    /\ state' = [state EXCEPT ![asked] = "PENDING"]
    /\ asked' = None
    /\ UNCHANGED <<hookVars, tries, factVars, passVars, boundVars>>

-----------------------------------------------------------------------------
Die(s) ==
    /\ deaths < MaxDeaths
    /\ deaths' = deaths + 1
    /\ ~AtRest(s) \/ (s \in Pass /\ phase[s] # "idle") \/ (s = Admin /\ judged # None)
    /\ DropSender(s)
    /\ IF s \in Pass
       THEN /\ list' = [list EXCEPT ![s] = {}]
            /\ now' = [now EXCEPT ![s] = None]
            /\ Go(s, "idle")
       ELSE UNCHANGED passVars
    /\ UNCHANGED <<eventVars, factVars, asked, retries>>

PassStep(p) ==
    Poll(p) \/ (\E c \in list[p] : Take(p, c)) \/ Queue(p) \/ FanOut(p) \/ Mark(p) \/ FailEvent(p)

Sending(s) == SenderStep(s) /\ UNCHANGED <<eventVars, factVars, passVars, asked, boundVars>>
Retrying == RetryDelivery /\ UNCHANGED <<eventVars, factVars, passVars, asked, boundVars>>

Next ==
    \/ \E e \in Event : Publish(e)
    \/ \E p \in Pass : PassStep(p)
    \/ \E s \in Sender : Sending(s) \/ Die(s)
    \/ Ask \/ RetryEvent \/ Retrying

Spec == Init /\ [][Next]_vars

\* Node runs the passes that have started, and the timers start new ones.  An
\* event does not wait for its next attempt for ever.  Nobody must publish,
\* retry or die.
Fairness == \A p \in Pass : WF_vars(PassStep(p) \/ Sending(p))
FairSpec == Spec /\ Fairness

-----------------------------------------------------------------------------
\* An event counts as dispatched only when its message is queued or a handler
\* found none to be wanted, and is given up only after as many failed passes as
\* the limit says, although passes overlap, overwrite each other's mark and
\* count, and die.  (drainOnce)
VerdictIsTrue ==
    \A e \in Event :
        /\ state[e] = "DISPATCHED" => messages[e] > 0 \/ e \in unwanted
        /\ state[e] = "FAILED" => failures[e] = MaxAttempts

\* However often an event is retried or taken up after a death, only passes
\* that overlap can queue its message again: never more than run at a time.
\* (the handlers look before they create)
MessagesBounded ==
    \A e \in Event : messages[e] <= Cardinality(Pass)

\* Every event that is published is dispatched or given up.
\* (the timer of EventBusService, drainOnce)
EventEnds ==
    \A e \in Event : state[e] = "PENDING" ~> state[e] \in {"DISPATCHED", "FAILED"}
=============================================================================
