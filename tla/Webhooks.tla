------------------------------ MODULE Webhooks ------------------------------
(***************************************************************************)
(* Deliveries to webhook endpoints outside the shop                        *)
(* (events/webhooks.service.ts).  A delivery is a row; whoever has reason  *)
(* to attempts it: the event bus right after it created the row, the timer *)
(* for rows that are due, an administrator who asks for a retry.  Nothing  *)
(* keeps two of them from attempting the same row.                         *)
(*                                                                         *)
(* attempt() reads the number of attempts, posts, waits, and writes what   *)
(* it read plus one.  queue[s] are the rows sender s is about to attempt,  *)
(* job[s] its post under way.                                              *)
(*                                                                         *)
(* Which rows are due and which endpoints are switched on is left open, as *)
(* it may be otherwise at any time.  A row of an endpoint that is off is   *)
(* not attempted, nor, while there are Window of them, is a younger one:   *)
(* that a delivery comes to an end is not promised.                        *)
(***************************************************************************)
EXTENDS Integers, FiniteSets

CONSTANTS
    Delivery,
    Window,             \* rows a pass of the timer reads, 20 in the code
    Sender,
    Worker,             \* the senders that are passes of the timer
    Admin,              \* the sender that is an administrator
    WebhookMaxAttempts,
    None

ASSUME SendersAssumption ==
    /\ Worker \union {Admin} \subseteq Sender /\ Admin \notin Worker
    /\ WebhookMaxAttempts \in Nat \ {0} /\ Window \in Nat \ {0}
    /\ None \notin Delivery

VARIABLES
    row,        \* state of a delivery, NONE before it exists
    attempts,   \* as the row has them
    accepted,   \* the deliveries the endpoint has taken at least once
    posts,      \* posts of a delivery, counted to WebhookMaxAttempts
    queue,
    job,
    judged      \* delivery the administrator found not to be OK

rowVars == <<row, attempts>>
worldVars == <<accepted, posts>>
hookVars == <<rowVars, worldVars, queue, job, judged>>

Job == [delivery : Delivery, attempts : Nat, ok : BOOLEAN]

HookTypeOK ==
    /\ row \in [Delivery -> {"NONE", "PENDING", "OK", "FAILED"}]
    /\ attempts \in [Delivery -> Nat]
    /\ accepted \subseteq Delivery
    /\ posts \in [Delivery -> 0..WebhookMaxAttempts]
    /\ queue \in [Sender -> SUBSET Delivery]
    /\ job \in [Sender -> Job \union {None}]
    /\ judged \in Delivery \union {None}

HookInit ==
    /\ row = [d \in Delivery |-> "NONE"]
    /\ attempts = [d \in Delivery |-> 0]
    /\ accepted = {}
    /\ posts = [d \in Delivery |-> 0]
    /\ queue = [s \in Sender |-> {}]
    /\ job = [s \in Sender |-> None]
    /\ judged = None

AtRest(s) == queue[s] = {} /\ job[s] = None

\* The creator of a row attempts it; so may the timer, the row is due at once.
CreateRow(s, d) ==
    /\ row[d] = "NONE"
    /\ row' = [row EXCEPT ![d] = "PENDING"]
    /\ queue' = [queue EXCEPT ![s] = {d}]
    /\ UNCHANGED <<attempts, worldVars, job, judged>>

\* A timer starts a pass though another may be under way.  It reads the oldest
\* rows that are due, and passes over those whose endpoint is off.
Drain(s) ==
    LET Pending == {d \in Delivery : row[d] = "PENDING" /\ attempts[d] < WebhookMaxAttempts} IN
    /\ s \in Worker /\ AtRest(s)
    /\ \E Sent \in SUBSET Pending :
         /\ Sent # {} /\ Cardinality(Sent) <= Window
         /\ queue' = [queue EXCEPT ![s] = Sent]
    /\ UNCHANGED <<rowVars, worldVars, job, judged>>

\* The row is read and posted, whatever its state has become.  The endpoint
\* may take it although no good answer comes back.
Post(s, d) ==
    /\ job[s] = None /\ d \in queue[s]
    /\ queue' = [queue EXCEPT ![s] = @ \ {d}]
    /\ posts' = IF posts[d] = WebhookMaxAttempts THEN posts ELSE [posts EXCEPT ![d] = @ + 1]
    /\ \E taken, ok \in BOOLEAN :
         /\ ok => taken
         /\ accepted' = IF taken THEN accepted \union {d} ELSE accepted
         /\ job' = [job EXCEPT ![s] = [delivery |-> d, attempts |-> attempts[d], ok |-> ok]]
    /\ UNCHANGED <<rowVars, judged>>

\* Fault: an attempt counts for two.
RecordTwice(s) ==
    LET d == job[s].delivery
        n == job[s].attempts + 2 IN
    /\ job[s] # None
    /\ attempts' = [attempts EXCEPT ![d] = n]
    /\ \/ job[s].ok /\ row' = [row EXCEPT ![d] = "OK"]
       \/ row' = IF n >= WebhookMaxAttempts THEN [row EXCEPT ![d] = "FAILED"] ELSE row
    /\ job' = [job EXCEPT ![s] = None]
    /\ UNCHANGED <<worldVars, queue, judged>>

\* The outcome is written over whatever the row says by now; a failure that is
\* not the last leaves its state alone.  A good answer that cannot be written
\* is caught as a failure of the attempt.
Record(s) ==
    LET d == job[s].delivery
        n == job[s].attempts + 1 IN
    /\ job[s] # None
    /\ attempts' = [attempts EXCEPT ![d] = n]
    /\ \/ job[s].ok /\ row' = [row EXCEPT ![d] = "OK"]
       \/ row' = IF n >= WebhookMaxAttempts THEN [row EXCEPT ![d] = "FAILED"] ELSE row
    /\ job' = [job EXCEPT ![s] = None]
    /\ UNCHANGED <<worldVars, queue, judged>>

\* Neither can be written: the caller goes on to its next row.
LoseOutcome(s) ==
    /\ job[s] # None
    /\ job' = [job EXCEPT ![s] = None]
    /\ UNCHANGED <<rowVars, worldVars, queue, judged>>

\* retryDelivery looks, ...
JudgeDelivery(d) ==
    /\ judged = None /\ AtRest(Admin)
    /\ row[d] \in {"PENDING", "FAILED"}
    /\ judged' = d
    /\ UNCHANGED <<rowVars, worldVars, queue, job>>

\* Fault: the row gets the state of a queued notification.
RetryAsQueued ==
    /\ judged # None
    /\ row' = [row EXCEPT ![judged] = "QUEUED"]
    /\ queue' = [queue EXCEPT ![Admin] = {judged}]
    /\ judged' = None
    /\ UNCHANGED <<attempts, worldVars, job>>

\* ... and puts the row back as it is, with the attempts it has had.
RetryDelivery ==
    /\ judged # None
    /\ row' = [row EXCEPT ![judged] = "PENDING"]
    /\ queue' = [queue EXCEPT ![Admin] = {judged}]
    /\ judged' = None
    /\ UNCHANGED <<attempts, worldVars, job>>

\* A sender dies with its process; the endpoint knows what it knows.
DropSender(s) ==
    /\ queue' = [queue EXCEPT ![s] = {}]
    /\ job' = [job EXCEPT ![s] = None]
    /\ judged' = IF s = Admin THEN None ELSE judged
    /\ UNCHANGED <<rowVars, worldVars>>

SenderStep(s) == Drain(s) \/ (\E d \in Delivery : Post(s, d)) \/ Record(s) \/ LoseOutcome(s)

-----------------------------------------------------------------------------
\* A delivery says OK only if the endpoint has taken it, and FAILED only when
\* it was posted as often as the limit says, although senders overlap and
\* overwrite each other's count and state.  (attempt)
OutcomeIsTrue ==
    \A d \in Delivery :
        /\ row[d] = "OK" => d \in accepted
        /\ row[d] = "FAILED" => posts[d] = WebhookMaxAttempts
=============================================================================
