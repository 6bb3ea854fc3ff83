---------------------------- MODULE AlertPipeline ----------------------------
(***************************************************************************)
(* The scoring pipeline of one alert: the create transaction sends         *)
(* alert.created, the ML service scores it and sends alert.scored, the     *)
(* API's listener applies the score to the row.  Row and transactions are  *)
(* AlertRow's; the threads that deliver scores are a subset of its Txns.   *)
(* Confirmations, comments and resolves are left to AlertRow, which shows  *)
(* what they do to a score.                                                *)
(*                                                                         *)
(* Queues are durable and consumers acknowledge by hand, so a message is   *)
(* ready, held by a consumer, or gone.  A lost connection makes what was   *)
(* held ready again while the consumer may still be working on it.         *)
(***************************************************************************)
EXTENDS AlertRow

CONSTANTS
    Scorers,      \* ML replicas, each one consumer thread
    Listeners,    \* the API's listener threads, among Txns
    MaxAttempts,  \* spring.rabbitmq.listener.simple.retry.max-attempts
    MaxFaults,    \* bound on crashes and refusals of either consumer
    MaxOutages    \* bound on broker outages

ASSUME PipelineAssumption ==
    /\ Listeners \subseteq Txns
    /\ IsFiniteSet(Scorers) /\ IsFiniteSet(Listeners)
    /\ MaxAttempts \in Nat \ {0}
    /\ MaxFaults \in Nat
    /\ MaxOutages \in Nat

VARIABLES
    verdict,   \* what the model says of the description; UNSCORED is ABSTAIN
    sent,      \* what became of the alert.created the create sent
    broker,    \* whether the API and the ML service can reach LavinMQ
    ready,     \* how many copies of the alert are ready in each queue
    scorer,    \* scorer[m]: how far ML replica m is with the message it holds
    listener,  \* listener[l]: its attempt at a message, and whether it is held
    faults, outages

pipeVars == <<verdict, sent, broker, ready, scorer, listener, faults, outages>>
allVars == <<vars, pipeVars>>

Free == [attempt |-> 0, held |-> FALSE]
-----------------------------------------------------------------------------
PipeInit ==
    /\ Init
    /\ verdict \in Scores \cup {"UNSCORED"}
    /\ sent = "unsent"
    /\ broker = "up"
    /\ ready = [created |-> 0, scored |-> 0, dead |-> 0]
    /\ scorer = [m \in Scorers |-> "idle"]
    /\ listener = [l \in Listeners |-> Free]
    /\ faults = 0 /\ outages = 0

(* The reporter's request, one per alert id.                               *)
Report(t) ==
    /\ t \notin Listeners
    /\ \/ sent = "unsent" /\ BeginCreate(t)
       \/ tx[t].op = "create" /\ (Announce(t) \/ Commit(t))
       \/ Abort(t)
    /\ UNCHANGED pipeVars

(* AlertEventPublisher: an AmqpException is logged and swallowed.          *)
PublishCreated(t) ==
    /\ t \notin Listeners
    /\ SendCreated(t)
    /\ IF broker = "up"
       THEN sent' = "accepted" /\ ready' = [ready EXCEPT !.created = @ + 1]
       ELSE sent' = "refused" /\ UNCHANGED ready
    /\ UNCHANGED <<verdict, broker, scorer, listener, faults, outages>>

Expire ==
    /\ Lapse \/ Sweep
    /\ UNCHANGED pipeVars
-----------------------------------------------------------------------------
(* The ML consumer, _on_message.                                           *)
Scoring(m, from, to) ==
    /\ scorer[m] = from
    /\ scorer' = [scorer EXCEPT ![m] = to]
    /\ UNCHANGED <<vars, verdict, sent, broker, listener, faults, outages>>

TakeCreated(m) ==
    /\ broker = "up" /\ ready.created > 0
    /\ Scoring(m, "idle", "scoring")
    /\ ready' = [ready EXCEPT !.created = @ - 1]

(* An abstention is acknowledged and nothing is sent.                      *)
Abstain(m) ==
    /\ verdict = "UNSCORED"
    /\ Scoring(m, "scoring", "idle")
    /\ UNCHANGED ready

PublishScored(m) ==
    /\ verdict # "UNSCORED"
    /\ Scoring(m, "scoring", "published")
    /\ ready' = [ready EXCEPT !.scored = @ + 1]

(* Fault: nack with requeue where the ack belongs.                         *)
FaultyAckCreated(m) ==
    /\ Scoring(m, "published", "idle")
    /\ ready' = [ready EXCEPT !.created = @ + 1]

AckCreated(m) == Scoring(m, "published", "idle") /\ UNCHANGED ready

(* Scoring throws: nack without requeue.                                   *)
NackCreated(m) ==
    /\ faults < MaxFaults /\ scorer[m] = "scoring"
    /\ faults' = faults + 1
    /\ ready' = [ready EXCEPT !.dead = @ + 1]
    /\ scorer' = [scorer EXCEPT ![m] = "idle"]
    /\ UNCHANGED <<vars, verdict, sent, broker, listener, outages>>

(* Fault: auto-ack, the broker has forgotten the message already.          *)
FaultyScorerCrash(m) ==
    /\ faults < MaxFaults /\ scorer[m] # "idle"
    /\ faults' = faults + 1
    /\ scorer' = [scorer EXCEPT ![m] = "idle"]
    /\ UNCHANGED <<vars, verdict, sent, broker, ready, listener, outages>>

ScorerCrash(m) ==
    /\ faults < MaxFaults /\ scorer[m] # "idle"
    /\ faults' = faults + 1
    /\ ready' = [ready EXCEPT !.created = @ + 1]
    /\ scorer' = [scorer EXCEPT ![m] = "idle"]
    /\ UNCHANGED <<vars, verdict, sent, broker, listener, outages>>
-----------------------------------------------------------------------------
(* AlertScoredListener under Spring's retry interceptor.                   *)
TakeScored(l) ==
    /\ broker = "up" /\ ready.scored > 0 /\ listener[l] = Free
    /\ ready' = [ready EXCEPT !.scored = @ - 1]
    /\ listener' = [listener EXCEPT ![l] = [attempt |-> 1, held |-> TRUE]]
    /\ UNCHANGED <<vars, verdict, sent, broker, scorer, faults, outages>>

Release(l) == listener' = [listener EXCEPT ![l] = Free]

(* Fault: the last failure requeues, default-requeue-rejected=true.        *)
FaultyFailRequeues(l) ==
    IF listener[l].attempt < MaxAttempts
    THEN listener' = [listener EXCEPT ![l].attempt = @ + 1] /\ UNCHANGED ready
    ELSE /\ Release(l)
         /\ ready' = [ready EXCEPT !.scored = IF listener[l].held THEN @ + 1 ELSE @]

(* Fault: the last failure is acknowledged.                                *)
FaultyFailAcks(l) ==
    IF listener[l].attempt < MaxAttempts
    THEN listener' = [listener EXCEPT ![l].attempt = @ + 1] /\ UNCHANGED ready
    ELSE Release(l) /\ UNCHANGED ready

(* An attempt throws: the next one follows, and after the last the message *)
(* is rejected without requeue, which dead-letters it if it is still held. *)
Fail(l) ==
    IF listener[l].attempt < MaxAttempts
    THEN listener' = [listener EXCEPT ![l].attempt = @ + 1] /\ UNCHANGED ready
    ELSE /\ Release(l)
         /\ ready' = [ready EXCEPT !.dead = IF listener[l].held THEN @ + 1 ELSE @]

(* applySeverity: on an alert that is not stored it throws NotFound.       *)
StartAttempt(l) ==
    /\ listener[l].attempt > 0 /\ ~Running(l)
    /\ IF Exists
       THEN BeginScore(l, verdict) /\ UNCHANGED <<listener, ready>>
       ELSE Fail(l) /\ UNCHANGED vars
    /\ UNCHANGED <<verdict, sent, broker, scorer, faults, outages>>

(* The transaction goes on; its commit returns to the container, which     *)
(* acknowledges.                                                           *)
RunAttempt(l) ==
    /\ \/ Announce(l) /\ UNCHANGED listener
       \/ Commit(l) /\ Release(l)
    /\ UNCHANGED <<verdict, sent, broker, ready, scorer, faults, outages>>

(* The database refuses the transaction.                                   *)
AbortAttempt(l) ==
    /\ faults < MaxFaults
    /\ faults' = faults + 1
    /\ Abort(l)
    /\ Fail(l)
    /\ UNCHANGED <<verdict, sent, broker, scorer, outages>>

(* The replica dies before the acknowledgement, inside the transaction or  *)
(* just after its commit.                                                  *)
ListenerCrash(l) ==
    /\ faults < MaxFaults /\ listener[l].attempt > 0
    /\ faults' = faults + 1
    /\ \/ IF Running(l) THEN Abort(l) ELSE UNCHANGED vars
       \/ Commit(l)
    /\ ready' = [ready EXCEPT !.scored = IF listener[l].held THEN @ + 1 ELSE @]
    /\ Release(l)
    /\ UNCHANGED <<verdict, sent, broker, scorer, outages>>

(* The broker goes away.  Everything unacked is ready again; an ML replica *)
(* gives up its message (its publish or ack fails on the closed channel),  *)
(* a listener works on and finds its ack refused.                          *)
BrokerDown ==
    /\ broker = "up" /\ outages < MaxOutages
    /\ broker' = "down"
    /\ outages' = outages + 1
    /\ ready' = [ready EXCEPT
         !.created = @ + Cardinality({m \in Scorers : scorer[m] # "idle"}),
         !.scored = @ + Cardinality({l \in Listeners : listener[l].held})]
    /\ scorer' = [m \in Scorers |-> "idle"]
    /\ listener' = [l \in Listeners |-> [listener[l] EXCEPT !.held = FALSE]]
    /\ UNCHANGED <<vars, verdict, sent, faults>>

BrokerUp ==
    /\ broker = "down"
    /\ broker' = "up"
    /\ UNCHANGED <<vars, verdict, sent, ready, scorer, listener, faults, outages>>

Score(m) == TakeCreated(m) \/ Abstain(m) \/ PublishScored(m) \/ AckCreated(m)
Listen(l) == TakeScored(l) \/ StartAttempt(l) \/ RunAttempt(l)

PipeNext ==
    \/ \E t \in Txns : Report(t) \/ PublishCreated(t)
    \/ \E m \in Scorers : Score(m) \/ NackCreated(m) \/ ScorerCrash(m)
    \/ \E l \in Listeners : Listen(l) \/ AbortAttempt(l) \/ ListenerCrash(l)
    \/ Expire
    \/ BrokerDown
    \/ BrokerUp

PipeSpec == PipeInit /\ [][PipeNext]_allVars

(* Outages end and live consumers go on; the reporter's thread, the sweep  *)
(* and every kind of failure are free not to happen.                       *)
PipeFairSpec ==
    /\ PipeSpec
    /\ WF_allVars(BrokerUp)
    /\ \A m \in Scorers : WF_allVars(Score(m))
    /\ \A l \in Listeners : WF_allVars(Listen(l))
-----------------------------------------------------------------------------
(* Every variable keeps its type.                                          *)
PipeTypeOK ==
    /\ TypeOK
    /\ verdict \in Scores \cup {"UNSCORED"}
    /\ sent \in {"unsent", "accepted", "refused"}
    /\ broker \in {"up", "down"}
    /\ ready \in [created: Nat, scored: Nat, dead: Nat]
    /\ scorer \in [Scorers -> {"idle", "scoring", "published"}]
    /\ listener \in [Listeners -> [attempt: 0..MaxAttempts, held: BOOLEAN]]
    /\ faults \in Nat /\ outages \in Nat

Copies ==
    ready.created + ready.scored + ready.dead
        + Cardinality({m \in Scorers : scorer[m] = "scoring"})
        + Cardinality({l \in Listeners : listener[l].held})

InFlight ==
    \/ ready.created > 0 \/ \E m \in Scorers : scorer[m] = "scoring"
    \/ ready.scored > 0 \/ \E l \in Listeners : listener[l].held

(* Acks come last on both hops, so no crash, outage or retry loses a       *)
(* scorable alert the broker accepted: it is in flight, dead-lettered, or  *)
(* its score has reached the row.  (A resolve that overlaps may overwrite  *)
(* a stored score, as AlertRow's Commit shows; none runs here.)            *)
NothingLost ==
    sent = "accepted" /\ verdict # "UNSCORED"
        => InFlight \/ ready.dead > 0 \/ row.severity = verdict

(* The price of at-least-once: every copy of the alert beyond the first is *)
(* due to a crash, or to an outage and one replica that had published but  *)
(* not acknowledged.  Retries and dead-lettering copy nothing.             *)
CopiesBounded == Copies <= 1 + faults + outages * Cardinality(Scorers)

(* Once the broker has accepted the alert and the row is stored, it is     *)
(* scored or dead-lettered, unless the model abstains.                     *)
EventuallyScored ==
    (sent = "accepted" /\ verdict # "UNSCORED" /\ Exists)
        ~> (row.severity = verdict \/ ready.dead > 0)

(* Every message ends, acknowledged or dead-lettered: none cycles for ever *)
(* between its queue and a listener that cannot apply it.                  *)
EventuallyDrained == <>[](~InFlight)
=============================================================================
