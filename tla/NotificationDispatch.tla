------------------------- MODULE NotificationDispatch -------------------------
(***************************************************************************)
(* The .NET worker telling watch zones of one alert: alert.created matches *)
(* zones, alert.scored escalates (its own queue) and warns of an ongoing   *)
(* danger nearby (another queue), while users move and delete their zones, *)
(* the API has perhaps not committed the alert yet, the broker redelivers  *)
(* and handlers die.                                                       *)
(*                                                                         *)
(* A handler runs its foreach with an await between the INSERT of a        *)
(* notification and each push, so its steps interleave with everybody's.   *)
(* A handler is a replica's single dispatch loop, or one orphaned when its *)
(* connection was replaced: that one works on but can no longer ack.       *)
(* The escalation webhook leaves no state here and is left out.            *)
(***************************************************************************)
EXTENDS Naturals, FiniteSets

CONSTANTS
    Users, Watchers,   \* accounts, and those with a danger reach
    Zones, Owner,      \* watch zones and the account each belongs to
    Devices, Holder,   \* push endpoints and the account each belongs to
    Places,            \* how a zone may lie to the alert
    Reach,             \* danger_reach_m, on the scale of the places' edges
    Handlers,
    MaxScored,         \* bound on the copies of alert.scored
    MaxTouched,        \* bound on the zones moved or deleted, once each
    MaxFaults          \* bound on crashes, lost connections, refused statements

(* hears: which calls of FindMatches return the zone, "match" for the plain *)
(* one and the widened, "escalation" for the widened alone.  edge: rank of *)
(* EdgeDistanceMeters.                                                     *)
PlaceType == [hears: {"match", "escalation", "none"}, edge: Nat]

ASSUME DispatchAssumption ==
    /\ Watchers \subseteq Users
    /\ Owner \in [Zones -> Users]
    /\ Holder \in [Devices -> Users]
    /\ Places \subseteq PlaceType
    /\ {Reach, MaxScored, MaxTouched, MaxFaults} \subseteq Nat

VARIABLES
    alert,    \* unstored, then ongoing, then over (closed, or an hour old)
    grade,    \* what the score makes of it
    zones,    \* the watch_zones rows
    place,    \* place[z]: where z lies
    touched,  \* zones moved or deleted since alert.created was sent
    subs,     \* the push_subscriptions rows
    notes,    \* the notifications rows
    pushes,   \* pushes[z, k, d]: sends to device d for zone z and kind k
    queue,    \* how many messages are ready in each queue
    dead,     \* queues of which some message is dead-lettered
    served,   \* queues of which some message was handled to its end
    scored,   \* copies of alert.scored published so far
    job,      \* job[h]: what handler h is doing
    faults

rows == <<zones, place, touched, subs, notes>>
mail == <<queue, dead, served, scored>>
dispatchVars == <<alert, grade, rows, pushes, mail, job, faults>>
-----------------------------------------------------------------------------
KindOf == [enrichment |-> "ZONE_MATCH", escalation |-> "ESCALATION",
           danger |-> "DANGER_NEARBY"]
Queues == DOMAIN KindOf
Kinds == {KindOf[q] : q \in Queues}
Note(z, q) == [zone |-> z, kind |-> KindOf[q]]

(* fresh: the zone whose notification has just been inserted; sends: the   *)
(* pushes still to send for it.  Between two zones both are empty.         *)
Job == [step: {"free", "match", "loop"}, queue: Queues, held: BOOLEAN,
        todo: SUBSET Zones, fresh: SUBSET Zones, sends: SUBSET (Zones \X Devices)]
Free == [step |-> "free", queue |-> "enrichment", held |-> FALSE,
         todo |-> {}, fresh |-> {}, sends |-> {}]
At(h, step) == job[h].step = step
BetweenZones(h) == At(h, "loop") /\ job[h].fresh = {} /\ job[h].sends = {}

ZonesOf(u) == {z \in zones : Owner[z] = u}
Matching == {z \in zones : place[z].hears = "match"}
Widened == {z \in zones : place[z].hears \in {"match", "escalation"}}

(* OngoingDanger.SelectTargets.  Equal edges are told apart by the order   *)
(* of rows in a SELECT without ORDER BY.                                   *)
Nearest(u) ==
    {z \in ZonesOf(u) :
        /\ place[z].edge <= Reach
        /\ \A y \in ZonesOf(u) : place[z].edge <= place[y].edge}

(* Fault: users who hear the escalation are not skipped.                   *)
FaultyWarned == {u \in Watchers : Nearest(u) # {}}

Warned == {u \in Watchers : Nearest(u) # {} /\ ZonesOf(u) \cap Widened = {}}

(* What the handler of queue q may find to notify.                         *)
Targets(q) ==
    CASE q = "enrichment" -> {Matching}
      [] q = "escalation" -> IF grade = "LOW" THEN {{}} ELSE {Widened}
      [] q = "danger" ->
           IF grade = "CRITICAL" /\ alert = "ongoing"
           THEN {T \in SUBSET UNION {Nearest(u) : u \in Warned} :
                   \A u \in Warned : Cardinality(T \cap ZonesOf(u)) = 1}
           ELSE {{}}
-----------------------------------------------------------------------------
DispatchInit ==
    /\ alert = "unstored"
    /\ grade \in {"CRITICAL", "HIGH_RISK", "LOW"}
    /\ zones = Zones
    /\ place \in [Zones -> Places]
    /\ touched = {}
    /\ subs = Devices
    /\ notes = {}
    /\ pushes = [p \in Zones \X Kinds \X Devices |-> 0]
    /\ queue = [enrichment |-> 1, escalation |-> 0, danger |-> 0]
    /\ dead = {}
    /\ served = {}
    /\ scored = 0
    /\ job = [h \in Handlers |-> Free]
    /\ faults = 0

(* The create transaction commits; later the alert is closed or its hour   *)
(* passes.                                                                 *)
Age ==
    /\ \/ alert = "unstored" /\ alert' = "ongoing"
       \/ alert = "ongoing" /\ alert' = "over"
    /\ UNCHANGED <<grade, rows, pushes, mail, job, faults>>

(* The ML service publishes alert.scored, more than once when its ack is   *)
(* lost: one copy in each of the worker's two queues.                      *)
PublishScored ==
    /\ scored < MaxScored
    /\ scored' = scored + 1
    /\ queue' = [queue EXCEPT !.escalation = @ + 1, !.danger = @ + 1]
    /\ UNCHANGED <<alert, grade, rows, pushes, dead, served, job, faults>>

Touch(z) ==
    /\ z \in zones
    /\ z \notin touched /\ Cardinality(touched) < MaxTouched
    /\ touched' = touched \cup {z}

MoveZone(z) ==
    /\ Touch(z)
    /\ \E p \in Places : place' = [place EXCEPT ![z] = p]
    /\ UNCHANGED <<alert, grade, zones, subs, notes, pushes, mail, job, faults>>

(* Its notifications go with it, ON DELETE CASCADE.                        *)
DeleteZone(z) ==
    /\ Touch(z)
    /\ zones' = zones \ {z}
    /\ notes' = {n \in notes : n.zone # z}
    /\ UNCHANGED <<alert, grade, place, subs, pushes, mail, job, faults>>
-----------------------------------------------------------------------------
Take(h, q) ==
    /\ At(h, "free") /\ queue[q] > 0
    /\ queue' = [queue EXCEPT ![q] = @ - 1]
    /\ job' = [job EXCEPT ![h] =
                  [Free EXCEPT !.step = "match", !.queue = q, !.held = TRUE]]
    /\ UNCHANGED <<alert, grade, rows, pushes, dead, served, scored, faults>>

(* The read queries of the three handlers.                                 *)
Match(h) ==
    /\ At(h, "match")
    /\ \E T \in Targets(job[h].queue) :
         job' = [job EXCEPT ![h].step = "loop", ![h].todo = T]
    /\ UNCHANGED <<alert, grade, rows, pushes, mail, faults>>

(* The handler throws: nack without requeue.                               *)
Reject(h) ==
    /\ job' = [job EXCEPT ![h] = Free]
    /\ dead' = IF job[h].held THEN dead \cup {job[h].queue} ELSE dead

(* Fault: push whatever the INSERT returned.                               *)
FaultyInsert(h, z) ==
    /\ BetweenZones(h) /\ z \in job[h].todo
    /\ alert # "unstored" /\ z \in zones
    /\ notes' = notes \cup {Note(z, job[h].queue)}
    /\ job' = [job EXCEPT ![h].fresh = {z}, ![h].todo = @ \ {z}]
    /\ UNCHANGED <<alert, grade, zones, place, touched, subs, pushes, mail, faults>>

(* InsertAsync returns 1: the row is new and its pushes follow.            *)
Insert(h, z) ==
    /\ BetweenZones(h) /\ z \in job[h].todo
    /\ alert # "unstored" /\ z \in zones
    /\ Note(z, job[h].queue) \notin notes
    /\ notes' = notes \cup {Note(z, job[h].queue)}
    /\ job' = [job EXCEPT ![h].fresh = {z}, ![h].todo = @ \ {z}]
    /\ UNCHANGED <<alert, grade, zones, place, touched, subs, pushes, mail, faults>>

(* InsertAsync returns 0, ON CONFLICT DO NOTHING.                          *)
Skip(h, z) ==
    /\ BetweenZones(h) /\ z \in job[h].todo
    /\ Note(z, job[h].queue) \in notes
    /\ job' = [job EXCEPT ![h].todo = @ \ {z}]
    /\ UNCHANGED <<alert, grade, rows, pushes, mail, faults>>

(* Fault: a failed INSERT is logged and the loop goes on.                  *)
FaultyBreakForeignKey(h, z) ==
    /\ BetweenZones(h) /\ z \in job[h].todo
    /\ alert = "unstored" \/ z \notin zones
    /\ job' = [job EXCEPT ![h].todo = @ \ {z}]
    /\ UNCHANGED <<alert, grade, rows, pushes, mail, faults>>

(* Fault: nack with requeue.                                               *)
FaultyRequeueForeignKey(h, z) ==
    /\ BetweenZones(h) /\ z \in job[h].todo
    /\ alert = "unstored" \/ z \notin zones
    /\ job' = [job EXCEPT ![h] = Free]
    /\ queue' = [queue EXCEPT ![job[h].queue] = IF job[h].held THEN @ + 1 ELSE @]
    /\ UNCHANGED <<alert, grade, rows, pushes, dead, served, scored, faults>>

(* The alert or the zone is not there: the INSERT breaks a foreign key,    *)
(* and the zones left in todo are not tried.                               *)
BreakForeignKey(h, z) ==
    /\ BetweenZones(h) /\ z \in job[h].todo
    /\ alert = "unstored" \/ z \notin zones
    /\ Reject(h)
    /\ UNCHANGED <<alert, grade, rows, pushes, queue, served, scored, faults>>

(* GetForZoneAsync joins on the zone, which may be gone again.             *)
Lookup(h, z) ==
    /\ z \in job[h].fresh
    /\ job' = [job EXCEPT ![h].fresh = {},
                          ![h].sends = IF z \in zones
                                       THEN {z} \X {d \in subs : Holder[d] = Owner[z]}
                                       ELSE {}]
    /\ UNCHANGED <<alert, grade, rows, pushes, mail, faults>>

(* A device the push service no longer knows loses its subscription.       *)
Send(h, z, d) ==
    /\ <<z, d>> \in job[h].sends
    /\ pushes' = [pushes EXCEPT ![<<z, KindOf[job[h].queue], d>>] = @ + 1]
    /\ subs' \in {subs, subs \ {d}}
    /\ job' = [job EXCEPT ![h].sends = @ \ {<<z, d>>}]
    /\ UNCHANGED <<alert, grade, zones, place, touched, notes, mail, faults>>

(* The foreach is over and the message is acknowledged.                    *)
Finish(h) ==
    /\ BetweenZones(h) /\ job[h].todo = {}
    /\ served' = served \cup {job[h].queue}
    /\ job' = [job EXCEPT ![h] = Free]
    /\ UNCHANGED <<alert, grade, rows, pushes, queue, dead, scored, faults>>
-----------------------------------------------------------------------------
(* A statement is refused, or the recompute of the stats that ends an      *)
(* enrichment.                                                             *)
Refuse(h) ==
    /\ ~At(h, "free") /\ faults < MaxFaults
    /\ faults' = faults + 1
    /\ Reject(h)
    /\ UNCHANGED <<alert, grade, rows, pushes, queue, served, scored>>

(* Fault: automatic acknowledgement.                                       *)
FaultyGiveBack(h) == UNCHANGED queue

GiveBack(h) ==
    queue' = [queue EXCEPT ![job[h].queue] = IF job[h].held THEN @ + 1 ELSE @]

(* The worker dies or is shut down: the message is redelivered.            *)
Crash(h) ==
    /\ ~At(h, "free") /\ faults < MaxFaults
    /\ faults' = faults + 1
    /\ job' = [job EXCEPT ![h] = Free]
    /\ GiveBack(h)
    /\ UNCHANGED <<alert, grade, rows, pushes, dead, served, scored>>

(* The connection is replaced under the handler.                           *)
LoseConnection(h) ==
    /\ job[h].held /\ faults < MaxFaults
    /\ faults' = faults + 1
    /\ job' = [job EXCEPT ![h].held = FALSE]
    /\ GiveBack(h)
    /\ UNCHANGED <<alert, grade, rows, pushes, dead, served, scored>>

Run(h) ==
    \/ \E q \in Queues : Take(h, q)
    \/ Match(h)
    \/ \E z \in Zones : Insert(h, z) \/ Skip(h, z) \/ BreakForeignKey(h, z)
    \/ \E z \in Zones : Lookup(h, z) \/ \E d \in Devices : Send(h, z, d)
    \/ Finish(h)

DispatchNext ==
    \/ \E h \in Handlers : Run(h) \/ Refuse(h) \/ Crash(h) \/ LoseConnection(h)
    \/ \E z \in Zones : MoveZone(z) \/ DeleteZone(z)
    \/ Age
    \/ PublishScored

DispatchSpec == DispatchInit /\ [][DispatchNext]_dispatchVars

(* A live handler goes on; users, the API and failures owe nothing.        *)
DispatchFairSpec ==
    DispatchSpec /\ \A h \in Handlers : WF_dispatchVars(Run(h))
-----------------------------------------------------------------------------
(* Every variable keeps its type.                                          *)
DispatchTypeOK ==
    /\ alert \in {"unstored", "ongoing", "over"}
    /\ grade \in {"CRITICAL", "HIGH_RISK", "LOW"}
    /\ zones \subseteq Zones /\ touched \subseteq Zones
    /\ place \in [Zones -> Places]
    /\ subs \subseteq Devices
    /\ notes \subseteq [zone: zones, kind: Kinds]
    /\ pushes \in [Zones \X Kinds \X Devices -> Nat]
    /\ queue \in [Queues -> Nat]
    /\ dead \subseteq Queues /\ served \subseteq Queues
    /\ scored \in Nat /\ faults \in Nat
    /\ job \in [Handlers -> Job]

(* NotificationDispatcher's "pushes fire only on a fresh insert so AMQP    *)
(* redeliveries never double-send": no device gets two pushes for one      *)
(* zone and kind, with handlers racing on copies of the message, dying     *)
(* between insert and push, and zones deleted under them.                  *)
AtMostOncePush == \A p \in DOMAIN pushes : pushes[p] <= 1

(* A handler that ran to its end has notified every zone that has matched  *)
(* all along, however often the message was interrupted before.            *)
ServedMeansNotified ==
    \A z \in Zones \ touched :
        /\ "enrichment" \in served /\ z \in Matching
             => Note(z, "enrichment") \in notes
        /\ "escalation" \in served /\ grade # "LOW" /\ z \in Widened
             => Note(z, "escalation") \in notes

(* No crash, lost connection or failed statement drops a message: one that *)
(* was sent is waiting, held by a handler, served or dead-lettered.        *)
NothingDropped ==
    \A q \in Queues :
        \/ q # "enrichment" /\ scored = 0
        \/ queue[q] > 0 \/ \E h \in Handlers : job[h].held /\ job[h].queue = q
        \/ q \in served \cup dead

(* A user whose zones have stayed put is not both escalated to and warned, *)
(* whichever queue is served first and however often; and although each    *)
(* delivery of a warning chooses the nearest zone afresh, such a user is   *)
(* warned for a second zone only when it is just as near.                  *)
SettledUserHearsOnce ==
    \A u \in Users : (\A z \in Zones : Owner[z] = u => z \notin touched) =>
        \A m, n \in notes :
            {Owner[m.zone], Owner[n.zone]} = {u} /\ n.kind = "DANGER_NEARBY" =>
                /\ m.kind # "ESCALATION"
                /\ m.kind = "DANGER_NEARBY" => place[m.zone].edge = place[n.zone].edge

(* Every message ends, served or dead-lettered: one that cannot be         *)
(* processed does not cycle.                                               *)
Drained == <>[](\A q \in Queues : queue[q] = 0 /\ \A h \in Handlers : At(h, "free"))
-----------------------------------------------------------------------------
=============================================================================
