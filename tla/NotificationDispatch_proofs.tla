---------------------- MODULE NotificationDispatch_proofs ----------------------
(***************************************************************************)
(* Proofs about NotificationDispatch for any users, zones, devices,        *)
(* handlers and places, any number of copies, edits and faults: types, at  *)
(* most one push per zone, kind and device, a served message has notified  *)
(* every zone that stayed put, no message is dropped, and a user whose     *)
(* zones stay put hears of an alert's danger in one way only (HeardOnce).  *)
(***************************************************************************)
EXTENDS NotificationDispatch, TLAPS

(* The queues and their kinds correspond one to one.                       *)
LEMMA QueueFacts ==
    /\ Queues = {"enrichment", "escalation", "danger"}
    /\ \A q \in Queues : KindOf[q] \in Kinds
    /\ \A q, r \in Queues : KindOf[q] = KindOf[r] => q = r
<1>1. Queues = {"enrichment", "escalation", "danger"}
  BY DEF Queues, KindOf
<1>2. /\ KindOf["enrichment"] = "ZONE_MATCH" /\ KindOf["escalation"] = "ESCALATION"
      /\ KindOf["danger"] = "DANGER_NEARBY"
  BY DEF KindOf
<1>3. QED
  BY <1>1, <1>2 DEF Kinds

(* What a handler may find to notify are zones.                            *)
LEMMA TargetsAreZones ==
    ASSUME zones \subseteq Zones, NEW q \in Queues, NEW T \in Targets(q)
    PROVE  T \subseteq Zones
<1>1. CASE q = "enrichment"
  BY <1>1 DEF Targets, Matching
<1>2. CASE q = "escalation"
  BY <1>2 DEF Targets, Widened
<1>3. CASE q = "danger"
  <2>1. UNION {Nearest(u) : u \in Warned} \subseteq Zones
    BY DEF Nearest, ZonesOf
  <2>2. QED
    BY <1>3, <2>1 DEF Targets
<1>4. QED
  BY <1>1, <1>2, <1>3, QueueFacts

(* The types of a job's fields.                                            *)
LEMMA JobType ==
    ASSUME DispatchTypeOK, NEW h \in Handlers
    PROVE  /\ job[h] \in Job
           /\ job[h].step \in {"free", "match", "loop"} /\ job[h].queue \in Queues
           /\ job[h].held \in BOOLEAN /\ job[h].todo \subseteq Zones
           /\ job[h].fresh \subseteq Zones
           /\ job[h].sends \subseteq Zones \X Devices
           /\ Free \in Job
BY QueueFacts DEF DispatchTypeOK, Job, Free

(* The initial states satisfy the invariant.                               *)
LEMMA TypeInit == DispatchInit => DispatchTypeOK
<1> SUFFICES ASSUME DispatchInit PROVE DispatchTypeOK
  OBVIOUS
<1>1. Free \in Job
  BY QueueFacts DEF Free, Job
<1>2. queue \in [Queues -> Nat]
  BY QueueFacts DEF DispatchInit
<1>3. QED
  BY <1>1, <1>2 DEF DispatchInit, DispatchTypeOK

(* The types outlive every step of a handler.                              *)
LEMMA HandlerTypes ==
    ASSUME DispatchTypeOK, NEW h \in Handlers,
           Run(h) \/ Refuse(h) \/ Crash(h) \/ LoseConnection(h)
    PROVE  DispatchTypeOK'
<1>1. job[h] \in Job /\ job[h].queue \in Queues /\ Free \in Job
  BY JobType
<1>2. ASSUME NEW q \in Queues, Take(h, q) PROVE DispatchTypeOK'
  <2>1. [Free EXCEPT !.step = "match", !.queue = q, !.held = TRUE] \in Job
    BY <1>1 DEF Job
  <2>2. job' \in [Handlers -> Job]
    BY <1>2, <2>1 DEF Take, DispatchTypeOK
  <2>3. queue' \in [Queues -> Nat]
    BY <1>2 DEF Take, DispatchTypeOK
  <2>4. QED
    BY <1>2, <2>2, <2>3 DEF Take, DispatchTypeOK, rows
<1>3. CASE Match(h)
  <2>1. PICK T \in Targets(job[h].queue) :
            job' = [job EXCEPT ![h].step = "loop", ![h].todo = T]
    BY <1>3 DEF Match
  <2>2. T \subseteq Zones
    BY <1>1, TargetsAreZones DEF DispatchTypeOK
  <2>3. [job[h] EXCEPT !.step = "loop", !.todo = T] \in Job
    BY <1>1, <2>2 DEF Job
  <2>4. job' \in [Handlers -> Job]
    BY <2>1, <2>3 DEF DispatchTypeOK
  <2>5. QED
    BY <1>3, <2>4 DEF Match, DispatchTypeOK, rows, mail
<1>4. ASSUME NEW z \in Zones, Insert(h, z) PROVE DispatchTypeOK'
  <2>1. [job[h] EXCEPT !.fresh = {z}, !.todo = @ \ {z}] \in Job
    BY <1>1 DEF Job
  <2>2. job' \in [Handlers -> Job]
    BY <1>4, <2>1 DEF Insert, DispatchTypeOK
  <2>3. Note(z, job[h].queue) \in [zone: zones, kind: Kinds]
    BY <1>1, <1>4, QueueFacts DEF Insert, Note
  <2>4. notes' \subseteq [zone: zones', kind: Kinds]
    BY <1>4, <2>3 DEF Insert, DispatchTypeOK
  <2>5. UNCHANGED <<alert, grade, zones, place, touched, subs, pushes, mail, faults>>
    BY <1>4 DEF Insert
  <2>6. QED
    BY <2>2, <2>4, <2>5 DEF DispatchTypeOK, mail
<1>5. ASSUME NEW z \in Zones, Skip(h, z) PROVE DispatchTypeOK'
  <2>1. [job[h] EXCEPT !.todo = @ \ {z}] \in Job
    BY <1>1 DEF Job
  <2>2. job' \in [Handlers -> Job]
    BY <1>5, <2>1 DEF Skip, DispatchTypeOK
  <2>3. QED
    BY <1>5, <2>2 DEF Skip, DispatchTypeOK, rows, mail
<1>6. ASSUME Reject(h) PROVE job' \in [Handlers -> Job] /\ dead' \subseteq Queues
  BY <1>1, <1>6 DEF Reject, DispatchTypeOK
<1>7. ASSUME NEW z \in Zones, BreakForeignKey(h, z) PROVE DispatchTypeOK'
  BY <1>6, <1>7 DEF BreakForeignKey, DispatchTypeOK, rows
<1>8. ASSUME NEW z \in Zones, Lookup(h, z) PROVE DispatchTypeOK'
  <2> DEFINE S == IF z \in zones THEN {z} \X {d \in subs : Holder[d] = Owner[z]} ELSE {}
  <2>1. S \subseteq Zones \X Devices
    BY DEF DispatchTypeOK
  <2> HIDE DEF S
  <2>2. [job[h] EXCEPT !.fresh = {}, !.sends = S] \in Job
    BY <1>1, <2>1 DEF Job
  <2>3. job' = [job EXCEPT ![h].fresh = {}, ![h].sends = S]
    BY <1>8 DEF Lookup, S
  <2>4. job' \in [Handlers -> Job]
    BY <2>2, <2>3 DEF DispatchTypeOK
  <2>5. QED
    BY <1>8, <2>4 DEF Lookup, DispatchTypeOK, rows, mail
<1>9. ASSUME NEW z \in Zones, NEW d \in Devices, Send(h, z, d) PROVE DispatchTypeOK'
  <2>1. [job[h] EXCEPT !.sends = @ \ {<<z, d>>}] \in Job
    BY <1>1 DEF Job
  <2>2. job' \in [Handlers -> Job]
    BY <1>9, <2>1 DEF Send, DispatchTypeOK
  <2>3. pushes' \in [Zones \X Kinds \X Devices -> Nat]
    <3> DEFINE p == <<z, KindOf[job[h].queue], d>>
    <3>1. p \in Zones \X Kinds \X Devices
      BY <1>1, QueueFacts
    <3> HIDE DEF p
    <3>2. pushes' = [pushes EXCEPT ![p] = pushes[p] + 1]
      BY <1>9 DEF Send, p
    <3>3. pushes[p] + 1 \in Nat
      BY <3>1 DEF DispatchTypeOK
    <3>4. QED
      BY <3>2, <3>3 DEF DispatchTypeOK
  <2>4. QED
    BY <1>9, <2>2, <2>3 DEF Send, DispatchTypeOK, mail
<1>10. CASE Finish(h)
  <2>1. job' \in [Handlers -> Job]
    BY <1>1, <1>10 DEF Finish, DispatchTypeOK
  <2>2. QED
    BY <1>1, <1>10, <2>1 DEF Finish, DispatchTypeOK, rows
<1>11. CASE Refuse(h)
  BY <1>6, <1>11 DEF Refuse, DispatchTypeOK, rows
<1>12. ASSUME GiveBack(h) PROVE queue' \in [Queues -> Nat]
  BY <1>1, <1>12 DEF GiveBack, DispatchTypeOK
<1>13. CASE Crash(h)
  <2>1. job' \in [Handlers -> Job]
    BY <1>1, <1>13 DEF Crash, DispatchTypeOK
  <2>2. QED
    BY <1>12, <1>13, <2>1 DEF Crash, DispatchTypeOK, rows
<1>14. CASE LoseConnection(h)
  <2>1. [job[h] EXCEPT !.held = FALSE] \in Job
    BY <1>1 DEF Job
  <2>2. job' \in [Handlers -> Job]
    BY <1>14, <2>1 DEF LoseConnection, DispatchTypeOK
  <2>3. QED
    BY <1>12, <1>14, <2>2 DEF LoseConnection, DispatchTypeOK, rows
<1>15. QED
  BY <1>2, <1>3, <1>4, <1>5, <1>7, <1>8, <1>9, <1>10, <1>11, <1>13, <1>14 DEF Run

(* The types outlive what the users, the API and the ML service do.        *)
LEMMA WorldTypes ==
    ASSUME DispatchTypeOK, \/ \E z \in Zones : MoveZone(z) \/ DeleteZone(z)
                           \/ Age \/ PublishScored
    PROVE  DispatchTypeOK'
<1>1. ASSUME NEW z \in Zones, MoveZone(z) PROVE DispatchTypeOK'
  BY <1>1 DEF MoveZone, Touch, DispatchTypeOK, mail
<1>2. ASSUME NEW z \in Zones, DeleteZone(z) PROVE DispatchTypeOK'
  BY <1>2 DEF DeleteZone, Touch, DispatchTypeOK, mail
<1>3. CASE Age
  BY <1>3 DEF Age, DispatchTypeOK, rows, mail
<1>4. CASE PublishScored
  <2>1. /\ "escalation" \in Queues /\ "danger" \in Queues
        /\ \A q \in Queues : queue[q] + 1 \in Nat
    BY QueueFacts DEF DispatchTypeOK
  <2>2. queue' \in [Queues -> Nat]
    BY <1>4, <2>1 DEF PublishScored, DispatchTypeOK
  <2>3. scored' \in Nat
    BY <1>4 DEF PublishScored, DispatchTypeOK
  <2>4. QED
    BY <1>4, <2>2, <2>3 DEF PublishScored, DispatchTypeOK, rows
<1>5. QED
  BY <1>1, <1>2, <1>3, <1>4

(* Every step keeps the invariant, or changes nothing.                     *)
LEMMA TypeNext == DispatchTypeOK /\ [DispatchNext]_dispatchVars => DispatchTypeOK'
<1>1. ASSUME DispatchTypeOK, UNCHANGED dispatchVars PROVE DispatchTypeOK'
  BY <1>1 DEF dispatchVars, rows, mail, DispatchTypeOK
<1>2. QED
  BY <1>1, HandlerTypes, WorldTypes DEF DispatchNext

(* The handlers' types hold of every behaviour.                            *)
THEOREM DispatchTypeCorrect == DispatchSpec => []DispatchTypeOK
<1>1. QED
  BY TypeInit, TypeNext, PTL DEF DispatchSpec
-----------------------------------------------------------------------------
(* Why no push is sent twice.  A handler that is telling zone z of queue q *)
(* has inserted the notification itself, and the row outlives everything   *)
(* but the zone; so nobody else tells z of q, before or after.             *)
Tells(h, z) == z \in job[h].fresh \/ \E d \in Devices : <<z, d>> \in job[h].sends

(* The zone has its note of this queue's kind, or is gone; and how many    *)
(* pushes a device got of it.                                              *)
Told(z, q) == z \notin zones \/ Note(z, q) \in notes
Sent(z, q, d) == pushes[<<z, KindOf[q], d>>]

(* The inductive invariant of PushedOnce.                                  *)
PushInv ==
    /\ \A z \in Zones, q \in Queues, d \in Devices :
         Sent(z, q, d) <= 1 /\ (Sent(z, q, d) > 0 => Told(z, q))
    /\ \A h \in Handlers, z \in Zones : Tells(h, z) => Told(z, job[h].queue)
    /\ \A h, g \in Handlers, z \in Zones :
         h # g /\ Tells(h, z) /\ Tells(g, z) => job[h].queue # job[g].queue
    /\ \A h \in Handlers, z \in Zones, d \in Devices :
         z \in job[h].fresh \/ <<z, d>> \in job[h].sends
           => Sent(z, job[h].queue, d) = 0
    /\ \A h \in Handlers, z \in Zones, d \in Devices :
         z \in job[h].fresh => <<z, d>> \notin job[h].sends

(* The initial states satisfy the invariant.                               *)
LEMMA PushInit == DispatchInit => PushInv
<1> SUFFICES ASSUME DispatchInit PROVE PushInv
  OBVIOUS
<1>1. \A z \in Zones, q \in Queues, d \in Devices : Sent(z, q, d) = 0
  BY QueueFacts DEF DispatchInit, Sent
<1>2. \A h \in Handlers :
         job[h].fresh = {} /\ job[h].sends = {} /\ job[h].queue \in Queues
  BY QueueFacts DEF DispatchInit, Free
<1>3. \A h \in Handlers, z \in Zones : ~Tells(h, z)
  BY <1>2 DEF Tells
<1>4. QED
  BY <1>1, <1>2, <1>3 DEF PushInv

(* A step that sends nothing, takes on no zone and forgets no notification *)
(* of a zone that is left.                                                 *)
LEMMA PushQuiet ==
    ASSUME PushInv, pushes' = pushes,
           \A h \in Handlers :
               \/ job'[h].fresh = {} /\ job'[h].sends = {}
               \/ /\ job'[h].fresh = job[h].fresh /\ job'[h].sends = job[h].sends
                  /\ job'[h].queue = job[h].queue,
           \A z \in Zones, q \in Queues : Told(z, q) => Told(z, q)',
           \A h \in Handlers : job[h].queue \in Queues
    PROVE  PushInv'
<1>1. \A h \in Handlers, z \in Zones :
         Tells(h, z)' => Tells(h, z) /\ job'[h].queue = job[h].queue
  BY DEF Tells
<1>2. \A z, q, d : Sent(z, q, d)' = Sent(z, q, d)
  BY DEF Sent
<1>3. (\A z \in Zones, q \in Queues, d \in Devices :
         Sent(z, q, d) <= 1 /\ (Sent(z, q, d) > 0 => Told(z, q)))'
  BY <1>2 DEF PushInv
<1>4. (\A h \in Handlers, z \in Zones : Tells(h, z) => Told(z, job[h].queue))'
  BY <1>1 DEF PushInv
<1>5. (\A h, g \in Handlers, z \in Zones :
         h # g /\ Tells(h, z) /\ Tells(g, z) => job[h].queue # job[g].queue)'
  BY <1>1 DEF PushInv
<1>6. (\A h \in Handlers, z \in Zones, d \in Devices :
         z \in job[h].fresh \/ <<z, d>> \in job[h].sends
           => Sent(z, job[h].queue, d) = 0)'
  BY <1>2 DEF PushInv
<1>7. (\A h \in Handlers, z \in Zones, d \in Devices :
         z \in job[h].fresh => <<z, d>> \notin job[h].sends)'
  BY DEF PushInv
<1>8. QED
  BY <1>3, <1>4, <1>5, <1>6, <1>7 DEF PushInv

(* The INSERT that returns 1 finds the pair untold, so nobody tells it and *)
(* nothing was ever sent for it.                                           *)
LEMMA PushInsert ==
    ASSUME DispatchTypeOK, PushInv, NEW h \in Handlers, NEW z \in Zones, Insert(h, z)
    PROVE  PushInv'
<1>0. PICK q \in Queues : job[h].queue = q
  BY JobType
<1>1. \A g \in Handlers : job[g].queue \in Queues
  BY JobType
<1>2. /\ job[h].fresh = {} /\ job[h].sends = {}
      /\ ~Told(z, q)
      /\ notes' = notes \cup {Note(z, q)} /\ zones' = zones /\ pushes' = pushes
  BY <1>0 DEF Insert, BetweenZones, Told
<1>3. /\ job'[h].fresh = {z} /\ job'[h].sends = {} /\ job'[h].queue = q
      /\ \A g \in Handlers \ {h} : job'[g] = job[g]
  BY <1>0, <1>2, JobType DEF Insert, DispatchTypeOK, Job
<1>4. Told(z, q)' /\ \A y, r : Told(y, r) => Told(y, r)'
  BY <1>0, <1>2 DEF Told, Note
<1>5. \A y, r, d : Sent(y, r, d)' = Sent(y, r, d)
  BY <1>2 DEF Sent
<1>6. /\ \A d \in Devices : Sent(z, q, d) = 0
      /\ \A g \in Handlers : Tells(g, z) => job[g].queue # q
  <2>1. \A d \in Devices : Sent(z, q, d) \in Nat
    BY <1>1, QueueFacts DEF DispatchTypeOK, Sent
  <2>2. QED
    BY <1>1, <1>2, <2>1 DEF PushInv
<1>7. /\ \A y : Tells(h, y)' => y = z
      /\ \A g \in Handlers \ {h}, y \in Zones : Tells(g, y)' = Tells(g, y)
  BY <1>3 DEF Tells
<1>8. (\A y \in Zones, r \in Queues, d \in Devices :
         Sent(y, r, d) <= 1 /\ (Sent(y, r, d) > 0 => Told(y, r)))'
  BY <1>4, <1>5 DEF PushInv
<1>9. ASSUME NEW g \in Handlers, NEW y \in Zones, Tells(g, y)'
      PROVE  Told(y, job[g].queue)'
  <2>1. CASE g = h
    BY <1>3, <1>4, <1>7, <1>9, <2>1
  <2>2. CASE g # h
    <3>1. Told(y, job[g].queue) /\ job'[g].queue = job[g].queue
      BY <1>3, <1>7, <1>9, <2>2 DEF PushInv
    <3>2. \A r : Told(y, r) => Told(y, r)'
      BY <1>4
    <3>3. QED
      BY <3>1, <3>2
  <2>3. QED
    BY <2>1, <2>2
<1>10. (\A g, k \in Handlers, y \in Zones :
         g # k /\ Tells(g, y) /\ Tells(k, y) => job[g].queue # job[k].queue)'
  BY <1>3, <1>6, <1>7 DEF PushInv
<1>11. (\A g \in Handlers, y \in Zones, d \in Devices :
         y \in job[g].fresh \/ <<y, d>> \in job[g].sends
           => Sent(y, job[g].queue, d) = 0)'
  BY <1>3, <1>5, <1>6 DEF PushInv
<1>12. (\A g \in Handlers, y \in Zones, d \in Devices :
         y \in job[g].fresh => <<y, d>> \notin job[g].sends)'
  BY <1>3 DEF PushInv
<1>13. QED
  BY <1>8, <1>9, <1>10, <1>11, <1>12 DEF PushInv

(* The lookup passes the zone from fresh to sends.                         *)
LEMMA PushLookup ==
    ASSUME DispatchTypeOK, PushInv, NEW h \in Handlers, NEW z \in Zones, Lookup(h, z)
    PROVE  PushInv'
<1>1. /\ z \in job[h].fresh /\ pushes' = pushes
      /\ zones' = zones /\ notes' = notes
  BY DEF Lookup, rows
<1>2. /\ job'[h].fresh = {} /\ job'[h].queue = job[h].queue
      /\ \A p \in job'[h].sends : \E d \in Devices : p = <<z, d>>
      /\ \A g \in Handlers \ {h} : job'[g] = job[g]
  BY JobType DEF Lookup, DispatchTypeOK, Job
<1>3. \A y, r, d : Sent(y, r, d)' = Sent(y, r, d) /\ Told(y, r)' = Told(y, r)
  BY <1>1 DEF Sent, Told, Note
<1>4. /\ \A y \in Zones : Tells(h, y)' => y = z
      /\ Tells(h, z)
      /\ \A g \in Handlers \ {h}, y \in Zones : Tells(g, y)' = Tells(g, y)
  BY <1>1, <1>2 DEF Tells
<1>5. (\A y \in Zones, r \in Queues, d \in Devices :
         Sent(y, r, d) <= 1 /\ (Sent(y, r, d) > 0 => Told(y, r)))'
  BY <1>3 DEF PushInv
<1>6. (\A g \in Handlers, y \in Zones : Tells(g, y) => Told(y, job[g].queue))'
  BY <1>2, <1>3, <1>4 DEF PushInv
<1>7. (\A g, k \in Handlers, y \in Zones :
         g # k /\ Tells(g, y) /\ Tells(k, y) => job[g].queue # job[k].queue)'
  BY <1>2, <1>4 DEF PushInv
<1>8. (\A g \in Handlers, y \in Zones, d \in Devices :
         y \in job[g].fresh \/ <<y, d>> \in job[g].sends
           => Sent(y, job[g].queue, d) = 0)'
  BY <1>1, <1>2, <1>3 DEF PushInv
<1>9. (\A g \in Handlers, y \in Zones, d \in Devices :
         y \in job[g].fresh => <<y, d>> \notin job[g].sends)'
  BY <1>2 DEF PushInv
<1>10. QED
  BY <1>5, <1>6, <1>7, <1>8, <1>9 DEF PushInv

(* A push is sent once: the handler drops the pair, and no other has it.   *)
LEMMA PushSend ==
    ASSUME DispatchTypeOK, PushInv, NEW h \in Handlers, NEW z \in Zones,
           NEW d \in Devices, Send(h, z, d)
    PROVE  PushInv'
<1>0. PICK q \in Queues : job[h].queue = q
  BY JobType
<1>1. \A g \in Handlers : job[g].queue \in Queues
  BY JobType
<1>2. <<z, d>> \in job[h].sends /\ zones' = zones /\ notes' = notes
  BY DEF Send
<1>3. /\ job'[h].fresh = job[h].fresh /\ job'[h].queue = q
      /\ job'[h].sends = job[h].sends \ {<<z, d>>}
      /\ \A g \in Handlers \ {h} : job'[g] = job[g]
  BY <1>0, JobType DEF Send, DispatchTypeOK, Job
<1>4. Sent(z, q, d) = 0 /\ Told(z, q) /\ Tells(h, z)
  BY <1>0, <1>2 DEF PushInv, Tells
<1>5. /\ Sent(z, q, d)' = 1
      /\ \A y \in Zones, r \in Queues, e \in Devices :
           <<y, r, e>> # <<z, q, d>> => Sent(y, r, e)' = Sent(y, r, e)
  <2>1. pushes' = [pushes EXCEPT ![<<z, KindOf[q], d>>] = @ + 1]
    BY <1>0 DEF Send
  <2>2. \A y \in Zones, r \in Queues, e \in Devices :
           <<y, KindOf[r], e>> \in DOMAIN pushes
    BY QueueFacts DEF DispatchTypeOK
  <2>3. \A y \in Zones, r \in Queues, e \in Devices :
           <<y, r, e>> # <<z, q, d>> => <<y, KindOf[r], e>> # <<z, KindOf[q], d>>
    BY <1>1, QueueFacts
  <2>4. <<z, KindOf[q], d>> \in DOMAIN pushes
    BY <2>2
  <2>5. pushes'[<<z, KindOf[q], d>>] = 1
    BY <1>4, <2>1, <2>4 DEF Sent
  <2>6. ASSUME NEW y \in Zones, NEW r \in Queues, NEW e \in Devices,
               <<y, r, e>> # <<z, q, d>>
        PROVE  pushes'[<<y, KindOf[r], e>>] = pushes[<<y, KindOf[r], e>>]
    BY <2>1, <2>2, <2>3, <2>6
  <2>7. QED
    BY <2>5, <2>6 DEF Sent
<1>6. \A y, r : Told(y, r)' = Told(y, r)
  BY <1>2 DEF Told, Note
<1>7. \A g \in Handlers, y \in Zones :
         (Tells(g, y)' => Tells(g, y)) /\ job'[g].queue = job[g].queue
  BY <1>0, <1>3 DEF Tells
<1>8. ASSUME NEW y \in Zones, NEW r \in Queues, NEW e \in Devices
      PROVE  Sent(y, r, e)' <= 1 /\ (Sent(y, r, e)' > 0 => Told(y, r)')
  <2>1. CASE <<y, r, e>> = <<z, q, d>>
    BY <1>4, <1>5, <1>6, <2>1
  <2>2. CASE <<y, r, e>> # <<z, q, d>>
    BY <1>5, <1>6, <2>2 DEF PushInv
  <2>3. QED
    BY <2>1, <2>2
<1>9. (\A g \in Handlers, y \in Zones : Tells(g, y) => Told(y, job[g].queue))'
  BY <1>6, <1>7 DEF PushInv
<1>10. (\A g, k \in Handlers, y \in Zones :
         g # k /\ Tells(g, y) /\ Tells(k, y) => job[g].queue # job[k].queue)'
  BY <1>7 DEF PushInv
<1>11. ASSUME NEW g \in Handlers, NEW y \in Zones, NEW e \in Devices,
              y \in job'[g].fresh \/ <<y, e>> \in job'[g].sends
       PROVE  Sent(y, job[g].queue, e)' = 0
  <2>1. y \in job[g].fresh \/ <<y, e>> \in job[g].sends
    BY <1>3, <1>11
  <2>2. Sent(y, job[g].queue, e) = 0 /\ Tells(g, y)
    BY <2>1 DEF PushInv, Tells
  <2>3. <<y, job[g].queue, e>> # <<z, q, d>>
    <3>1. CASE g = h
      <4>1. z \notin job[h].fresh
        BY <1>2 DEF PushInv
      <4>2. QED
        BY <1>3, <1>11, <3>1, <4>1
    <3>2. CASE g # h
      BY <1>0, <1>4, <2>2, <3>2 DEF PushInv
    <3>3. QED
      BY <3>1, <3>2
  <2>4. QED
    BY <1>1, <1>5, <2>2, <2>3, <1>7
<1>12. (\A g \in Handlers, y \in Zones, e \in Devices :
         y \in job[g].fresh => <<y, e>> \notin job[g].sends)'
  BY <1>3 DEF PushInv
<1>13. QED
  BY <1>7, <1>8, <1>9, <1>10, <1>11, <1>12 DEF PushInv

(* Every other step is quiet.                                              *)
LEMMA PushNext ==
    ASSUME DispatchTypeOK, PushInv, [DispatchNext]_dispatchVars
    PROVE  PushInv'
<1>1. \A h \in Handlers : job[h].queue \in Queues
  BY JobType
<1>2. ASSUME UNCHANGED <<zones, notes>>
      PROVE  \A z, q : Told(z, q) => Told(z, q)'
  BY <1>2 DEF Told, Note
<1>3. ASSUME NEW h \in Handlers, job' = [job EXCEPT ![h] = Free],
             UNCHANGED <<pushes, zones, notes>>
      PROVE  PushInv'
  <2>1. /\ job'[h].fresh = {} /\ job'[h].sends = {}
        /\ \A g \in Handlers \ {h} : job'[g] = job[g]
    BY <1>3 DEF DispatchTypeOK, Free
  <2>2. QED
    BY <1>1, <1>2, <1>3, <2>1, PushQuiet
<1>4. ASSUME NEW h \in Handlers, job[h].fresh = job'[h].fresh,
             job[h].sends = job'[h].sends, job[h].queue = job'[h].queue,
             \A g \in Handlers \ {h} : job'[g] = job[g],
             UNCHANGED <<pushes, zones, notes>>
      PROVE  PushInv'
  BY <1>1, <1>2, <1>4, PushQuiet
<1>5. ASSUME NEW h \in Handlers, NEW q \in Queues, Take(h, q) PROVE PushInv'
  <2>1. /\ job'[h].fresh = {} /\ job'[h].sends = {}
        /\ \A g \in Handlers \ {h} : job'[g] = job[g]
    BY <1>5 DEF Take, DispatchTypeOK, Free
  <2>2. UNCHANGED <<pushes, zones, notes>>
    BY <1>5 DEF Take, rows
  <2>3. QED
    BY <1>1, <1>2, <2>1, <2>2, PushQuiet
<1>6. ASSUME NEW h \in Handlers, Match(h) PROVE PushInv'
  <2>1. PICK T \in Targets(job[h].queue) :
            job' = [job EXCEPT ![h].step = "loop", ![h].todo = T]
    BY <1>6 DEF Match
  <2>2. /\ job[h].fresh = job'[h].fresh /\ job[h].sends = job'[h].sends
        /\ job[h].queue = job'[h].queue
        /\ \A g \in Handlers \ {h} : job'[g] = job[g]
    BY <2>1, JobType DEF DispatchTypeOK, Job
  <2>3. UNCHANGED <<pushes, zones, notes>>
    BY <1>6 DEF Match, rows
  <2>4. QED
    BY <1>4, <2>2, <2>3
<1>7. ASSUME NEW h \in Handlers, NEW z \in Zones, Skip(h, z) PROVE PushInv'
  <2>1. /\ job[h].fresh = job'[h].fresh /\ job[h].sends = job'[h].sends
        /\ job[h].queue = job'[h].queue
        /\ \A g \in Handlers \ {h} : job'[g] = job[g]
    BY <1>7, JobType DEF Skip, DispatchTypeOK, Job
  <2>2. UNCHANGED <<pushes, zones, notes>>
    BY <1>7 DEF Skip, rows
  <2>3. QED
    BY <1>4, <2>1, <2>2
<1>8. ASSUME NEW h \in Handlers, LoseConnection(h) PROVE PushInv'
  <2>1. /\ job[h].fresh = job'[h].fresh /\ job[h].sends = job'[h].sends
        /\ job[h].queue = job'[h].queue
        /\ \A g \in Handlers \ {h} : job'[g] = job[g]
    BY <1>8, JobType DEF LoseConnection, DispatchTypeOK, Job
  <2>2. UNCHANGED <<pushes, zones, notes>>
    BY <1>8 DEF LoseConnection, rows
  <2>3. QED
    BY <1>4, <2>1, <2>2
<1>9. ASSUME NEW h \in Handlers, Finish(h) \/ Refuse(h) \/ Crash(h) PROVE PushInv'
  BY <1>3, <1>9 DEF Finish, Refuse, Crash, Reject, rows
<1>10. ASSUME NEW h \in Handlers, NEW z \in Zones, BreakForeignKey(h, z) PROVE PushInv'
  BY <1>3, <1>10 DEF BreakForeignKey, Reject, rows
<1>11. ASSUME NEW z \in Zones, DeleteZone(z) PROVE PushInv'
  <2>1. \A y, q : Told(y, q) => Told(y, q)'
    BY <1>11 DEF DeleteZone, Told, Note
  <2>2. QED
    BY <1>1, <1>11, <2>1, PushQuiet DEF DeleteZone
<1>12. CASE \/ \E z \in Zones : MoveZone(z)
            \/ Age \/ PublishScored \/ UNCHANGED dispatchVars
  <2>1. UNCHANGED <<pushes, zones, notes, job>>
    BY <1>12 DEF MoveZone, Age, PublishScored, dispatchVars, rows
  <2>2. QED
    BY <1>1, <1>2, <2>1, PushQuiet
<1>13. QED
  BY <1>5, <1>6, <1>7, <1>8, <1>9, <1>10, <1>11, <1>12, PushInsert, PushLookup,
     PushSend DEF DispatchNext, Run

(* No device gets two pushes for one zone and kind.                        *)
THEOREM PushedOnce == DispatchSpec => []AtMostOncePush
<1>1. DispatchTypeOK /\ PushInv => AtMostOncePush
  <2> SUFFICES ASSUME DispatchTypeOK, PushInv, NEW p \in DOMAIN pushes
               PROVE  pushes[p] <= 1
    BY DEF AtMostOncePush
  <2>1. PICK z \in Zones, k \in Kinds, d \in Devices : p = <<z, k, d>>
    BY DEF DispatchTypeOK
  <2>2. PICK q \in Queues : k = KindOf[q]
    BY DEF Kinds
  <2>3. QED
    BY <2>1, <2>2 DEF PushInv, Sent
<1>2. QED
  BY <1>1, TypeInit, TypeNext, PushInit, PushNext, PTL DEF DispatchSpec
-----------------------------------------------------------------------------
(* Why a served message has notified every zone that stayed put: such a    *)
(* zone is found by every match, and stays in todo until it is notified.   *)
Due(z, q) ==
    /\ z \in Zones \ touched
    /\ \/ q = "enrichment" /\ z \in Matching
       \/ q = "escalation" /\ grade # "LOW" /\ z \in Widened

(* The inductive invariant of ServedNotifies.                              *)
ServeInv ==
    /\ Zones \ touched \subseteq zones
    /\ \A h \in Handlers, z \in Zones :
         At(h, "loop") /\ Due(z, job[h].queue)
           => z \in job[h].todo \/ Note(z, job[h].queue) \in notes
    /\ \A z \in Zones, q \in served : Due(z, q) => Note(z, q) \in notes

(* The initial states satisfy the invariant.                               *)
LEMMA ServeInit == DispatchInit => ServeInv
<1> SUFFICES ASSUME DispatchInit PROVE ServeInv
  OBVIOUS
<1>1. \A h \in Handlers : ~At(h, "loop")
  BY DEF DispatchInit, At, Free
<1>2. QED
  BY <1>1 DEF DispatchInit, ServeInv

(* A handler's step that leaves the zones alone, adds notifications only,  *)
(* and takes nothing off todo but a zone that is notified.                 *)
LEMMA ServeStep ==
    ASSUME ServeInv, NEW h \in Handlers, UNCHANGED <<zones, place, touched, grade>>,
           notes \subseteq notes', served' \subseteq served,
           \A g \in Handlers \ {h} : job'[g] = job[g],
           job'[h].step = "loop" =>
               /\ job[h].step = "loop" /\ job'[h].queue = job[h].queue
               /\ \A z \in job[h].todo \ job'[h].todo :
                    Note(z, job[h].queue) \in notes'
    PROVE  ServeInv'
<1>1. \A z, q : Due(z, q)' = Due(z, q) /\ Note(z, q)' = Note(z, q)
  BY DEF Due, Matching, Widened, Note
<1>2. ASSUME NEW g \in Handlers, NEW z \in Zones, At(g, "loop")',
             Due(z, job[g].queue)'
      PROVE  (z \in job[g].todo \/ Note(z, job[g].queue) \in notes)'
  <2>1. At(g, "loop") /\ job'[g].queue = job[g].queue
    BY <1>2 DEF At
  <2>2. z \in job[g].todo \/ Note(z, job[g].queue) \in notes
    BY <1>1, <1>2, <2>1 DEF ServeInv
  <2>3. z \in job[g].todo => z \in job'[g].todo \/ Note(z, job[g].queue) \in notes'
    BY <1>2 DEF At
  <2>4. QED
    BY <1>1, <2>1, <2>2, <2>3
<1>3. \A z \in Zones, q \in served' : Due(z, q) => Note(z, q) \in notes'
  BY DEF ServeInv
<1>4. QED
  BY <1>1, <1>2, <1>3 DEF ServeInv

(* What a match finds includes every zone that is due.                     *)
LEMMA MatchFinds ==
    ASSUME NEW q \in Queues, NEW T \in Targets(q), NEW z \in Zones, Due(z, q)
    PROVE  z \in T
BY DEF Due, Targets

(* Moving or deleting a zone leaves nothing due for it, and what is due    *)
(* for the others as it was.                                               *)
LEMMA TouchServe ==
    ASSUME DispatchTypeOK, ServeInv, NEW z \in Zones, MoveZone(z) \/ DeleteZone(z)
    PROVE  ServeInv'
<1>1. touched' = touched \cup {z} /\ UNCHANGED <<job, served, grade>>
  BY DEF MoveZone, DeleteZone, Touch, mail
<1>2. \A y \in Zones \ {z} :
         /\ (y \in zones' <=> y \in zones) /\ place'[y] = place[y]
         /\ \A q : Note(y, q) \in notes => Note(y, q) \in notes'
  BY DEF MoveZone, DeleteZone, Note, DispatchTypeOK
<1>3. \A y \in Zones : \A q : Due(y, q)' => y # z /\ Due(y, q)
  BY <1>1, <1>2 DEF Due, Matching, Widened
<1>4. (Zones \ touched \subseteq zones)'
  BY <1>1, <1>2 DEF ServeInv
<1>5. ASSUME NEW h \in Handlers, NEW y \in Zones, At(h, "loop")',
             Due(y, job[h].queue)'
      PROVE  (y \in job[h].todo \/ Note(y, job[h].queue) \in notes)'
  <2>1. y # z /\ Due(y, job[h].queue)
    BY <1>1, <1>3, <1>5
  <2>2. y \in job[h].todo \/ Note(y, job[h].queue) \in notes
    BY <1>1, <1>5, <2>1 DEF ServeInv, At
  <2>3. QED
    BY <1>1, <1>2, <2>1, <2>2 DEF Note
<1>6. ASSUME NEW y \in Zones, NEW q \in served', Due(y, q)'
      PROVE  Note(y, q) \in notes'
  BY <1>1, <1>2, <1>3, <1>6 DEF ServeInv
<1>7. QED
  BY <1>4, <1>5, <1>6 DEF ServeInv, Note

(* Every step keeps the invariant, or changes nothing.                     *)
LEMMA ServeNext ==
    ASSUME DispatchTypeOK, ServeInv, [DispatchNext]_dispatchVars
    PROVE  ServeInv'
<1>1. ASSUME NEW h \in Handlers, NEW q \in Queues, Take(h, q) PROVE ServeInv'
  <2>1. job'[h].step = "match" /\ \A g \in Handlers \ {h} : job'[g] = job[g]
    BY <1>1 DEF Take, DispatchTypeOK, Free
  <2>2. QED
    BY <1>1, <2>1, ServeStep DEF Take, rows
<1>2. ASSUME NEW h \in Handlers, Match(h) PROVE ServeInv'
  <2>1. PICK T \in Targets(job[h].queue) :
            job' = [job EXCEPT ![h].step = "loop", ![h].todo = T]
    BY <1>2 DEF Match
  <2>2. /\ job'[h].todo = T /\ job'[h].queue = job[h].queue
        /\ \A g \in Handlers \ {h} : job'[g] = job[g]
    BY <2>1, JobType DEF DispatchTypeOK, Job
  <2>3. UNCHANGED <<zones, place, touched, notes, grade, served>>
    BY <1>2 DEF Match, rows, mail
  <2>4. \A z, q : Due(z, q)' = Due(z, q) /\ Note(z, q)' = Note(z, q)
    BY <2>3 DEF Due, Matching, Widened, Note
  <2>5. \A z \in Zones : Due(z, job[h].queue) => z \in T
    BY MatchFinds, JobType
  <2>6. ASSUME NEW g \in Handlers, NEW z \in Zones, At(g, "loop")',
               Due(z, job[g].queue)'
        PROVE  (z \in job[g].todo \/ Note(z, job[g].queue) \in notes)'
    <3>1. CASE g = h
      BY <2>2, <2>4, <2>5, <2>6, <3>1
    <3>2. CASE g # h
      BY <2>2, <2>3, <2>4, <2>6, <3>2 DEF ServeInv, At
    <3>3. QED
      BY <3>1, <3>2
  <2>7. QED
    BY <2>3, <2>4, <2>6 DEF ServeInv
<1>3. ASSUME NEW h \in Handlers, NEW z \in Zones, Insert(h, z) \/ Skip(h, z)
      PROVE  ServeInv'
  <2>1. /\ job'[h].step = job[h].step /\ job'[h].queue = job[h].queue
        /\ job'[h].todo = job[h].todo \ {z}
        /\ \A g \in Handlers \ {h} : job'[g] = job[g]
    BY <1>3, JobType DEF Insert, Skip, DispatchTypeOK, Job
  <2>2. /\ notes \subseteq notes' /\ Note(z, job[h].queue) \in notes'
        /\ UNCHANGED <<zones, place, touched, grade, served>>
    BY <1>3 DEF Insert, Skip, rows, mail
  <2>3. QED
    BY <2>1, <2>2, ServeStep
<1>4. ASSUME NEW h \in Handlers, NEW z \in Zones,
             Lookup(h, z) \/ \E d \in Devices : Send(h, z, d)
      PROVE  ServeInv'
  <2>1. /\ job'[h].step = job[h].step /\ job'[h].queue = job[h].queue
        /\ job'[h].todo = job[h].todo
        /\ \A g \in Handlers \ {h} : job'[g] = job[g]
    <3>1. ASSUME NEW S, job' = [job EXCEPT ![h].fresh = {}, ![h].sends = S]
          PROVE  /\ job'[h].step = job[h].step /\ job'[h].queue = job[h].queue
                 /\ job'[h].todo = job[h].todo
                 /\ \A g \in Handlers \ {h} : job'[g] = job[g]
      BY <3>1, JobType DEF DispatchTypeOK, Job
    <3>2. CASE Lookup(h, z)
      BY <3>1, <3>2 DEF Lookup
    <3>3. CASE \E d \in Devices : Send(h, z, d)
      BY <3>3, JobType DEF Send, DispatchTypeOK, Job
    <3>4. QED
      BY <1>4, <3>2, <3>3
  <2>2. UNCHANGED <<zones, place, touched, notes, grade, served>>
    BY <1>4 DEF Lookup, Send, rows, mail
  <2>3. QED
    BY <2>1, <2>2, ServeStep
<1>5. ASSUME NEW h \in Handlers, job' = [job EXCEPT ![h] = Free],
             UNCHANGED <<rows, grade, served>>
      PROVE  ServeInv'
  <2>1. job'[h].step = "free" /\ \A g \in Handlers \ {h} : job'[g] = job[g]
    BY <1>5 DEF DispatchTypeOK, Free
  <2>2. QED
    BY <1>5, <2>1, ServeStep DEF rows
<1>6. ASSUME NEW h \in Handlers,
             \/ Refuse(h) \/ Crash(h)
             \/ \E z \in Zones : BreakForeignKey(h, z)
      PROVE  ServeInv'
  BY <1>5, <1>6 DEF Refuse, Crash, BreakForeignKey, Reject
<1>7. ASSUME NEW h \in Handlers, LoseConnection(h) PROVE ServeInv'
  <2>1. /\ job'[h].step = job[h].step /\ job'[h].queue = job[h].queue
        /\ job'[h].todo = job[h].todo
        /\ \A g \in Handlers \ {h} : job'[g] = job[g]
    BY <1>7, JobType DEF LoseConnection, DispatchTypeOK, Job
  <2>2. QED
    BY <1>7, <2>1, ServeStep DEF LoseConnection, rows
<1>8. ASSUME NEW h \in Handlers, Finish(h) PROVE ServeInv'
  <2>1. /\ At(h, "loop") /\ job[h].todo = {}
        /\ served' = served \cup {job[h].queue}
        /\ UNCHANGED <<zones, place, touched, notes, grade>>
    BY <1>8 DEF Finish, BetweenZones, rows
  <2>2. job'[h].step = "free" /\ \A g \in Handlers \ {h} : job'[g] = job[g]
    BY <1>8 DEF Finish, DispatchTypeOK, Free
  <2>3. \A z, q : Due(z, q)' = Due(z, q) /\ Note(z, q)' = Note(z, q)
    BY <2>1 DEF Due, Matching, Widened, Note
  <2>4. \A z \in Zones, q \in served' : Due(z, q) => Note(z, q) \in notes
    BY <2>1 DEF ServeInv
  <2>5. ASSUME NEW g \in Handlers, NEW z \in Zones, At(g, "loop")',
               Due(z, job[g].queue)'
        PROVE  (z \in job[g].todo \/ Note(z, job[g].queue) \in notes)'
    BY <2>1, <2>2, <2>3, <2>5 DEF ServeInv, At
  <2>6. QED
    BY <2>1, <2>3, <2>4, <2>5 DEF ServeInv
<1>9. CASE Age \/ PublishScored \/ UNCHANGED dispatchVars
  <2>1. UNCHANGED <<zones, place, touched, notes, grade, served, job>>
    BY <1>9 DEF Age, PublishScored, dispatchVars, rows, mail
  <2>2. \A z, q : Due(z, q)' = Due(z, q) /\ Note(z, q)' = Note(z, q)
    BY <2>1 DEF Due, Matching, Widened, Note
  <2>3. QED
    BY <2>1, <2>2 DEF ServeInv, At
<1>10. QED
  BY <1>1, <1>2, <1>3, <1>4, <1>6, <1>7, <1>8, <1>9, TouchServe
     DEF DispatchNext, Run

(* Interrupted however often, a message that is served in the end has      *)
(* notified every zone that matched all along.                             *)
THEOREM ServedNotifies == DispatchSpec => []ServedMeansNotified
<1>1. ServeInv => ServedMeansNotified
  BY DEF ServeInv, ServedMeansNotified, Due
<1>2. QED
  BY <1>1, TypeInit, TypeNext, ServeInit, ServeNext, PTL DEF DispatchSpec
-----------------------------------------------------------------------------
(* Why no message is dropped.  A handler that is free holds nothing, so    *)
(* taking a message never displaces another.                               *)
Holds(h, q) == job[h].held /\ job[h].queue = q

(* The message of a queue waits, or has been served or given up.           *)
Kept(q) == queue[q] > 0 \/ q \in served \cup dead

(* The inductive invariant of MessagesKept.                                *)
DropInv ==
    /\ \A q \in Queues : \/ q # "enrichment" /\ scored = 0
                         \/ Kept(q) \/ \E h \in Handlers : Holds(h, q)
    /\ \A h \in Handlers, q \in Queues : At(h, "free") => ~Holds(h, q)

(* The initial states satisfy the invariant.                               *)
LEMMA DropInit == DispatchInit => DropInv
<1> SUFFICES ASSUME DispatchInit PROVE DropInv
  OBVIOUS
<1>1. \A h \in Handlers, q \in Queues : ~Holds(h, q)
  BY DEF DispatchInit, Free, Holds
<1>2. Kept("enrichment") /\ scored = 0
  BY DEF DispatchInit, Kept
<1>3. QED
  BY <1>1, <1>2 DEF DropInv

(* A handler's step that passes on what it held and what it took.          *)
LEMMA DropStep ==
    ASSUME DropInv, NEW h \in Handlers, scored' = scored,
           \A g \in Handlers \ {h} : job'[g] = job[g],
           \A q \in Queues : Kept(q) \/ Holds(h, q) => Kept(q)' \/ Holds(h, q)',
           job'[h].step = "free" => \A q \in Queues : ~Holds(h, q)'
    PROVE  DropInv'
<1>1. \A g \in Handlers \ {h} :
         At(g, "free")' = At(g, "free") /\ \A q \in Queues : Holds(g, q)' = Holds(g, q)
  BY DEF At, Holds
<1>2. ASSUME NEW q \in Queues
      PROVE  \/ q # "enrichment" /\ scored' = 0
             \/ Kept(q)' \/ \E g \in Handlers : Holds(g, q)'
  <2>1. ASSUME NEW g \in Handlers, Holds(g, q)
        PROVE  Kept(q)' \/ \E k \in Handlers : Holds(k, q)'
    BY <1>1, <2>1
  <2>2. QED
    BY <2>1 DEF DropInv
<1>3. \A g \in Handlers, q \in Queues : At(g, "free")' => ~Holds(g, q)'
  BY <1>1 DEF DropInv, At
<1>4. QED
  BY <1>2, <1>3 DEF DropInv

(* The steps of a handler that goes on with the message it has.            *)
LEMMA DropGoOn ==
    ASSUME DispatchTypeOK, DropInv, NEW h \in Handlers, UNCHANGED mail,
           job'[h].held = job[h].held, job'[h].queue = job[h].queue,
           job'[h].step = "free" => job[h].step = "free",
           \A g \in Handlers \ {h} : job'[g] = job[g]
    PROVE  DropInv'
<1>1. \A q \in Queues : Kept(q)' = Kept(q) /\ Holds(h, q)' = Holds(h, q)
  BY DEF Kept, Holds, mail
<1>2. job'[h].step = "free" => \A q \in Queues : ~Holds(h, q)'
  BY <1>1 DEF DropInv, At
<1>3. QED
  BY <1>1, <1>2, DropStep DEF mail

(* The steps that end a job: the message is back, served or dead-lettered. *)
LEMMA DropEnd ==
    ASSUME DispatchTypeOK, DropInv, NEW h \in Handlers, scored' = scored,
           job' = [job EXCEPT ![h] = Free],
           \A q \in Queues : Kept(q) \/ Holds(h, q) => Kept(q)'
    PROVE  DropInv'
<1>1. /\ \A q \in Queues : ~Holds(h, q)'
      /\ \A g \in Handlers \ {h} : job'[g] = job[g]
  BY DEF DispatchTypeOK, Free, Holds
<1>2. QED
  BY <1>1, DropStep

(* Every step keeps the invariant, or changes nothing.                     *)
LEMMA DropNext ==
    ASSUME DispatchTypeOK, DropInv, [DispatchNext]_dispatchVars
    PROVE  DropInv'
<1>1. ASSUME NEW h \in Handlers, NEW q \in Queues, Take(h, q) PROVE DropInv'
  <2>1. /\ \A r \in Queues : ~Holds(h, r)
        /\ scored' = scored
    BY <1>1 DEF Take, DropInv
  <2>2. /\ job'[h].step = "match" /\ Holds(h, q)'
        /\ \A g \in Handlers \ {h} : job'[g] = job[g]
    BY <1>1 DEF Take, DispatchTypeOK, Free, Holds
  <2>3. \A r \in Queues \ {q} : Kept(r)' = Kept(r)
    BY <1>1 DEF Take, DispatchTypeOK, Kept
  <2>4. QED
    BY <2>1, <2>2, <2>3, DropStep
<1>2. ASSUME NEW h \in Handlers, Match(h) PROVE DropInv'
  <2>1. PICK T \in Targets(job[h].queue) :
            job' = [job EXCEPT ![h].step = "loop", ![h].todo = T]
    BY <1>2 DEF Match
  <2>2. /\ job'[h].held = job[h].held /\ job'[h].queue = job[h].queue
        /\ job'[h].step # "free" /\ \A g \in Handlers \ {h} : job'[g] = job[g]
    BY <2>1, JobType DEF DispatchTypeOK, Job
  <2>3. QED
    BY <1>2, <2>2, DropGoOn DEF Match
<1>3. ASSUME NEW h \in Handlers, NEW z \in Zones, Insert(h, z) \/ Skip(h, z)
      PROVE  DropInv'
  <2>1. /\ job'[h].held = job[h].held /\ job'[h].queue = job[h].queue
        /\ job'[h].step = job[h].step /\ \A g \in Handlers \ {h} : job'[g] = job[g]
    BY <1>3, JobType DEF Insert, Skip, DispatchTypeOK, Job
  <2>2. QED
    BY <1>3, <2>1, DropGoOn DEF Insert, Skip
<1>4. ASSUME NEW h \in Handlers, NEW z \in Zones, Lookup(h, z) PROVE DropInv'
  <2>1. /\ job'[h].held = job[h].held /\ job'[h].queue = job[h].queue
        /\ job'[h].step = job[h].step /\ \A g \in Handlers \ {h} : job'[g] = job[g]
    BY <1>4, JobType DEF Lookup, DispatchTypeOK, Job
  <2>2. QED
    BY <1>4, <2>1, DropGoOn DEF Lookup
<1>5. ASSUME NEW h \in Handlers, NEW z \in Zones, NEW d \in Devices, Send(h, z, d)
      PROVE  DropInv'
  <2>1. /\ job'[h].held = job[h].held /\ job'[h].queue = job[h].queue
        /\ job'[h].step = job[h].step /\ \A g \in Handlers \ {h} : job'[g] = job[g]
    BY <1>5, JobType DEF Send, DispatchTypeOK, Job
  <2>2. QED
    BY <1>5, <2>1, DropGoOn DEF Send
<1>6. ASSUME NEW h \in Handlers, Finish(h) PROVE DropInv'
  <2>1. \A q \in Queues : Kept(q) \/ Holds(h, q) => Kept(q)'
    BY <1>6 DEF Finish, Kept, Holds
  <2>2. QED
    BY <1>6, <2>1, DropEnd DEF Finish
<1>7. ASSUME NEW h \in Handlers, Reject(h), UNCHANGED <<queue, served, scored>>
      PROVE  DropInv'
  <2>1. \A q \in Queues : Kept(q) \/ Holds(h, q) => Kept(q)'
    BY <1>7 DEF Reject, Kept, Holds
  <2>2. QED
    BY <1>7, <2>1, DropEnd DEF Reject
<1>8. ASSUME NEW h \in Handlers, GiveBack(h), UNCHANGED <<served, dead>>
      PROVE  \A q \in Queues : Kept(q) \/ Holds(h, q) => Kept(q)'
  <2>1. job[h].queue \in Queues /\ queue \in [Queues -> Nat]
    BY JobType DEF DispatchTypeOK
  <2>2. QED
    BY <1>8, <2>1 DEF GiveBack, Kept, Holds
<1>9. ASSUME NEW h \in Handlers, Crash(h) PROVE DropInv'
  BY <1>8, <1>9, DropEnd DEF Crash
<1>10. ASSUME NEW h \in Handlers, LoseConnection(h) PROVE DropInv'
  <2>1. /\ \A q \in Queues : ~Holds(h, q)'
        /\ \A g \in Handlers \ {h} : job'[g] = job[g]
    BY <1>10, JobType DEF LoseConnection, DispatchTypeOK, Job, Holds
  <2>2. scored' = scored /\ \A q \in Queues : Kept(q) \/ Holds(h, q) => Kept(q)'
    BY <1>8, <1>10 DEF LoseConnection
  <2>3. QED
    BY <2>1, <2>2, DropStep
<1>11. CASE PublishScored
  <2>1. Kept("escalation")' /\ Kept("danger")' /\ Kept("enrichment")' = Kept("enrichment")
    BY <1>11, QueueFacts DEF PublishScored, DispatchTypeOK, Kept
  <2>2. \A h \in Handlers, q \in Queues :
           Holds(h, q)' = Holds(h, q) /\ At(h, "free")' = At(h, "free")
    BY <1>11 DEF PublishScored, Holds, At
  <2>3. QED
    BY <2>1, <2>2, QueueFacts DEF DropInv
<1>12. CASE \/ \E z \in Zones : MoveZone(z) \/ DeleteZone(z)
            \/ Age \/ UNCHANGED dispatchVars
  <2>1. UNCHANGED <<job, queue, served, dead, scored>>
    BY <1>12 DEF MoveZone, DeleteZone, Age, dispatchVars, mail
  <2>2. QED
    BY <2>1 DEF DropInv, Kept, Holds, At
<1>13. QED
  BY <1>1, <1>2, <1>3, <1>4, <1>5, <1>6, <1>7, <1>9, <1>10, <1>11, <1>12
     DEF DispatchNext, Run, Refuse, BreakForeignKey

(* Whatever fails, a message is waiting, held, served or dead-lettered.    *)
THEOREM MessagesKept == DispatchSpec => []NothingDropped
<1>1. DropInv => NothingDropped
  BY DEF DropInv, NothingDropped, Kept, Holds
<1>2. QED
  BY <1>1, TypeInit, TypeNext, DropInit, DropNext, PTL DEF DispatchSpec
-----------------------------------------------------------------------------
(* Why a user whose zones stay put is not told by both queues.  What such  *)
(* a user is to be told was decided from places that have not changed      *)
(* since, be it the handler's list or the notification: an escalation is   *)
(* for a zone that hears it, a warning for a user of whom no zone does,    *)
(* and for one of the nearest zones.                                       *)
Settled(u) == \A z \in Zones : Owner[z] = u => z \notin touched

(* Whether a zone's place hears an escalation, and whether a note is one   *)
(* that it should have.                                                    *)
HearsEscalation(z) == place[z].hears \in {"match", "escalation"}
Rightly(z, kind) ==
    /\ kind = "ESCALATION" => HearsEscalation(z)
    /\ kind = "DANGER_NEARBY" =>
          \A y \in Zones : Owner[y] = Owner[z] =>
             ~HearsEscalation(y) /\ place[z].edge <= place[y].edge

(* The inductive invariant of HeardOnce.                                   *)
HearInv ==
    /\ \A n \in notes : Settled(Owner[n.zone]) => Rightly(n.zone, n.kind)
    /\ \A h \in Handlers : \A z \in job[h].todo :
         Settled(Owner[z]) => Rightly(z, KindOf[job[h].queue])

(* The initial states satisfy the invariant.                               *)
LEMMA HearInit == DispatchInit => HearInv
BY DEF DispatchInit, HearInv, Free

(* A step that moves no settled zone, and notifies and takes on nothing    *)
(* but what was on a handler's list.                                       *)
LEMMA HearStep ==
    ASSUME DispatchTypeOK, HearInv,
           \A z \in Zones : z \notin touched' => z \notin touched /\ place'[z] = place[z],
           \A n \in notes' \ notes : \E h \in Handlers : \E z \in job[h].todo :
               n = Note(z, job[h].queue),
           \A h \in Handlers : \/ job'[h].todo = {}
                               \/ /\ job'[h].todo \subseteq job[h].todo
                                  /\ job'[h].queue = job[h].queue,
           notes' \subseteq [zone : Zones, kind : Kinds]
    PROVE  HearInv'
<1>1. ASSUME NEW z \in Zones, NEW kind, Settled(Owner[z])',
             Settled(Owner[z]) => Rightly(z, kind)
      PROVE  Rightly(z, kind)'
  <2>1. Settled(Owner[z]) /\ \A y \in Zones : Owner[y] = Owner[z] => place'[y] = place[y]
    BY <1>1 DEF Settled
  <2>2. QED
    BY <1>1, <2>1 DEF Rightly, HearsEscalation
<1>2. \A h \in Handlers : \A z \in job[h].todo :
         /\ z \in Zones
         /\ Note(z, job[h].queue).zone = z
         /\ Note(z, job[h].queue).kind = KindOf[job[h].queue]
         /\ Settled(Owner[z]) => Rightly(z, KindOf[job[h].queue])
  BY JobType DEF HearInv, Note
<1>3. ASSUME NEW n \in notes', Settled(Owner[n.zone])' PROVE Rightly(n.zone, n.kind)'
  <2>1. n.zone \in Zones
    OBVIOUS
  <2>2. Settled(Owner[n.zone]) => Rightly(n.zone, n.kind)
    <3>1. CASE n \in notes
      BY <3>1 DEF HearInv
    <3>2. CASE n \notin notes
      <4>0. PICK h \in Handlers : \E z \in job[h].todo : n = Note(z, job[h].queue)
        BY <3>2
      <4>1. PICK z \in job[h].todo : n = Note(z, job[h].queue)
        BY <4>0
      <4>2. n.zone = z /\ n.kind = KindOf[job[h].queue]
        BY <1>2, <4>1
      <4>3. QED
        BY <1>2, <4>2
    <3>3. QED
      BY <3>1, <3>2
  <2>3. QED
    BY <1>1, <1>3, <2>1, <2>2
<1>4. ASSUME NEW h \in Handlers, NEW z \in job'[h].todo, Settled(Owner[z])'
      PROVE  Rightly(z, KindOf[job[h].queue])'
  <2>1. z \in job[h].todo /\ job'[h].queue = job[h].queue
    OBVIOUS
  <2>2. Rightly(z, KindOf[job[h].queue])'
    BY <1>1, <1>2, <1>4, <2>1
  <2>3. QED
    BY <2>1, <2>2
<1>5. QED
  BY <1>3, <1>4 DEF HearInv

(* What a match finds is rightly told to a user whose zones are settled:   *)
(* such zones are all stored.                                              *)
LEMMA MatchRightly ==
    ASSUME DispatchTypeOK, ServeInv, NEW q \in Queues, NEW T \in Targets(q), NEW z \in T,
           Settled(Owner[z])
    PROVE  Rightly(z, KindOf[q])
<1>1. \A y \in Zones : Owner[y] = Owner[z] => y \in zones
  BY DEF ServeInv, Settled
<1>2. CASE q = "enrichment"
  BY <1>2 DEF Rightly, KindOf
<1>3. CASE q = "escalation"
  <2>1. KindOf[q] = "ESCALATION" /\ HearsEscalation(z)
    BY <1>3 DEF Targets, Widened, KindOf, HearsEscalation
  <2>2. QED
    BY <2>1 DEF Rightly
<1>4. CASE q = "danger"
  <2>1. KindOf[q] = "DANGER_NEARBY"
    BY <1>4 DEF KindOf
  <2>2. PICK u \in Warned : z \in Nearest(u)
    BY <1>4 DEF Targets
  <2>3. Owner[z] = u /\ ZonesOf(u) \cap Widened = {}
    BY <2>2 DEF Nearest, ZonesOf, Warned
  <2>4. \A y \in Zones : Owner[y] = Owner[z] => ~HearsEscalation(y)
    BY <1>1, <2>3 DEF ZonesOf, Widened, HearsEscalation
  <2>5. \A y \in Zones : Owner[y] = Owner[z] => place[z].edge <= place[y].edge
    BY <1>1, <2>2, <2>3 DEF Nearest, ZonesOf
  <2>6. QED
    BY <2>1, <2>4, <2>5 DEF Rightly
<1>5. QED
  BY <1>2, <1>3, <1>4, QueueFacts

(* Every step keeps the invariant, or changes nothing.                     *)
LEMMA HearNext ==
    ASSUME DispatchTypeOK, DispatchTypeOK', ServeInv, HearInv, [DispatchNext]_dispatchVars
    PROVE  HearInv'
<1>0. notes' \subseteq [zone : Zones, kind : Kinds]
  BY DEF DispatchTypeOK
<1>1. ASSUME UNCHANGED <<touched, place, notes>>, NEW h \in Handlers,
             \A g \in Handlers \ {h} : job'[g] = job[g],
             \/ job'[h].todo = {}
             \/ job'[h].todo \subseteq job[h].todo /\ job'[h].queue = job[h].queue
      PROVE  HearInv'
  BY <1>0, <1>1, HearStep
<1>2. ASSUME NEW h \in Handlers, NEW q \in Queues, Take(h, q) PROVE HearInv'
  <2>1. job'[h].todo = {} /\ \A g \in Handlers \ {h} : job'[g] = job[g]
    BY <1>2 DEF Take, DispatchTypeOK, Free
  <2>2. QED
    BY <1>1, <1>2, <2>1 DEF Take, rows
<1>3. ASSUME NEW h \in Handlers, Match(h) PROVE HearInv'
  <2>1. PICK T \in Targets(job[h].queue) :
            job' = [job EXCEPT ![h].step = "loop", ![h].todo = T]
    BY <1>3 DEF Match
  <2>2. /\ job'[h].todo = T /\ job'[h].queue = job[h].queue
        /\ \A g \in Handlers \ {h} : job'[g] = job[g]
    BY <2>1, JobType DEF DispatchTypeOK, Job
  <2>3. UNCHANGED <<place, touched, notes>>
    BY <1>3 DEF Match, rows
  <2>4. \A u, z, kind : Settled(u)' = Settled(u) /\ Rightly(z, kind)' = Rightly(z, kind)
    BY <2>3 DEF Settled, Rightly, HearsEscalation
  <2>5. \A z \in T : Settled(Owner[z]) => Rightly(z, KindOf[job[h].queue])
    BY MatchRightly, JobType
  <2>6. QED
    BY <2>2, <2>3, <2>4, <2>5 DEF HearInv
<1>4. ASSUME NEW h \in Handlers, NEW z \in Zones, Insert(h, z) PROVE HearInv'
  <2>1. /\ z \in job[h].todo /\ notes' = notes \cup {Note(z, job[h].queue)}
        /\ UNCHANGED <<touched, place>>
    BY <1>4 DEF Insert
  <2>2. /\ job'[h].todo \subseteq job[h].todo /\ job'[h].queue = job[h].queue
        /\ \A g \in Handlers \ {h} : job'[g] = job[g]
    BY <1>4, JobType DEF Insert, DispatchTypeOK, Job
  <2>3. \A n \in notes' \ notes : \E g \in Handlers : \E y \in job[g].todo :
           n = Note(y, job[g].queue)
    BY <2>1
  <2>4. QED
    BY <1>0, <2>1, <2>2, <2>3, HearStep
<1>5. ASSUME NEW h \in Handlers, NEW z \in Zones,
             Skip(h, z) \/ Lookup(h, z) \/ \E d \in Devices : Send(h, z, d)
      PROVE  HearInv'
  <2>1. /\ job'[h].todo \subseteq job[h].todo /\ job'[h].queue = job[h].queue
        /\ \A g \in Handlers \ {h} : job'[g] = job[g]
    <3>1. CASE Skip(h, z)
      BY <3>1, JobType DEF Skip, DispatchTypeOK, Job
    <3>2. CASE Lookup(h, z)
      <4>1. PICK S : job' = [job EXCEPT ![h].fresh = {}, ![h].sends = S]
        BY <3>2 DEF Lookup
      <4>2. QED
        BY <4>1, JobType DEF DispatchTypeOK, Job
    <3>3. CASE \E d \in Devices : Send(h, z, d)
      BY <3>3, JobType DEF Send, DispatchTypeOK, Job
    <3>4. QED
      BY <1>5, <3>1, <3>2, <3>3
  <2>2. UNCHANGED <<touched, place, notes>>
    BY <1>5 DEF Skip, Lookup, Send, rows
  <2>3. QED
    BY <1>1, <2>1, <2>2
<1>6. ASSUME NEW h \in Handlers, job' = [job EXCEPT ![h] = Free], UNCHANGED rows
      PROVE  HearInv'
  <2>1. job'[h].todo = {} /\ \A g \in Handlers \ {h} : job'[g] = job[g]
    BY <1>6 DEF DispatchTypeOK, Free
  <2>2. QED
    BY <1>1, <1>6, <2>1 DEF rows
<1>7. ASSUME NEW h \in Handlers,
             \/ Refuse(h) \/ Crash(h) \/ Finish(h)
             \/ \E z \in Zones : BreakForeignKey(h, z)
      PROVE  HearInv'
  BY <1>6, <1>7 DEF Refuse, Crash, Finish, BreakForeignKey, Reject
<1>8. ASSUME NEW h \in Handlers, LoseConnection(h) PROVE HearInv'
  <2>1. /\ job'[h].queue = job[h].queue /\ job'[h].todo = job[h].todo
        /\ \A g \in Handlers \ {h} : job'[g] = job[g]
    BY <1>8, JobType DEF LoseConnection, DispatchTypeOK, Job
  <2>2. QED
    BY <1>1, <1>8, <2>1 DEF LoseConnection, rows
<1>9. ASSUME NEW z \in Zones, MoveZone(z) \/ DeleteZone(z) PROVE HearInv'
  <2>1. touched' = touched \cup {z} /\ job' = job /\ notes' \subseteq notes
    BY <1>9 DEF MoveZone, DeleteZone, Touch
  <2>2. \A y \in Zones : y \notin touched' => place'[y] = place[y]
    BY <1>9, <2>1 DEF MoveZone, DeleteZone, DispatchTypeOK
  <2>3. QED
    BY <1>0, <2>1, <2>2, HearStep
<1>10. CASE Age \/ PublishScored \/ UNCHANGED dispatchVars
  <2>1. UNCHANGED <<touched, place, notes, job>>
    BY <1>10 DEF Age, PublishScored, dispatchVars, rows
  <2>2. QED
    BY <1>0, <2>1, HearStep
<1>11. QED
  BY <1>2, <1>3, <1>4, <1>5, <1>7, <1>8, <1>9, <1>10 DEF DispatchNext, Run

(* Whichever of the two queues is served first, and however often: a user  *)
(* whose zones stayed put is not both escalated to and warned, nor warned  *)
(* for two zones of which one is nearer.                                   *)
THEOREM HeardOnce == DispatchSpec => []SettledUserHearsOnce
<1>1. DispatchTypeOK /\ HearInv => SettledUserHearsOnce
  <2> SUFFICES ASSUME DispatchTypeOK, HearInv, NEW u \in Users, Settled(u),
                      NEW m \in notes, NEW n \in notes, Owner[m.zone] = u, Owner[n.zone] = u,
                      n.kind = "DANGER_NEARBY"
               PROVE  /\ m.kind # "ESCALATION"
                      /\ m.kind = "DANGER_NEARBY" => place[m.zone].edge = place[n.zone].edge
    BY DEF SettledUserHearsOnce, Settled
  <2>1. m.zone \in Zones /\ n.zone \in Zones
    BY DEF DispatchTypeOK
  <2>2. Rightly(m.zone, m.kind) /\ Rightly(n.zone, n.kind)
    BY DEF HearInv
  <2>3. m.kind # "ESCALATION"
    BY <2>1, <2>2 DEF Rightly
  <2>4. ASSUME m.kind = "DANGER_NEARBY" PROVE place[m.zone].edge = place[n.zone].edge
    <3>1. place[m.zone].edge <= place[n.zone].edge /\ place[n.zone].edge <= place[m.zone].edge
      BY <2>1, <2>2, <2>4 DEF Rightly
    <3>2. place[m.zone].edge \in Nat /\ place[n.zone].edge \in Nat
      BY <2>1, DispatchAssumption DEF DispatchTypeOK, PlaceType
    <3>3. QED
      BY <3>1, <3>2
  <2>5. QED
    BY <2>3, <2>4
<1>2. QED
  BY <1>1, TypeInit, TypeNext, ServeInit, ServeNext, HearInit, HearNext, PTL
     DEF DispatchSpec
=============================================================================
