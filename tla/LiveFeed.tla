------------------------------- MODULE LiveFeed -------------------------------
(***************************************************************************)
(* What open maps show of one alert.  A map learns of it in three ways:    *)
(* the live events of the SSE stream, the responses to its own requests,   *)
(* and a reload of everything nearby once a minute, which the API may      *)
(* answer from a cache in Redis.                                           *)
(*                                                                         *)
(* Row and transactions are AlertRow's.  publishLive runs before the       *)
(* commit, so an event may tell of a row that is not stored yet or never   *)
(* will be; Redis pub/sub and SSE forget what they cannot deliver, and     *)
(* Redis's listener container hands every message to a thread of its own,  *)
(* so that events arrive in any order.                                     *)
(***************************************************************************)
EXTENDS AlertRow

CONSTANTS
    Maps,    \* open dashboards whose nearby query includes the alert
    Slots,   \* reloads a map may have under way at once
    MaxNews  \* bound on the events and responses on their way to a map

ASSUME LiveAssumption == MaxNews \in Nat

VARIABLES
    news,   \* news[m]: live events, and responses to m's writes, on their way
    load,   \* load[m][s]: a reload of m
    cache,  \* the nearby entry in Redis: the alert as listed, if there is one
    swept,  \* alerts an ExpireOverdueAsync returned, not yet published
    shown   \* shown[m]: the alert in m's list; NoRow when it is not there

mapVars == <<news, load, cache, swept, shown>>
liveVars == <<vars, mapVars>>
-----------------------------------------------------------------------------
(* LiveEvent and CommentLiveEvent, which carries the counter only.         *)
Event == [kind: {"alert", "comment"}, row: Row]
AlertEvent(r) == [kind |-> "alert", row |-> r]
CommentEvent(n) == [kind |-> "comment", row |-> [NoRow EXCEPT !.commentCount = n]]

(* What transaction x publishes.                                           *)
EventOf(x) ==
    IF x.op = "comment" THEN CommentEvent(Written(x).commentCount)
                        ELSE AlertEvent(Written(x))

(* "missed": the API has found no cache entry.  "read": the query is done. *)
(* "answered": the answer is on its way.                                   *)
Load == [phase: {"idle", "missed", "read", "answered"}, listed: Row]
NoLoad == [phase |-> "idle", listed |-> NoRow]

CacheEntry == [cached: BOOLEAN, listed: Row]
NoEntry == [cached |-> FALSE, listed |-> NoRow]

(* AlertRepository.findNearby.                                             *)
Nearby == IF row.status \in OpenStatuses /\ ~overdue THEN row ELSE NoRow

(* Fault: a closed alert is shown like any other.                          *)
FaultyApplied(old, e) ==
    CASE e.kind = "alert" -> e.row
      [] e.kind = "comment" /\ old # NoRow ->
            [old EXCEPT !.commentCount = e.row.commentCount]
      [] OTHER -> NoRow

(* A map's alert after an event or a response: upsertAlert removes what is *)
(* closed, a comment's counter goes to an alert that is listed.            *)
Applied(old, e) ==
    CASE e.kind = "alert" /\ e.row.status \in OpenStatuses -> e.row
      [] e.kind = "comment" /\ old # NoRow ->
            [old EXCEPT !.commentCount = e.row.commentCount]
      [] OTHER -> NoRow
-----------------------------------------------------------------------------
LiveInit ==
    /\ Init
    /\ news = [m \in Maps |-> {}]
    /\ load = [m \in Maps |-> [s \in Slots |-> NoLoad]]
    /\ cache = NoEntry
    /\ swept = {}
    /\ shown = [m \in Maps |-> NoRow]

Send(S, e) ==
    /\ \A m \in S : Cardinality(news[m]) < MaxNews
    /\ news' = [m \in Maps |-> IF m \in S THEN news[m] \cup {e} ELSE news[m]]

(* convertAndSend and the broadcast behind it reach the maps whose stream  *)
(* is up, on a replica that hears Redis; every failure is swallowed.       *)
Publish(e) == \E S \in SUBSET Maps : Send(S, e)

(* The steps of AlertRow that tell nobody anything: all but Announce and   *)
(* Commit.  (A refused confirm ends its transaction as an abort does.)     *)
Write(t) ==
    /\ Request(t) \/ (Serve(t) /\ Running(t)') \/ Abort(t)
    /\ tx'[t].phase # "announced"
    /\ UNCHANGED mapVars

PublishLive(t) ==
    /\ Announce(t)
    /\ Publish(EventOf(tx[t]))
    /\ UNCHANGED <<load, cache, swept, shown>>

(* The commit, and the response to the map that sent the request, if one   *)
(* did: create, confirm and resolve answer with the alert.                 *)
Respond(t) ==
    /\ Commit(t)
    /\ \/ UNCHANGED news
       \/ /\ tx[t].op \in {"create", "confirm", "resolve"}
          /\ \E m \in Maps : Send({m}, AlertEvent(Written(tx[t])))
    /\ UNCHANGED <<load, cache, swept, shown>>

(* resolve's early return: the alert is closed already.                    *)
RespondClosed(m) ==
    /\ row.status \in ClosedStatuses
    /\ Send({m}, AlertEvent(row))
    /\ UNCHANGED <<vars, load, cache, swept, shown>>

(* SweepOnceAsync: the UPDATE, and one event for each row it returned.     *)
SweepOnce ==
    /\ Sweep
    /\ swept' = swept \cup {row'}
    /\ UNCHANGED <<news, load, cache, shown>>

PublishSwept(r) ==
    /\ r \in swept
    /\ swept' = swept \ {r}
    /\ Publish(AlertEvent(r))
    /\ UNCHANGED <<vars, load, cache, shown>>
-----------------------------------------------------------------------------
Hear(m, e) ==
    /\ e \in news[m]
    /\ news' = [news EXCEPT ![m] = @ \ {e}]
    /\ shown' = [shown EXCEPT ![m] = Applied(@, e)]
    /\ UNCHANGED <<vars, load, cache, swept>>

(* A broken stream loses what was on it: EventSource reconnects by itself  *)
(* and asks for nothing it has missed.                                     *)
Miss(m, e) ==
    /\ e \in news[m]
    /\ news' = [news EXCEPT ![m] = @ \ {e}]
    /\ UNCHANGED <<vars, load, cache, swept, shown>>
-----------------------------------------------------------------------------
Loading(m, s, from, to, listed) ==
    /\ load[m][s].phase = from
    /\ load' = [load EXCEPT ![m][s] = [phase |-> to, listed |-> listed]]
    /\ UNCHANGED <<vars, news, swept>>

(* The interval fires; readCachedNearby finds an entry ...                 *)
AskHit(m, s) ==
    /\ cache.cached
    /\ Loading(m, s, "idle", "answered", cache.listed)
    /\ UNCHANGED <<cache, shown>>

(* ... or none, or Redis is unreachable.                                   *)
AskMiss(m, s) == Loading(m, s, "idle", "missed", NoRow) /\ UNCHANGED <<cache, shown>>

Query(m, s) == Loading(m, s, "missed", "read", Nearby) /\ UNCHANGED <<cache, shown>>

(* writeCachedNearby, whose failure is swallowed.                          *)
Fill(m, s) ==
    LET found == load[m][s].listed
    IN /\ Loading(m, s, "read", "answered", found)
       /\ \/ cache' = [cached |-> TRUE, listed |-> found]
          \/ UNCHANGED cache
       /\ UNCHANGED shown

(* setAlerts(nearby.value): the answer replaces the list.                  *)
Receive(m, s) ==
    /\ Loading(m, s, "answered", "idle", NoRow)
    /\ shown' = [shown EXCEPT ![m] = load[m][s].listed]
    /\ UNCHANGED cache

(* No answer arrives and the list stays as it is, wherever the request     *)
(* failed: up to here it has changed nothing but the cache, perhaps.       *)
Lose(m, s) == Loading(m, s, "answered", "idle", NoRow) /\ UNCHANGED <<cache, shown>>

(* Fault: the entry is written without a lifetime.                         *)
FaultyForget ==
    /\ cache.cached /\ cache.listed = NoRow
    /\ cache' = NoEntry
    /\ UNCHANGED <<vars, news, load, swept, shown>>

(* The entry's lifetime is over.                                           *)
Forget ==
    /\ cache.cached
    /\ cache' = NoEntry
    /\ UNCHANGED <<vars, news, load, swept, shown>>

Reload(m, s) == AskHit(m, s) \/ AskMiss(m, s) \/ Query(m, s) \/ Fill(m, s)

LiveNext ==
    \/ \E t \in Txns : Write(t) \/ PublishLive(t) \/ Respond(t)
    \/ \E m \in Maps : RespondClosed(m)
    \/ \E m \in Maps : \E e \in news[m] : Hear(m, e) \/ Miss(m, e)
    \/ \E m \in Maps, s \in Slots : Reload(m, s) \/ Receive(m, s) \/ Lose(m, s)
    \/ SweepOnce
    \/ \E r \in swept : PublishSwept(r)
    \/ Lapse /\ UNCHANGED mapVars
    \/ Forget

LiveSpec == LiveInit /\ [][LiveNext]_liveVars

(* The minute's interval keeps firing, the API goes on with what it was    *)
(* asked, not every request fails, and the cache entry has a lifetime.     *)
LiveFairSpec ==
    /\ LiveSpec
    /\ WF_liveVars(Forget)
    /\ \A m \in Maps, s \in Slots :
          WF_liveVars(Reload(m, s)) /\ SF_liveVars(Receive(m, s))
-----------------------------------------------------------------------------
(* Every variable keeps its type.                                          *)
LiveTypeOK ==
    /\ TypeOK
    /\ news \in [Maps -> SUBSET Event]
    /\ load \in [Maps -> [Slots -> Load]]
    /\ cache \in CacheEntry
    /\ swept \subseteq Row
    /\ shown \in [Maps -> Row]

Opens(e) == e.kind = "alert" /\ e.row.status \in OpenStatuses

(* Nobody on the way to a map says that the alert is open.                 *)
NoOpenNews ==
    /\ \A m \in Maps : \A e \in news[m] : ~Opens(e)
    /\ \A m \in Maps, s \in Slots : load[m][s].listed = NoRow
    /\ cache.listed = NoRow

(* The alert is closed for good and nothing that is old says otherwise.    *)
Gone == Settled /\ NoOpenNews /\ \A m \in Maps : shown[m] = NoRow

(* An alert that is gone stays away from every map, whatever transactions, *)
(* events, responses and reloads follow.                                   *)
GoneForGood == [][Gone => Gone']_liveVars

(* However events were lost, reordered or sent in vain, once nobody writes *)
(* any more the reloads bring every map to what the database lists.        *)
MapsConverge ==
    <>[](\A t \in Txns : ~Running(t)) => <>[](\A m \in Maps : shown[m] = Nearby)
-----------------------------------------------------------------------------
=============================================================================
