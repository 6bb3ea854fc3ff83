----------------------------- MODULE StatsSnapshot -----------------------------
(***************************************************************************)
(* The statistics of seven days that the dashboard shows.  The worker      *)
(* computes them after every new alert (StatsAggregator) and the API when  *)
(* it finds none that are fresh (StatsService); both keep them in Redis    *)
(* under one key, which holds what was written last and not what was read  *)
(* last.                                                                   *)
(*                                                                         *)
(* The seven days are counted back from the start of a computation, its    *)
(* three queries see what is committed when each is made.  Ages are ticks  *)
(* of one clock, which the services share.                                 *)
(***************************************************************************)
EXTENDS Integers

CONSTANTS
    Workers,    \* recomputes of the worker's replicas
    Readers,    \* requests to the API
    Ttl         \* STATS_CACHE_TTL_SECONDS, in ticks

ASSUME StatsAssumption == Ttl \in Nat \ {0} /\ Workers \cap Readers = {}

VARIABLES
    snapshot,   \* "stats:7d"
    work,       \* the computations under way
    quiet       \* ticks since the alerts last changed

statsVars == <<snapshot, work, quiet>>

NoSnapshot == [there |-> FALSE]
Resting == [at |-> "rest"]

(* stamp: ticks since generatedAtUtc; took: ticks from the start of the    *)
(* computation to that; current: whether the alerts of the seven days are  *)
(* those it counts or, before its first query, will count.                 *)
Snapshot(c) == [there |-> TRUE, stamp |-> c.stamp, current |-> c.current, took |-> c.took]

(* A snapshot may be there from a worker that gave it no lifetime.         *)
StatsInit ==
    /\ snapshot \in {NoSnapshot,
                     [there |-> TRUE, stamp |-> Ttl + 1, current |-> FALSE, took |-> 0]}
    /\ work = [c \in Workers \cup Readers |-> Resting]
    /\ quiet = 0

Becomes(c, now) == work' = [work EXCEPT ![c] = now]
-----------------------------------------------------------------------------
(* Fault: what Redis still has is fresh.                                   *)
FaultyIsFresh(s) == s.there

IsFresh(s) == s.there /\ s.stamp < Ttl

(* RecomputeAsync: generatedAtUtc is taken first.                          *)
Recompute(w) ==
    /\ work[w].at = "rest"
    /\ Becomes(w, [at |-> "query", stamp |-> 0, current |-> TRUE, took |-> 0])
    /\ UNCHANGED <<snapshot, quiet>>

(* summary: Redis has none, has an old one, or does not answer.            *)
Summary(r) ==
    /\ work[r].at = "rest"
    /\ Becomes(r, [at |-> "query", stamp |-> 0, current |-> TRUE, took |-> 0])
    /\ UNCHANGED <<snapshot, quiet>>

(* The first of the queries.                                               *)
Query(c) ==
    /\ work[c].at = "query"
    /\ Becomes(c, [work[c] EXCEPT !.at = IF c \in Readers THEN "stamp" ELSE "write"])
    /\ UNCHANGED <<snapshot, quiet>>

(* The API takes the time when its queries are through.                    *)
Stamp(r) ==
    /\ work[r].at = "stamp"
    /\ Becomes(r, [work[r] EXCEPT !.at = "write", !.stamp = 0])
    /\ UNCHANGED <<snapshot, quiet>>

WriteSnapshot(c) ==
    /\ work[c].at = "write"
    /\ snapshot' = Snapshot(work[c])
    /\ Becomes(c, Resting)
    /\ UNCHANGED quiet

(* A query throws, Redis does not answer, the process dies.                *)
GiveUp(c) ==
    /\ work[c].at # "rest"
    /\ Becomes(c, Resting)
    /\ UNCHANGED <<snapshot, quiet>>
-----------------------------------------------------------------------------
Outdated(cs) ==
    /\ quiet' = 0
    /\ work' = [c \in DOMAIN work |->
                  IF c \in cs THEN [work[c] EXCEPT !.current = FALSE] ELSE work[c]]
    /\ snapshot' = IF snapshot.there THEN [snapshot EXCEPT !.current = FALSE] ELSE NoSnapshot

(* An alert is reported or scored, which queries still to be made will see. *)
Change == Outdated({c \in DOMAIN work : work[c].at \in {"stamp", "write"}})

(* An alert leaves the seven days, though not those already counted back.  *)
Leave == Outdated({c \in DOMAIN work : work[c].at # "rest"})

(* The API's time of computing ends with its stamp.                        *)
Tick ==
    /\ quiet' = quiet + 1
    /\ work' = [c \in DOMAIN work |->
                  CASE work[c].at = "rest" -> Resting
                    [] c \in Readers /\ work[c].at \in {"query", "stamp"} ->
                          [work[c] EXCEPT !.took = @ + 1]
                    [] OTHER -> [work[c] EXCEPT !.stamp = @ + 1]]
    /\ snapshot' = IF snapshot.there THEN [snapshot EXCEPT !.stamp = @ + 1] ELSE NoSnapshot

(* Redis drops the key when its lifetime is over, or earlier.              *)
Expire ==
    /\ snapshot.there
    /\ snapshot' = NoSnapshot
    /\ UNCHANGED <<work, quiet>>

StatsNext ==
    \/ \E w \in Workers : Recompute(w)
    \/ \E r \in Readers : Summary(r) \/ Stamp(r)
    \/ \E c \in Workers \cup Readers : Query(c) \/ WriteSnapshot(c) \/ GiveUp(c)
    \/ Change \/ Leave \/ Tick \/ Expire

StatsSpec == StatsInit /\ [][StatsNext]_statsVars
-----------------------------------------------------------------------------
(* "The snapshot is never older than its configured lifetime no matter     *)
(* which one wrote it last" (StatsService.java:26): when the alerts have   *)
(* not changed for that long, and as long as the API took to compute, what *)
(* a request accepts from Redis shows them as they are; although computing *)
(* may overlap with changes and with computing, the older may be written   *)
(* last, and nothing may be computed anew.                                 *)
StatsCatchUp ==
    (IsFresh(snapshot) /\ quiet >= Ttl + snapshot.took) => snapshot.current
=============================================================================
