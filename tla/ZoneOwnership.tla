---------------------------- MODULE ZoneOwnership ----------------------------
(***************************************************************************)
(* Who owns a watch zone, and who owns the push subscription that hears of *)
(* it.  Either row belongs to an account or to a browser's fingerprint;    *)
(* claiming moves a fingerprint's zones and subscriptions to an account.   *)
(*                                                                         *)
(* WatchZone and PushSubscription are JPA entities without @Version: a     *)
(* transaction at READ COMMITTED loads a row, works on its copy, and at    *)
(* commit writes every column of a changed copy back.  An UPDATE or DELETE *)
(* that then meets no row fails the whole transaction.  Only a claim's     *)
(* bulk UPDATE of the subscriptions runs, and locks, before the commit.    *)
(***************************************************************************)
EXTENDS Naturals, FiniteSets

CONSTANTS
    Zones,         \* ids of watch zones
    Legacy,        \* zones older than the ownership migration: no owner at all
    Endpoints,     \* push endpoints of browsers
    Accounts,
    Fingerprints,
    Bodies,        \* valid contents of a zone: name, contact, outline, categories
    Txns,          \* request threads, one transaction each
    MaxInserts,    \* bound on the subscriptions ever inserted
    NONE           \* SQL NULL, and a row that is not there

VARIABLES
    zones,      \* zones[z]: the committed watch_zones row
    subs,       \* subs[e]: the committed push_subscriptions row
    inserted,   \* how many subscriptions were inserted: the identity column
    tx,         \* tx[t]: the transaction thread t is running
    creator,    \* history: whom each zone was created for
    saver,      \* history: whom each subscription was last saved for
    presented   \* history: <<account, fingerprint>> of every claim

vars == <<zones, subs, inserted, tx, creator, saver, presented>>
-----------------------------------------------------------------------------
(* The two owner columns of either table.                                  *)
Owner == [userId: Accounts \cup {NONE}, fingerprint: Fingerprints \cup {NONE}]
Nobody == [userId |-> NONE, fingerprint |-> NONE]

(* ZoneOwner: its constructor refuses anything but exactly one.            *)
ZoneOwner == {o \in Owner : (o.userId = NONE) # (o.fingerprint = NONE)}

(* AuthContext.require and requireClientFingerprint: a claim shows both.   *)
Claimant == [userId: Accounts, fingerprint: Fingerprints]

ZoneRow == [owner: Owner, body: Bodies]
SubRow == [id: 1 .. MaxInserts, owner: Owner]
RowOrNone(S) == S \cup {NONE}

(* "loaded": the rows the request needs are in memory.  "moved": the       *)
(* claim's bulk UPDATE has run and holds its row locks.                    *)
Transaction == [op: {"none", "update", "delete", "claim", "save", "unsubscribe"},
                phase: {"idle", "loaded", "moved"},
                who: Owner,
                body: RowOrNone(Bodies),
                copy: [Zones -> RowOrNone(ZoneRow)],
                endpoint: RowOrNone(Endpoints),
                seen: RowOrNone(SubRow),
                moved: SUBSET Endpoints]

ASSUME ZoneAssumption ==
    /\ Legacy \subseteq Zones
    /\ NONE \notin Accounts \cup Fingerprints
    /\ NONE \notin Owner \cup ZoneRow \cup SubRow
    /\ MaxInserts \in Nat

NoCopies == [z \in Zones |-> NONE]

Idle == [op |-> "none", phase |-> "idle", who |-> Nobody, body |-> NONE,
         copy |-> NoCopies, endpoint |-> NONE, seen |-> NONE, moved |-> {}]

Running(t) == tx[t].phase # "idle"

(* Another transaction's bulk UPDATE holds the row of e.                   *)
Locked(t, e) == \E s \in Txns \ {t} : e \in tx[s].moved

(* Faults.  Definitions named Faulty... are not the code: each is a         *)
(* plausible slip in the definition that follows it.                       *)

(* The test of findOwned, and the filter of PushSubscriptionService.delete. *)
Owns(o, r) ==
    IF o.userId # NONE
    THEN o.userId = r.owner.userId
    ELSE /\ r.owner.userId = NONE
         /\ r.owner.fingerprint # NONE
         /\ r.owner.fingerprint = o.fingerprint

(* Fault: every zone without an account, the legacy ones too.              *)
FaultyClaimable(f) == {z \in Zones : zones[z] # NONE /\ zones[z].owner.userId = NONE}

(* findByOwnerFingerprintAndUserIdIsNull.                                  *)
Claimable(f) ==
    {z \in Zones : /\ zones[z] # NONE
                   /\ zones[z].owner.fingerprint = f
                   /\ zones[z].owner.userId = NONE}

(* The owner columns as a claim leaves them.                               *)
Claimed(o, u) == [userId |-> u, fingerprint |-> NONE]

(* The entity of zone z as transaction x leaves it.                        *)
Written(x, z) ==
    IF x.op = "claim"
    THEN [x.copy[z] EXCEPT !.owner = Claimed(@, x.who.userId)]
    ELSE [x.copy[z] EXCEPT !.body = x.body]

Loaded(x) == {z \in Zones : x.copy[z] # NONE}

(* Hibernate's dirty check: an entity equal to what was loaded is skipped. *)
Dirty(x) == {z \in Loaded(x) : Written(x, z) # x.copy[z]}
-----------------------------------------------------------------------------
Init ==
    /\ zones \in {f \in [Zones -> RowOrNone(ZoneRow)] :
                    \A z \in Zones : IF z \in Legacy
                                     THEN f[z] # NONE /\ f[z].owner = Nobody
                                     ELSE f[z] = NONE}
    /\ subs = [e \in Endpoints |-> NONE]
    /\ inserted = 0
    /\ tx = [t \in Txns |-> Idle]
    /\ creator = [z \in Zones |-> IF z \in Legacy THEN Nobody ELSE NONE]
    /\ saver = [e \in Endpoints |-> NONE]
    /\ presented = {}

Begin(t, x) == ~Running(t) /\ tx' = [tx EXCEPT ![t] = x]

End(t) == tx' = [tx EXCEPT ![t] = Idle]

(* WatchZoneService.create: one INSERT under a random id nobody knows yet. *)
CreateZone(z, o, b) ==
    /\ creator[z] = NONE
    /\ zones' = [zones EXCEPT ![z] = [owner |-> o, body |-> b]]
    /\ creator' = [creator EXCEPT ![z] = o]
    /\ UNCHANGED <<subs, inserted, tx, saver, presented>>

(* findOwned; anything else is a 404 and changes nothing.                  *)
BeginOnZone(t, op, z, o, b) ==
    /\ zones[z] # NONE
    /\ Owns(o, zones[z])
    /\ Begin(t, [Idle EXCEPT !.op = op, !.phase = "loaded", !.who = o, !.body = b,
                             !.copy = [NoCopies EXCEPT ![z] = zones[z]]])
    /\ UNCHANGED <<zones, subs, inserted, creator, saver, presented>>

BeginUpdate(t, z, o, b) == BeginOnZone(t, "update", z, o, b)
BeginDelete(t, z, o) == BeginOnZone(t, "delete", z, o, NONE)

(* WatchZoneService.claim: load the zones ...                              *)
BeginClaim(t, c) ==
    /\ Begin(t, [Idle EXCEPT !.op = "claim", !.phase = "loaded", !.who = c,
                             !.copy = [z \in Zones |->
                                         IF z \in Claimable(c.fingerprint)
                                         THEN zones[z] ELSE NONE]])
    /\ presented' = presented \cup {<<c.userId, c.fingerprint>>}
    /\ UNCHANGED <<zones, subs, inserted, creator, saver>>

(* The WHERE clause of claimByFingerprint.                                 *)
SubscriptionsOf(f) ==
    {e \in Endpoints : subs[e] # NONE /\ subs[e].owner.fingerprint = f}

(* ... then claimByFingerprint: the UPDATE waits for rows that another     *)
(* claim has locked, and keeps its own locked until the end.               *)
ClaimSubscriptions(t) ==
    LET mine == SubscriptionsOf(tx[t].who.fingerprint)
    IN /\ tx[t].op = "claim" /\ tx[t].phase = "loaded"
       /\ \A e \in mine : ~Locked(t, e)
       /\ tx' = [tx EXCEPT ![t].phase = "moved", ![t].moved = mine]
       /\ UNCHANGED <<zones, subs, inserted, creator, saver, presented>>

(* PushSubscriptionService.save: findByEndpoint.                           *)
BeginSave(t, e, o) ==
    /\ Begin(t, [Idle EXCEPT !.op = "save", !.phase = "loaded", !.who = o,
                             !.endpoint = e, !.seen = subs[e]])
    /\ UNCHANGED <<zones, subs, inserted, creator, saver, presented>>

(* PushSubscriptionService.delete: a no-op unless it is there and owned.   *)
BeginUnsubscribe(t, e, o) ==
    /\ subs[e] # NONE
    /\ Owns(o, subs[e])
    /\ Begin(t, [Idle EXCEPT !.op = "unsubscribe", !.phase = "loaded", !.who = o,
                             !.endpoint = e, !.seen = subs[e]])
    /\ UNCHANGED <<zones, subs, inserted, creator, saver, presented>>
-----------------------------------------------------------------------------
(* update and claim at commit.  A changed zone that is gone by now fails   *)
(* the transaction (Abort); an unchanged one is not even looked at.        *)
CommitZones(t) ==
    LET x == tx[t]
    IN /\ \/ x.op = "update" /\ x.phase = "loaded"
          \/ x.op = "claim" /\ x.phase = "moved"
       /\ \A z \in Dirty(x) : zones[z] # NONE
       /\ zones' = [z \in Zones |-> IF z \in Dirty(x) THEN Written(x, z) ELSE zones[z]]
       /\ subs' = [e \in Endpoints |->
                     IF e \in x.moved
                     THEN [subs[e] EXCEPT !.owner = Claimed(@, x.who.userId)]
                     ELSE subs[e]]
       /\ End(t)
       /\ UNCHANGED <<inserted, creator, saver, presented>>

(* delete at commit; a row that is gone fails it.                          *)
CommitDelete(t) ==
    /\ tx[t].op = "delete" /\ tx[t].phase = "loaded"
    /\ \A z \in Loaded(tx[t]) : zones[z] # NONE
    /\ zones' = [z \in Zones |-> IF z \in Loaded(tx[t]) THEN NONE ELSE zones[z]]
    /\ End(t)
    /\ UNCHANGED <<subs, inserted, creator, saver, presented>>

(* save of an unknown endpoint: INSERT under the unique endpoint.          *)
CommitInsert(t) ==
    LET x == tx[t]
    IN /\ x.op = "save" /\ x.seen = NONE
       /\ subs[x.endpoint] = NONE
       /\ inserted < MaxInserts
       /\ inserted' = inserted + 1
       /\ subs' = [subs EXCEPT ![x.endpoint] = [id |-> inserted + 1, owner |-> x.who]]
       /\ saver' = [saver EXCEPT ![x.endpoint] = x.who]
       /\ End(t)
       /\ UNCHANGED <<zones, creator, presented>>

(* The row x has read is still there, and no claim has it locked.          *)
StillThere(t) ==
    LET x == tx[t]
    IN /\ subs[x.endpoint] # NONE
       /\ subs[x.endpoint].id = x.seen.id
       /\ ~Locked(t, x.endpoint)

(* save of a known one: both owner columns are written back if either of   *)
(* them differs from what was read.                                        *)
CommitReown(t) ==
    LET x == tx[t]
    IN /\ x.op = "save" /\ x.seen # NONE
       /\ IF x.seen.owner = x.who
          THEN UNCHANGED <<subs, saver>>
          ELSE /\ StillThere(t)
               /\ subs' = [subs EXCEPT ![x.endpoint].owner = x.who]
               /\ saver' = [saver EXCEPT ![x.endpoint] = x.who]
       /\ End(t)
       /\ UNCHANGED <<zones, inserted, creator, presented>>

CommitUnsubscribe(t) ==
    /\ tx[t].op = "unsubscribe"
    /\ StillThere(t)
    /\ subs' = [subs EXCEPT ![tx[t].endpoint] = NONE]
    /\ saver' = [saver EXCEPT ![tx[t].endpoint] = NONE]
    /\ End(t)
    /\ UNCHANGED <<zones, inserted, creator, presented>>

(* The worker deletes a subscription that its push service disowns.        *)
Prune(e) ==
    /\ subs[e] # NONE
    /\ \A s \in Txns : e \notin tx[s].moved
    /\ subs' = [subs EXCEPT ![e] = NONE]
    /\ saver' = [saver EXCEPT ![e] = NONE]
    /\ UNCHANGED <<zones, inserted, tx, creator, presented>>

(* A stale row, a unique violation, a deadlock, a lost connection.         *)
Abort(t) ==
    /\ Running(t)
    /\ End(t)
    /\ UNCHANGED <<zones, subs, inserted, creator, saver, presented>>

Request(t) ==
    \/ \E z \in Zones, o \in ZoneOwner, b \in Bodies : BeginUpdate(t, z, o, b)
    \/ \E z \in Zones, o \in ZoneOwner : BeginDelete(t, z, o)
    \/ \E c \in Claimant : BeginClaim(t, c)
    \/ \E e \in Endpoints, o \in ZoneOwner : BeginSave(t, e, o)
    \/ \E e \in Endpoints, o \in ZoneOwner : BeginUnsubscribe(t, e, o)

Finish(t) ==
    \/ ClaimSubscriptions(t)
    \/ CommitZones(t)
    \/ CommitDelete(t)
    \/ CommitInsert(t)
    \/ CommitReown(t)
    \/ CommitUnsubscribe(t)
    \/ Abort(t)

Next ==
    \/ \E z \in Zones, o \in ZoneOwner, b \in Bodies : CreateZone(z, o, b)
    \/ \E t \in Txns : Request(t) \/ Finish(t)
    \/ \E e \in Endpoints : Prune(e)

Spec == Init /\ [][Next]_vars
-----------------------------------------------------------------------------
(* Every variable keeps its type.                                          *)
ZoneTypeOK ==
    /\ zones \in [Zones -> RowOrNone(ZoneRow)]
    /\ subs \in [Endpoints -> RowOrNone(SubRow)]
    /\ inserted \in 0 .. MaxInserts
    /\ tx \in [Txns -> Transaction]
    /\ creator \in [Zones -> RowOrNone(Owner)]
    /\ saver \in [Endpoints -> RowOrNone(Owner)]
    /\ presented \subseteq Accounts \X Fingerprints

(* The either-or of both tables: no row belongs to an account and to a     *)
(* fingerprint at once, and every subscription belongs to one of them.     *)
(* (The database checks it for subscriptions only.)                        *)
OneOwnerEach ==
    /\ \A z \in Zones : zones[z] # NONE =>
            zones[z].owner.userId = NONE \/ zones[z].owner.fingerprint = NONE
    /\ \A e \in Endpoints : subs[e] # NONE => subs[e].owner \in ZoneOwner

(* o got from p by a claim that showed p's fingerprint.                    *)
Inherits(o, p) ==
    /\ p.userId = NONE
    /\ o.fingerprint = NONE
    /\ <<o.userId, p.fingerprint>> \in presented

(* Nobody comes by another's zone or subscription, however the whole-row   *)
(* writes of creates, edits, claims and saves overlap: a zone belongs to   *)
(* whom it was created for, or to an account that claimed with that        *)
(* fingerprint (so a signed-in user's zone never leaves, and a legacy zone *)
(* stays without an owner); a subscription belongs to whom it was last      *)
(* saved for, or to an account that claimed from that.                     *)
RightfulOwners ==
    /\ \A z \in Zones : zones[z] # NONE =>
            \/ zones[z].owner = creator[z]
            \/ Inherits(zones[z].owner, creator[z])
    /\ \A e \in Endpoints : subs[e] # NONE =>
            \/ subs[e].owner = saver[e]
            \/ Inherits(subs[e].owner, saver[e])

(* x speaks for the creator of z, or for an account that claimed from it.  *)
SpeaksFor(x, z) ==
    \/ x.who = creator[z]
    \/ Inherits(Claimed(x.who, x.who.userId), creator[z])

(* A stored zone is only ever edited, deleted or moved at the end of a     *)
(* request of its creator or of a claimer, also when it changed hands      *)
(* between the request's check and its commit.                             *)
OnlyHoldersChange ==
    [][\A z \in Zones : zones[z] # NONE /\ zones'[z] # zones[z] =>
            \E t \in Txns : Running(t) /\ ~Running(t)' /\ SpeaksFor(tx[t], z)]_vars

(* An edit or a claim that was under way does not bring a deleted zone     *)
(* back.                                                                   *)
DeletedStays ==
    [][\A z \in Zones : zones[z] = NONE /\ creator[z] # NONE => zones'[z] = NONE]_vars
-----------------------------------------------------------------------------
=============================================================================
