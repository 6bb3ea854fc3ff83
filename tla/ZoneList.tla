-------------------------------- MODULE ZoneList --------------------------------
(***************************************************************************)
(* The list of one's own watch zones in "My watch zones" (MyZonesPanel.tsx) *)
(* as the dashboard keeps it (Dashboard.tsx): loaded when the panel is     *)
(* opened, amended by the answers to creating and editing a zone, cut      *)
(* short before a zone is deleted, and loaded anew when that fails and     *)
(* after zones of the device were claimed.  Loads are not cancelled: the   *)
(* last answer wins, whichever was asked first.  The session stays.        *)
(***************************************************************************)
EXTENDS Integers, Sequences, FiniteSets

CONSTANTS
    Zones,
    OfDevice,     \* those that can be claimed
    Versions,     \* of a zone's contents
    Absent, Gone, \* a zone before it is stored and after it is deleted
    Null,         \* the list while it is loading
    MaxLoads, MaxWrites   \* requests on their way at a time

ASSUME ListAssumption ==
    /\ OfDevice \subseteq Zones /\ {Absent, Gone} \cap Versions = {} /\ Absent # Gone
    /\ MaxLoads \in Nat \ {0} /\ MaxWrites \in Nat

VARIABLES
    server,     \* the zones of this user that are stored
    list,       \* zones: the versions of each zone's entries
    loads,      \* loads on their way
    writes,     \* creates, updates and deletes on their way
    claim,      \* the claim on its way, and whether it will load the list
    wrong       \* the list may be wrong, for a reason named below

listVars == <<server, list, loads, writes, claim, wrong>>

NoneOnWay == [l \in 1..MaxLoads |-> [phase |-> "free"]]
NoClaim == [phase |-> "none"]
OnWay == {l \in DOMAIN loads : loads[l].phase # "free"}
Stored(z) == server[z] \in Versions
Listed(found) == [z \in Zones |-> IF found[z] \in Versions THEN <<found[z]>> ELSE <<>>]

ListInit ==
    /\ server \in [Zones -> Versions \cup {Absent}]
    /\ \A z \in OfDevice : server[z] = Absent
    /\ list = Null /\ loads = NoneOnWay /\ writes = {} /\ claim = NoClaim
    /\ wrong = FALSE
-----------------------------------------------------------------------------
(* loadZones, up to its fetch.                                             *)
LoadZones ==
    \E l \in DOMAIN loads \ OnWay :
        /\ \A k \in 1..(l - 1) : k \in OnWay
        /\ loads' = [loads EXCEPT ![l] = [phase |-> "sent"]]

OpenZonesPanel ==
    /\ list' = Null
    /\ LoadZones
    /\ UNCHANGED <<server, writes, claim, wrong>>

ServeZones(l) ==
    /\ loads[l].phase = "sent"
    /\ loads' = [loads EXCEPT ![l] = [phase |-> "answered", found |-> server,
                                      late |-> FALSE]]
    /\ UNCHANGED <<server, list, writes, claim, wrong>>

(* Whatever has been done to the list meanwhile is gone; it may be wrong   *)
(* when the zones have changed since the answer was made.                  *)
ReceiveZones(l) ==
    /\ loads[l].phase = "answered"
    /\ list' = Listed(loads[l].found)
    /\ wrong' = loads[l].late
    /\ loads' = [loads EXCEPT ![l] = [phase |-> "free"]]
    /\ UNCHANGED <<server, writes, claim>>

(* The list is empty, and the panel says that there are no zones.          *)
ZonesFail(l) ==
    /\ l \in OnWay
    /\ list' = [z \in Zones |-> <<>>] /\ wrong' = TRUE
    /\ loads' = [loads EXCEPT ![l] = [phase |-> "free"]]
    /\ UNCHANGED <<server, writes, claim>>
-----------------------------------------------------------------------------
Send(w) ==
    /\ Cardinality(writes) < MaxWrites
    /\ \A v \in writes : v.of # w.of \/ v.kind # w.kind
    /\ writes' = writes \cup {w}

Write(kind, z, version) ==
    [kind |-> kind, of |-> z, to |-> version, mine |-> TRUE, phase |-> "sent",
     passed |-> FALSE]

(* The zone form, new or on a zone; it may have been opened long ago.      *)
SendZone(kind, z, version) ==
    /\ kind \in {"create", "update"}
    /\ IF kind = "create" THEN server[z] = Absent /\ z \notin OfDevice
       ELSE server[z] # Absent
    /\ Send(Write(kind, z, version))
    /\ UNCHANGED <<server, list, loads, claim, wrong>>

(* handleDeleteZone, up to its request.                                    *)
SendDelete(z) ==
    /\ list # Null
    /\ list[z] # <<>>
    /\ list' = [list EXCEPT ![z] = <<>>]
    /\ Send(Write("delete", z, Gone))
    /\ UNCHANGED <<server, loads, claim, wrong>>

(* The stored zones have become "zones": loads that have been answered are *)
(* late, and answers about what changed are passed by.                     *)
Store(zones) ==
    /\ server' = zones
    /\ loads' = [l \in DOMAIN loads |->
                   IF loads[l].phase = "answered" /\ zones # server
                   THEN [loads[l] EXCEPT !.late = TRUE] ELSE loads[l]]

(* The dashboard cannot follow a write whose answer it has given up, nor a *)
(* deletion when the zone has been loaded back into the list.              *)
Unfollowed(w) ==
    IF w.kind = "delete" THEN list # Null /\ list[w.of] # <<>> ELSE ~w.mine

(* The server carries a write out, if the zone is there.                   *)
Commit(w) ==
    /\ w \in writes /\ w.phase = "sent"
    /\ IF w.kind = "create" THEN server[w.of] = Absent ELSE Stored(w.of)
    /\ Store([server EXCEPT ![w.of] = w.to])
    /\ writes' = {[v EXCEPT !.passed = @ \/ (v.of = w.of /\ v.phase = "done")] :
                      v \in writes \ {w}} \cup {[w EXCEPT !.phase = "done"]}
    /\ wrong' = (wrong \/ Unfollowed(w))
    /\ UNCHANGED <<list, claim>>

(* handleZoneCreated, handleZoneUpdated, and nothing for a delete.         *)
Amended(w) ==
    CASE list = Null \/ w.kind = "delete" -> list
      [] list # Null /\ w.kind = "create" -> [list EXCEPT ![w.of] = <<w.to>> \o @]
      [] list # Null /\ w.kind = "update" -> [list EXCEPT ![w.of] = [i \in DOMAIN @ |-> w.to]]

(* A later write of the zone has been carried out, or a load has listed    *)
(* the new zone already.                                                   *)
Misled(w) ==
    w.mine /\ (w.passed \/ (w.kind = "create" /\ list # Null /\ list[w.of] # <<>>))

Answered(w) ==
    /\ w \in writes /\ w.phase = "done"
    /\ writes' = writes \ {w}
    /\ IF w.mine THEN list' = Amended(w) ELSE UNCHANGED list
    /\ wrong' = (wrong \/ Misled(w))
    /\ UNCHANGED <<server, loads, claim>>

(* Fault: a zone that could not be deleted stays off the list.             *)
FaultyResync(w) == UNCHANGED loads

(* handleDeleteZone loads the list when the request has failed; the forms  *)
(* show their error and stay open.                                         *)
Resync(w) == IF w.kind = "delete" /\ w.mine THEN LoadZones ELSE UNCHANGED loads

Refused(w) ==
    /\ w \in writes /\ w.phase = "sent"
    /\ writes' = writes \ {w}
    /\ Resync(w)
    /\ UNCHANGED <<server, list, claim, wrong>>

(* The answer is lost, and the server carries the write out.               *)
WriteLost(w) ==
    /\ w \in writes /\ w.mine
    /\ writes' = (writes \ {w}) \cup {[w EXCEPT !.mine = FALSE]}
    /\ Resync(w)
    /\ wrong' = (wrong \/ (w.phase = "done" /\ w.kind # "delete"))
    /\ UNCHANGED <<server, list, claim>>
-----------------------------------------------------------------------------
(* handleClaim: "zones" is what it was when the button was pressed.        *)
SendClaim ==
    /\ claim = NoClaim
    /\ claim' = [phase |-> "sent", reload |-> list # Null]
    /\ UNCHANGED <<server, list, loads, writes, wrong>>

CommitClaim ==
    /\ claim.phase = "sent"
    /\ \E version \in Versions :
          Store([z \in Zones |-> IF z \in OfDevice /\ server[z] = Absent
                                 THEN version ELSE server[z]])
    /\ claim' = [claim EXCEPT !.phase = "done"]
    /\ wrong' = (wrong \/ ~claim.reload)
    /\ UNCHANGED <<list, writes>>

ClaimAnswered ==
    /\ claim.phase = "done"
    /\ claim' = NoClaim
    /\ IF claim.reload THEN LoadZones ELSE UNCHANGED loads
    /\ UNCHANGED <<server, list, writes, wrong>>

ClaimFails ==
    /\ claim # NoClaim
    /\ claim' = NoClaim
    /\ wrong' = (wrong \/ claim.phase = "done")
    /\ UNCHANGED <<server, list, loads, writes>>

ListNext ==
    \/ OpenZonesPanel
    \/ \E l \in DOMAIN loads : ServeZones(l) \/ ReceiveZones(l) \/ ZonesFail(l)
    \/ \E kind \in {"create", "update"}, z \in Zones, version \in Versions :
          SendZone(kind, z, version)
    \/ \E z \in Zones : SendDelete(z)
    \/ \E w \in writes : Commit(w) \/ Answered(w) \/ Refused(w) \/ WriteLost(w)
    \/ SendClaim \/ CommitClaim \/ ClaimAnswered \/ ClaimFails
ListSpec == ListInit /\ [][ListNext]_listVars
-----------------------------------------------------------------------------
(* The list the dashboard rests on holds every stored zone once, as it is  *)
(* stored, however deletions fail, answers overtake each other and loads   *)
(* overlap; unless a load failed, was older than the zones, or was made    *)
(* before a claim sent while the list was loading; an answer was lost or   *)
(* passed by a later write; or a load brought a zone in before the answer  *)
(* to creating it, or back after it was cut.                               *)
ListIsTrue ==
    (list # Null /\ OnWay = {} /\ claim = NoClaim /\ ~wrong) =>
        \A z \in Zones :
            \/ \E w \in writes : w.of = z /\ w.mine
            \/ list[z] = Listed(server)[z]
=============================================================================
