-------------------------------- MODULE Stations --------------------------------
(***************************************************************************)
(* The layer of police stations (StationLayer.tsx): which stations the map *)
(* shows while it is panned and zoomed, and the popups' statistics.  A     *)
(* view is what "key" makes of the map's bounds; views with the same key   *)
(* show the same stations.                                                 *)
(*                                                                         *)
(* The epoch a fetch was made in only matters by being the present one or  *)
(* not: "current".                                                         *)
(***************************************************************************)
EXTENDS Integers

CONSTANTS
    Views,      \* keys of views that are near enough to show stations
    Far,        \* a view below STATION_MIN_ZOOM
    NoView,     \* the empty key
    StationIds

ASSUME StationsAssumption == {Far, NoView} \cap Views = {} /\ Far # NoView

VARIABLES
    view,       \* where the last moveend or zoomend left the map
    layer,      \* showStations
    gated,      \* stationsGated
    lastKey,    \* lastBoundsKeyRef
    markers,    \* the view whose stations are shown, or NoView
    timer,      \* the debounce timer: its view, and whether its epoch is current
    fetches,    \* fetches on their way, likewise
    failed,     \* whether the fetch of the present epoch has failed
    stats,      \* statsById: "none", "loading", "ready" or "error" ...
    asks        \* ... and how many of its fetches are on their way

stationVars == <<view, layer, gated, lastKey, markers, timer, fetches, failed, stats, asks>>
statVars == <<stats, asks>>

NoTimer == [on |-> FALSE]
Aged(f) == [f EXCEPT !.current = FALSE]

StationsInit ==
    /\ view \in Views \cup {Far} /\ layer = FALSE /\ gated = FALSE
    /\ lastKey = NoView /\ markers = NoView /\ timer = NoTimer
    /\ fetches = {} /\ failed = FALSE
    /\ stats = [id \in StationIds |-> "none"] /\ asks = [id \in StationIds |-> 0]
-----------------------------------------------------------------------------
(* Fault: zooming out forgets the markers and not what they were for.      *)
FaultyRefresh(v, key, shown, waiting) ==
    /\ fetches' = {Aged(f) : f \in fetches}
    /\ failed' = FALSE /\ gated' = (v = Far)
    /\ \/ v = Far /\ timer' = NoTimer /\ markers' = NoView /\ lastKey' = key
       \/ /\ v = key
          /\ timer' = IF waiting.on THEN Aged(waiting) ELSE waiting
          /\ markers' = shown /\ lastKey' = key
       \/ /\ v \notin {Far, key}
          /\ timer' = [on |-> TRUE, of |-> v, current |-> TRUE]
          /\ markers' = shown /\ lastKey' = key

(* refresh, in a view v, of a layer with these refs and markers.  A view   *)
(* that is shown already leaves a pending timer to run in vain.            *)
Refresh(v, key, shown, waiting) ==
    /\ fetches' = {Aged(f) : f \in fetches}
    /\ failed' = FALSE /\ gated' = (v = Far)
    /\ \/ v = Far /\ timer' = NoTimer /\ markers' = NoView /\ lastKey' = NoView
       \/ /\ v = key
          /\ timer' = IF waiting.on THEN Aged(waiting) ELSE waiting
          /\ markers' = shown /\ lastKey' = key
       \/ /\ v \notin {Far, key}
          /\ timer' = [on |-> TRUE, of |-> v, current |-> TRUE]
          /\ markers' = shown /\ lastKey' = key

(* moveend and zoomend; the new view may be the old one.                   *)
MoveMap(v) ==
    /\ view' = v
    /\ IF layer THEN Refresh(v, lastKey, markers, timer)
       ELSE UNCHANGED <<gated, lastKey, markers, timer, fetches, failed>>
    /\ UNCHANGED <<layer, statVars>>

(* The "Stations" box: a new layer, or the cleanup of the old.             *)
ShowStations ==
    /\ ~layer /\ layer' = TRUE
    /\ Refresh(view, NoView, NoView, NoTimer)
    /\ stats' = [id \in StationIds |-> "none"] /\ asks' = [id \in StationIds |-> 0]
    /\ UNCHANGED view

HideStations ==
    /\ layer /\ layer' = FALSE
    /\ timer' = NoTimer /\ fetches' = {Aged(f) : f \in fetches}
    /\ UNCHANGED <<view, gated, lastKey, markers, failed, statVars>>

FireTimer ==
    /\ timer.on
    /\ fetches' = fetches \cup {timer} /\ timer' = NoTimer
    /\ UNCHANGED <<view, layer, gated, lastKey, markers, failed, statVars>>

(* The answer of another epoch is dropped, and so is its failure.          *)
ReceiveStations(f) ==
    /\ fetches' = fetches \ {f}
    /\ IF f.current THEN lastKey' = f.of /\ markers' = f.of
       ELSE UNCHANGED <<lastKey, markers>>
    /\ UNCHANGED <<view, layer, gated, timer, failed, statVars>>

StationsFail(f) ==
    /\ fetches' = fetches \ {f}
    /\ failed' = (failed \/ f.current)
    /\ UNCHANGED <<view, layer, gated, lastKey, markers, timer, statVars>>
-----------------------------------------------------------------------------
(* Any marker of a shown view may be the station's.                        *)
Clickable(id) == layer /\ markers # NoView

(* loadStats: once, and again after an error.                              *)
LoadStats(id) ==
    /\ Clickable(id)
    /\ stats[id] \in {"none", "error"}
    /\ stats' = [stats EXCEPT ![id] = "loading"]
    /\ asks' = [asks EXCEPT ![id] = @ + 1]
    /\ UNCHANGED <<view, layer, gated, lastKey, markers, timer, fetches, failed>>

ReceiveStats(id, outcome) ==
    /\ asks[id] > 0
    /\ stats' = [stats EXCEPT ![id] = outcome]
    /\ asks' = [asks EXCEPT ![id] = @ - 1]
    /\ UNCHANGED <<view, layer, gated, lastKey, markers, timer, fetches, failed>>

StationsNext ==
    \/ \E v \in Views \cup {Far} : MoveMap(v)
    \/ ShowStations \/ HideStations \/ FireTimer
    \/ \E f \in fetches : ReceiveStations(f) \/ StationsFail(f)
    \/ \E id \in StationIds :
          LoadStats(id) \/ \E outcome \in {"ready", "error"} : ReceiveStats(id, outcome)
StationsSpec == StationsInit /\ [][StationsNext]_stationVars
-----------------------------------------------------------------------------
(* The map settles on the stations of the view it shows, and on none with  *)
(* the hint to zoom in when it shows too much: however pans, zooms, timers *)
(* and answers overtook each other, unless the view's own fetch is still   *)
(* to come or has failed.  And of a station's statistics one fetch is on   *)
(* its way while "loading", and no other.                                  *)
StationsSettled ==
    layer =>
        /\ \/ failed
           \/ \E f \in fetches \cup {timer} : f # NoTimer /\ f.current
           \/ markers = IF view = Far THEN NoView ELSE view
        /\ gated <=> view = Far
        /\ \A id \in StationIds : asks[id] = IF stats[id] = "loading" THEN 1 ELSE 0
=============================================================================
