---------------------------- MODULE MCAnswers ----------------------------
(* The parts of the dashboard whose only difficulty is the order of their  *)
(* own requests' answers: an alert's thread, the stations, the account's   *)
(* settings, the list of zones and this device's notifications.  They      *)
(* share no variable and no action, so that what each does among the       *)
(* others is what it does while they stand still: a run moves one of them. *)
EXTENDS AlertPanel, Stations, AccountSettings, ZoneList, PushToggle, TLC

VARIABLE part

Init ==
    /\ part \in {"thread", "stations", "settings", "list", "push"}
    /\ PanelInit /\ StationsInit /\ SettingsInit /\ ListInit /\ PushInit
    /\ part # "stations" => view = Far
    /\ part # "settings" => \E v \in Values :
                               profile = [a \in Accounts |-> [s \in Settings |-> v]]
    /\ part # "list" => server = [z \in Zones |-> Absent]

Next ==
    /\ UNCHANGED part
    /\ \/ part = "thread" /\ PanelNext
       \/ part # "thread" /\ UNCHANGED panelVars
    /\ \/ part = "stations" /\ StationsNext
       \/ part # "stations" /\ UNCHANGED stationVars
    /\ \/ part = "settings" /\ SettingsNext
       \/ part # "settings" /\ UNCHANGED settingsVars
    /\ \/ part = "list" /\ ListNext
       \/ part # "list" /\ UNCHANGED listVars
    /\ \/ part = "push" /\ PushNext
       \/ part # "push" /\ UNCHANGED pushVars

Spec == Init /\ [][Next]_<<part, panelVars, stationVars, settingsVars, listVars, pushVars>>

Alike == Permutations(Accounts) \cup Permutations(Values) \cup Permutations(Versions)

(* Bounds: one alert is ever resolved, and of posts and events two are on  *)
(* their way; while the settings load one change is; of the list's         *)
(* requests three are, the claim being one.                                *)
Few ==
    /\ Cardinality(closed \cup solving) <= 1
    /\ Cardinality(posts) + Cardinality(news) <= 2
    /\ profileLoad.on => Cardinality(changes) <= 1
    /\ Cardinality(writes) + Cardinality(OnWay) + (IF claim = NoClaim THEN 0 ELSE 1) <= 3
=============================================================================
