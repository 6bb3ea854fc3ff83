------------------------------- MODULE PushToggle -------------------------------
(***************************************************************************)
(* "Notify this device" in "My watch zones" (MyZonesPanel.tsx, push.ts):   *)
(* turning notifications on asks for permission, subscribes the browser    *)
(* and saves the subscription; turning them off takes the steps back.  The *)
(* steps go on when the panel is closed, and a new panel knows nothing of  *)
(* them.  The browser supports push.                                       *)
(***************************************************************************)
EXTENDS Integers, FiniteSets

CONSTANTS
    Endpoints,   \* of push subscriptions; the browser makes a new one each time
    NoEndpoint,
    MaxToggles   \* operations under way at a time

ASSUME PushAssumption == NoEndpoint \notin Endpoints

VARIABLES
    device,      \* the browser's subscription
    rows,        \* the subscriptions the server has stored for it
    pushPanel,   \* whether the panel is there
    pushState,   \* "unsupported" until the subscription has been looked for
    toggles,     \* operations under way
    unsaved,     \* subscriptions whose saving has failed ...
    undeleted,   \* ... or whose deletion has, or came before the saving
    misshown     \* pushState may be wrong, for a reason named below

pushVars == <<device, rows, pushPanel, pushState, toggles, unsaved, undeleted, misshown>>

PushInit ==
    /\ device = NoEndpoint /\ rows = {}
    /\ pushPanel = FALSE /\ pushState = "unsupported" /\ toggles = {}
    /\ unsaved = {} /\ undeleted = {} /\ misshown = FALSE

Go(t, at) == toggles' = (toggles \ {t}) \cup {[t EXCEPT !.at = at]}

OpenPushPanel ==
    /\ ~pushPanel /\ pushPanel' = TRUE
    /\ UNCHANGED <<device, rows, pushState, toggles, unsaved, undeleted, misshown>>

ClosePushPanel ==
    /\ pushPanel /\ pushPanel' = FALSE
    /\ pushState' = "unsupported" /\ misshown' = FALSE
    /\ toggles' = {[t EXCEPT !.mine = FALSE] : t \in toggles}
    /\ UNCHANGED <<device, rows, unsaved, undeleted>>

(* getPushSubscription, once per panel.                                    *)
LookForSubscription ==
    /\ pushPanel /\ pushState = "unsupported"
    /\ pushState' = IF device = NoEndpoint THEN "off" ELSE "on"
    /\ misshown' = (toggles # {})
    /\ UNCHANGED <<device, rows, pushPanel, toggles, unsaved, undeleted>>

(* The button is there once the browser is known to support push and the   *)
(* subscription has been looked for, and disabled while "busy".            *)
Offered == pushPanel /\ pushState \notin {"unsupported", "needs-install", "busy"}

TogglePush ==
    /\ Offered
    /\ Cardinality(toggles) < MaxToggles
    /\ pushState' = "busy"
    /\ toggles' = toggles \cup
          {[wasOn |-> pushState = "on", at |-> IF pushState = "on" THEN "find" ELSE "ask",
            of |-> NoEndpoint, mine |-> TRUE, alone |-> toggles = {},
            nr |-> CHOOSE n \in 1 .. MaxToggles : \A t \in toggles : t.nr # n]}
    /\ UNCHANGED <<device, rows, pushPanel, unsaved, undeleted, misshown>>

(* What the operation t makes of the panel that started it; doubt: whether *)
(* that may be wrong though t was alone.                                   *)
Show(t, state, doubt) ==
    /\ toggles' = toggles \ {t}
    /\ IF t.mine THEN pushState' = state /\ misshown' = (~t.alone \/ doubt)
       ELSE UNCHANGED <<pushState, misshown>>
-----------------------------------------------------------------------------
(* enablePush.                                                             *)
Grant(t) ==
    /\ t.at = "ask" /\ Go(t, "subscribe")
    /\ UNCHANGED <<device, rows, pushPanel, pushState, unsaved, undeleted, misshown>>

Deny(t) ==
    /\ t.at = "ask" /\ Show(t, "off", misshown)
    /\ UNCHANGED <<device, rows, pushPanel, unsaved, undeleted>>

Known == rows \cup unsaved \cup undeleted \cup {t.of : t \in toggles}

(* subscribe() returns the subscription the browser has, or a new one.     *)
Subscribe(t) ==
    /\ t.at = "subscribe"
    /\ device = NoEndpoint => Endpoints \ Known # {}
    /\ device' = IF device = NoEndpoint THEN CHOOSE e \in Endpoints \ Known : TRUE ELSE device
    /\ toggles' = (toggles \ {t}) \cup {[t EXCEPT !.at = "save", !.of = device']}
    /\ UNCHANGED <<rows, pushPanel, pushState, unsaved, undeleted, misshown>>

SaveRow(t) ==
    /\ t.at = "save" /\ Go(t, "saved")
    /\ rows' = rows \cup {t.of} /\ unsaved' = unsaved \ {t.of}
    /\ undeleted' = IF device = t.of THEN undeleted ELSE undeleted \cup {t.of}
    /\ UNCHANGED <<device, pushPanel, pushState, misshown>>
-----------------------------------------------------------------------------
(* disablePush: the endpoint is remembered for the server.                 *)
Find(t) ==
    /\ t.at = "find"
    /\ IF device = NoEndpoint THEN Show(t, "off", FALSE)
       ELSE /\ toggles' = (toggles \ {t}) \cup {[t EXCEPT !.at = "unsubscribe", !.of = device]}
            /\ UNCHANGED <<pushState, misshown>>
    /\ UNCHANGED <<device, rows, pushPanel, unsaved, undeleted>>

Unsubscribe(t) ==
    /\ t.at = "unsubscribe" /\ Go(t, "delete")
    /\ device' = IF device = t.of THEN NoEndpoint ELSE device
    /\ UNCHANGED <<rows, pushPanel, pushState, unsaved, undeleted, misshown>>

(* Fault: the subscription is looked for again, and is not there.          *)
FaultyDeleteRow(t) ==
    /\ t.at = "delete" /\ Go(t, "deleted")
    /\ rows' = rows \ {device} /\ undeleted' = undeleted \ {device}
    /\ UNCHANGED <<device, pushPanel, pushState, unsaved, misshown>>

DeleteRow(t) ==
    /\ t.at = "delete" /\ Go(t, "deleted")
    /\ rows' = rows \ {t.of} /\ undeleted' = undeleted \ {t.of}
    /\ UNCHANGED <<device, pushPanel, pushState, unsaved, misshown>>
-----------------------------------------------------------------------------
ToggleDone(t) ==
    /\ t.at \in {"saved", "deleted"}
    /\ Show(t, IF t.wasOn THEN "off" ELSE "on", FALSE)
    /\ UNCHANGED <<device, rows, pushPanel, unsaved, undeleted>>

(* Any step may throw: the panel says again what it said before.           *)
ToggleFails(t) ==
    /\ Show(t, IF t.wasOn THEN "on" ELSE "off", 
            misshown \/ t.at \in {"delete", "deleted", "saved"})
    /\ unsaved' = IF t.at = "save" /\ t.of \notin rows THEN unsaved \cup {t.of} ELSE unsaved
    /\ undeleted' = IF t.at = "delete" THEN undeleted \cup {t.of} ELSE undeleted
    /\ UNCHANGED <<device, rows, pushPanel>>

(* Or its answer is lost, and the server carries the request out later.    *)
ToggleLost(t) ==
    /\ t.mine /\ t.at \in {"save", "delete"}
    /\ pushState' = IF t.wasOn THEN "on" ELSE "off"
    /\ misshown' = TRUE
    /\ toggles' = (toggles \ {t}) \cup {[t EXCEPT !.mine = FALSE]}
    /\ UNCHANGED <<device, rows, pushPanel, unsaved, undeleted>>

PushNext ==
    \/ OpenPushPanel \/ ClosePushPanel \/ LookForSubscription \/ TogglePush
    \/ \E t \in toggles :
          \/ Grant(t) \/ Deny(t) \/ Subscribe(t)
          \/ SaveRow(t) \/ Find(t) \/ Unsubscribe(t) \/ DeleteRow(t)
          \/ ToggleDone(t) \/ ToggleFails(t) \/ ToggleLost(t)

PushSpec == PushInit /\ [][PushNext]_pushVars
-----------------------------------------------------------------------------
(* "This device gets a notification": when the panel says so, the server   *)
(* has the browser's subscription, and when it offers to turn them on, the *)
(* server has none.  Except that a subscription that could not be saved    *)
(* counts as on in the next panel, one that could not be deleted, or was   *)
(* saved too late, stays with the server, and a panel is wrong about what  *)
(* it left half done or what another panel had not finished.               *)
PushTrue ==
    (toggles = {} /\ ~misshown) =>
        /\ pushState = "on" => device \in rows \cup unsaved
        /\ pushState = "off" => rows \subseteq undeleted
=============================================================================
