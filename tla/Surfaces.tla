-------------------------------- MODULE Surfaces --------------------------------
(***************************************************************************)
(* The dashboard's surfaces (the panels docked beside the map, and the     *)
(* dialogs above everything) and who of them takes the Escape key.         *)
(* Every surface listens for Escape at the window by itself, and decides   *)
(* from what is in the document at that moment whether the key is its own. *)
(*                                                                         *)
(* React runs a render caused by a key or a click before the browser calls *)
(* the next listener, and the effects of that render with it; a render     *)
(* caused by an answer, an event or a timer leaves its effects for later.  *)
(* A listener that is taken off while a key is being handed round is not   *)
(* called any more, and one that is added then is not called yet.          *)
(***************************************************************************)
EXTENDS Integers, Sequences, FiniteSets, Functions, SeqFolds

CONSTANT MaxWaiting    \* requests of one kind on their way at a time

ASSUME SurfacesAssumption == MaxWaiting \in Nat \ {0}

VARIABLES
    asked,     \* the surfaces the dashboard's state asks for ...
    listed,    \* ... and whether the alert of the detail panel is listed
    session,   \* whether somebody is signed in
    mounted,   \* the surfaces in the document, those leaving it included
    heard,     \* the window's listeners, in the order it calls them
    due,       \* whether effects of the last render are still to run
    waiting    \* requests on their way, by kind

surfacesVars == <<asked, listed, session, mounted, heard, due, waiting>>
-----------------------------------------------------------------------------
(* In the order of the tree, which is the order effects run in.            *)
TreeOrder == <<"form", "zone", "zones", "station", "detail",
               "shortcuts", "auth", "claim">>
Surfaces == Range(TreeOrder)

Dialogs == {"shortcuts", "auth", "claim"}
Panels == Surfaces \ Dialogs
ZonePanels == {"form", "zone", "zones"}    \* those of class zone-panel

(* Fault: every onClose is memoized.                                       *)
FaultyStable == Surfaces

(* The surfaces whose onClose is one function for good (useCallback); the  *)
(* others get a new one, and listen anew, with every render.               *)
Stable == {"form", "zone"}

Requests == {"report", "save", "resolve", "login", "offer", "adopt"}

(* The "when" of each Presence.                                            *)
Open(a, l) ==
    {s \in a : (s = "zones" => "zone" \notin a) /\ (s = "detail" => l)}

open == Open(asked, listed)
shown == open \cap mounted

(* The listeners after the effects of a render: the leaving ones are off,  *)
(* and those that are new, or have a new onClose, come last.               *)
Relisten(before, on) ==
    LET kept == Those(before, on \cap Stable)
    IN  kept \o Those(TreeOrder, on \ Range(kept))

(* A render of one Presence alone takes nobody off.                        *)
Join(before, on) == before \o Those(TreeOrder, on \ Range(before))

(* The listeners once the effects that are due have run.                   *)
Flushed ==
    CASE due = "none" -> heard
      [] due = "mount" -> Join(heard, shown)
      [] due = "render" -> Relisten(heard, shown)

SurfacesInit ==
    /\ asked = {} /\ listed = FALSE /\ session \in BOOLEAN
    /\ mounted = {} /\ heard = <<>> /\ due = "none"
    /\ waiting = [k \in Requests |-> 0]
-----------------------------------------------------------------------------
(* A render for a key or a click, with its effects.                        *)
Now(a, l) ==
    /\ asked' = a /\ listed' = l
    /\ heard' = Relisten(Flushed, Open(a, l) \cap mounted)
    /\ due' = "none"
    /\ UNCHANGED mounted

(* A render for anything else; it also puts into the document what was     *)
(* waiting for it, and its own effects run later.                          *)
Later(a, l) ==
    /\ asked' = a /\ listed' = l
    /\ heard' = Flushed
    /\ mounted' = mounted \cup (open \cap Open(a, l))
    /\ due' = "render"

Effects ==
    /\ due # "none"
    /\ heard' = Flushed /\ due' = "none"
    /\ UNCHANGED <<asked, listed, session, mounted, waiting>>

(* Presence: the effect of "when" has asked for the children.              *)
Mount ==
    /\ due = "none" /\ ~ (open \subseteq mounted)
    /\ mounted' = mounted \cup open /\ due' = "mount"
    /\ UNCHANGED <<asked, listed, session, heard, waiting>>

(* Presence: the exit animation is over.                                   *)
Unmount(s) ==
    /\ s \in mounted \ open /\ due = "none"
    /\ mounted' = mounted \ {s}
    /\ UNCHANGED <<asked, listed, session, heard, due, waiting>>
-----------------------------------------------------------------------------
(* Fault: a surface on its way out still counts.                           *)
FaultyInWay(s, a) ==
    LET above == IF s \in ZonePanels THEN Dialogs ELSE Dialogs \cup ZonePanels
    IN  s \notin Dialogs /\ mounted \cap above # {}

(* OPEN_MODAL and OPEN_ZONE_PANEL: what keeps s from taking Escape.        *)
InWay(s, a) ==
    LET above == IF s \in ZonePanels THEN Dialogs ELSE Dialogs \cup ZonePanels
    IN  s \notin Dialogs /\ Open(a, listed) \cap mounted \cap above # {}

(* What s's listener makes of the key: r.asked as it finds it, and r.live  *)
(* the listeners that are to be called and have not been taken off.        *)
HeardBy(s, r) ==
    LET after == r.asked \ {s}
        on == Open(after, listed) \cap mounted
    IN  IF s \notin r.live \/ s \notin r.asked \/ InWay(s, r.asked) THEN r
        ELSE [asked |-> after, live |-> r.live \cap Stable \cap on]

(* The key's way from listener to listener: what the first n of them have  *)
(* made of it.                                                             *)
Round[n \in 0..Len(heard)] ==
    IF n = 0 THEN [asked |-> asked, live |-> Range(heard)]
    ELSE HeardBy(heard[n], Round[n - 1])

AfterEscape == Round[Len(heard)].asked

Escape ==
    /\ AfterEscape # asked
    /\ Now(AfterEscape, listed)
    /\ UNCHANGED <<session, waiting>>
-----------------------------------------------------------------------------
(* Assumption: between two keys or clicks of the user the browser gets to  *)
(* show what the first has opened.  What opens by itself may be late.      *)
ByHand == Surfaces \ {"zones", "detail", "claim"}
Seen == open \cap ByHand \subseteq mounted

(* A dialog covers what is below it, and keeps the shortcuts to itself.    *)
Reachable == Seen /\ shown \cap Dialogs = {}

(* The map, and the N key: handleMapClick.                                 *)
MapClick ==
    /\ Reachable /\ "zone" \notin asked
    /\ Now(asked \cup {IF session THEN "form" ELSE "auth"}, listed)
    /\ UNCHANGED <<session, waiting>>

(* handleSwitchToZone.                                                     *)
SwitchToZone ==
    /\ Reachable /\ "form" \in shown
    /\ Now((asked \ {"form"}) \cup {"zone"}, listed)
    /\ UNCHANGED <<session, waiting>>

OpenZones ==
    /\ Reachable
    /\ Now(asked \cup {"zones"}, listed)
    /\ UNCHANGED <<session, waiting>>

(* startNewZone and startEditZone.                                         *)
DrawZone ==
    /\ Reachable /\ "zones" \in shown
    /\ Now((asked \ {"zones"}) \cup {"zone"}, listed)
    /\ UNCHANGED <<session, waiting>>

OpenDetail ==
    /\ Reachable
    /\ Now((asked \ {"station"}) \cup {"detail"}, TRUE)
    /\ UNCHANGED <<session, waiting>>

OpenStation ==
    /\ Reachable
    /\ Now((asked \ {"detail"}) \cup {"station"}, listed)
    /\ UNCHANGED <<session, waiting>>

(* The "?" key passes while a dialog is open.                              *)
OpenShortcuts ==
    /\ Seen
    /\ Now(asked \cup {"shortcuts"}, listed)
    /\ UNCHANGED <<session, waiting>>

(* "Sign in", and everything else that asks for an account.                *)
OpenAuth ==
    /\ Reachable /\ ~ session
    /\ Now(asked \cup {"auth"}, listed)
    /\ UNCHANGED <<session, waiting>>

SignOut ==
    /\ Reachable /\ session
    /\ session' = FALSE /\ Now(asked, listed)
    /\ UNCHANGED waiting

(* A close button, or a press beside a dialog.                             *)
Close(s) ==
    /\ s \in shown /\ (s \in Dialogs \/ Reachable)
    /\ Now(asked \ {s}, listed)
    /\ UNCHANGED <<session, waiting>>

(* The surface whose button sends the request, and which its answer closes.*)
Sender(k) ==
    CASE k = "report" -> "form" [] k = "save" -> "zone" [] k = "resolve" -> "detail"
      [] k = "login" -> "auth" [] k = "adopt" -> "claim"

Send(k) ==
    /\ waiting[k] < MaxWaiting
    /\ Sender(k) \in shown /\ (Sender(k) \in Dialogs \/ Reachable)
    /\ k = "resolve" => session
    /\ waiting' = [waiting EXCEPT ![k] = @ + 1]
    /\ UNCHANGED <<asked, listed, session, mounted, heard, due>>

(* handleAlertCreated, handleZoneCreated and -Updated, handleResolve,      *)
(* handleClaim: the answer closes the sender's surface whether or not it   *)
(* is the one that asked.                                                  *)
Answer(k) ==
    /\ waiting[k] > 0 /\ k \in {"report", "save", "resolve", "adopt"}
    /\ waiting' = [waiting EXCEPT ![k] = @ - 1]
    /\ Later(asked \ {Sender(k)}, listed /\ k # "resolve")
    /\ UNCHANGED session

(* onAuthed, which goes on to ask for zones to claim (offerClaim).         *)
SignedIn ==
    /\ waiting["login"] > 0
    /\ waiting' = [waiting EXCEPT !["login"] = @ - 1,
                                  !["offer"] = IF @ < MaxWaiting THEN @ + 1 ELSE @]
    /\ session' = TRUE /\ Later(asked \ {"auth"}, listed)

OfferClaim ==
    /\ waiting["offer"] > 0
    /\ waiting' = [waiting EXCEPT !["offer"] = @ - 1]
    /\ Later(asked \cup {"claim"}, listed)
    /\ UNCHANGED session

(* A failure leaves the surface open, with a message of its own; only a    *)
(* claim that fails is closed as well.                                     *)
Refuse(k) ==
    /\ waiting[k] > 0
    /\ waiting' = [waiting EXCEPT ![k] = @ - 1]
    /\ Later(IF k = "adopt" THEN asked \ {"claim"} ELSE asked, listed)
    /\ UNCHANGED session

(* The alert of the detail panel leaves the list, or is back in it.        *)
AlertsChange ==
    /\ "detail" \in asked
    /\ Later(asked, ~ listed)
    /\ UNCHANGED <<session, waiting>>

(* Any other render: a toast, a timer, a pin under the pointer.            *)
Rerender ==
    /\ Now(asked, listed) \/ Later(asked, listed)
    /\ UNCHANGED <<session, waiting>>

SurfacesNext ==
    \/ Effects \/ Mount \/ \E s \in Surfaces : Unmount(s) \/ Close(s)
    \/ Escape
    \/ MapClick \/ SwitchToZone \/ OpenZones \/ DrawZone \/ OpenDetail
    \/ OpenStation \/ OpenShortcuts \/ OpenAuth \/ SignOut
    \/ \E k \in Requests \ {"offer"} : Send(k)
    \/ \E k \in Requests : Answer(k) \/ Refuse(k)
    \/ SignedIn \/ OfferClaim \/ AlertsChange \/ Rerender

SurfacesSpec == SurfacesInit /\ [][SurfacesNext]_surfacesVars
-----------------------------------------------------------------------------
Closing == open \ Open(AfterEscape, listed)

(* Escape closes what is topmost only: no docked panel while a dialog is   *)
(* open, neither in front of the dialog's own listener nor behind it when  *)
(* the dialog has just closed and is out of the way; neither the alert nor *)
(* the station on the right while a panel of the zone editor's kind is     *)
(* open on the left; of several dialogs one; and of the alert and the      *)
(* station one, for docked in one place they are never both open, even     *)
(* though an alert that comes back to the list opens its panel again.      *)
TopmostOnly ==
    /\ shown \cap Dialogs # {} => Closing \cap Panels = {}
    /\ shown \cap ZonePanels # {} => Closing \cap {"detail", "station"} = {}
    /\ Cardinality(Closing \cap Dialogs) <= 1
    /\ ~ ({"detail", "station"} \subseteq open)

(* They never all leave the key to one another: with everything that is    *)
(* open on the screen and listening, Escape closes something.              *)
EscapeActs == due = "none" /\ open # {} /\ open \subseteq mounted => Closing # {}
=============================================================================
