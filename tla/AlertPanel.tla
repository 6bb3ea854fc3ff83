------------------------------- MODULE AlertPanel -------------------------------
(***************************************************************************)
(* The detail panel of an alert and its thread of updates                  *)
(* (AlertDetailPanel.tsx), in the dashboard that opens and closes it       *)
(* (Dashboard.tsx) and keeps its exit on screen (Presence.tsx).  Three     *)
(* ways bring a comment into the thread: the load when the panel opens,    *)
(* the answer to one's own post, and the live stream, of which the         *)
(* dashboard hands down the latest comment only.                           *)
(*                                                                         *)
(* One instance of the panel serves every alert it is pointed at while it  *)
(* is mounted.  The server, and what is on its way from it, are the        *)
(* environment.                                                            *)
(***************************************************************************)
EXTENDS Integers, FiniteSets

CONSTANTS Alerts, Comments, None

ASSUME PanelAssumption == None \notin Alerts \cup Comments

VARIABLES
    thread,   \* what the server holds of each alert's comments
    closed,   \* alerts that are resolved
    news,     \* live events that have not reached this dashboard
    listed,   \* the alerts the dashboard lists
    detail,   \* detailAlertId
    panel,    \* Presence and the panel: where it is, its alert, "posting"
    shown,    \* comments: how often each is in the list ...
    loading,  \* ... or null
    load,     \* the fetch that is not cancelled
    slot,     \* liveComment, and whether the panel has yet to be given it
    posts,    \* own comments on their way, and whether this panel sent them
    solving,  \* alerts of which this dashboard awaits the answer to "resolve"
    own,      \* comments this dashboard has posted
    gaps      \* comments the thread may miss, each for a reason named below

atServer == <<thread, closed>>
panelVars == <<thread, closed, news, listed, detail, panel, shown, loading, load,
              slot, posts, solving, own, gaps>>

NoLoad == [on |-> FALSE]
NoPanel == [at |-> "gone", alert |-> None, posting |-> FALSE]
Nothing == [c \in Comments |-> 0]
CommentNews(c) == [kind |-> "comment", of |-> c]
ClosedNews(a) == [kind |-> "closed", of |-> a]
Born == UNION {thread[a] : a \in Alerts}

PanelInit ==
    /\ thread = [a \in Alerts |-> {}] /\ closed = {} /\ news = {}
    /\ listed = Alerts /\ detail = None /\ panel = NoPanel
    /\ shown = Nothing /\ loading = FALSE /\ load = NoLoad
    /\ slot = [of |-> None, fresh |-> FALSE]
    /\ posts = {} /\ solving = {} /\ own = {} /\ gaps = {}
-----------------------------------------------------------------------------
(* detailAlert                                                             *)
Detail == IF detail \in listed THEN detail ELSE None

(* Fault: the fetch for the alert before is not cancelled.                 *)
FaultyStartLoad(a) ==
    IF load.on THEN load ELSE [on |-> TRUE, of |-> a, phase |-> "asked", found |-> {}]

(* The effect of [alert.id]: its cleanup cancels the fetch before.         *)
StartLoad(a) == [on |-> TRUE, of |-> a, phase |-> "asked", found |-> {}]

(* What follows from a new detailAlert: the panel opens, is pointed at     *)
(* another alert, or starts to leave.                                      *)
Render ==
    CASE Detail' = None ->
            /\ panel' = [panel EXCEPT !.at = IF @ = "open" THEN "leaving" ELSE @]
            /\ UNCHANGED <<shown, loading, load, slot>>
      [] Detail' # None /\ panel.alert = Detail' ->
            /\ panel' = [panel EXCEPT !.at = "open"]
            /\ UNCHANGED <<shown, loading, load, slot>>
      [] Detail' # None /\ panel.alert # Detail' ->
            /\ panel' = [panel EXCEPT !.at = "open", !.alert = Detail']
            /\ load' = StartLoad(Detail')
            /\ loading' = TRUE /\ shown' = Nothing
            /\ slot' = [slot EXCEPT !.fresh = FALSE]

(* openDetail, from the feed, a pin's popup or the station panel.          *)
OpenDetail(a) ==
    /\ a \in listed
    /\ detail' = a
    /\ UNCHANGED listed /\ Render
    /\ UNCHANGED <<atServer, news, posts, solving, own, gaps>>

(* onClose, and openStationStats.                                          *)
CloseDetail ==
    /\ detail # None
    /\ detail' = None
    /\ UNCHANGED listed /\ Render
    /\ UNCHANGED <<atServer, news, posts, solving, own, gaps>>

(* The exit animation is over: the panel unmounts and its fetch is         *)
(* cancelled; what it has sent is answered to nobody.                      *)
Unmount ==
    /\ panel.at = "leaving"
    /\ panel' = NoPanel /\ load' = NoLoad /\ loading' = FALSE /\ shown' = Nothing
    /\ slot' = [slot EXCEPT !.fresh = FALSE]
    /\ posts' = {[p EXCEPT !.mine = FALSE] : p \in posts}
    /\ UNCHANGED <<atServer, news, listed, detail, solving, own, gaps>>
-----------------------------------------------------------------------------
(* Another user's comment; the event may be lost on its way.               *)
OthersComment(a, c) ==
    /\ c \notin Born /\ a \notin closed
    /\ thread' = [thread EXCEPT ![a] = @ \cup {c}]
    /\ \/ news' = news \cup {CommentNews(c)} /\ UNCHANGED gaps
       \/ gaps' = gaps \cup {c} /\ UNCHANGED news
    /\ UNCHANGED <<closed, listed, detail, panel, shown, loading, load, slot,
                   posts, solving, own>>

(* What the comments become when c is to be appended.                      *)
Appended(c) == IF loading THEN shown ELSE [shown EXCEPT ![c] = 1]

(* Fault: a comment that waits for the panel keeps the next one out.       *)
FaultyHearComment(c) ==
    /\ CommentNews(c) \in news
    /\ news' = news \ {CommentNews(c)}
    /\ slot' = IF slot.fresh THEN slot ELSE [of |-> c, fresh |-> panel.at # "gone"]
    /\ UNCHANGED <<atServer, listed, detail, panel, shown, loading, load,
                   posts, solving, own, gaps>>

(* The stream's callback: only the latest comment is kept for the panel.   *)
HearComment(c) ==
    /\ CommentNews(c) \in news
    /\ news' = news \ {CommentNews(c)}
    /\ slot' = [of |-> c, fresh |-> panel.at # "gone"]
    /\ gaps' = IF slot.fresh THEN gaps \cup {slot.of} ELSE gaps
    /\ UNCHANGED <<atServer, listed, detail, panel, shown, loading, load,
                   posts, solving, own>>

(* The panel renders with it; while it loads the comment is dropped.       *)
GiveComment ==
    /\ slot.fresh /\ panel.at = "open"
    /\ slot' = [slot EXCEPT !.fresh = FALSE]
    /\ shown' = IF slot.of \in thread[panel.alert] THEN Appended(slot.of) ELSE shown
    /\ gaps' = IF loading THEN gaps \cup {slot.of} ELSE gaps
    /\ UNCHANGED <<atServer, news, listed, detail, panel, loading, load,
                   posts, solving, own>>

(* upsertAlert removes an alert that is closed.                            *)
HearClosed(a) ==
    /\ ClosedNews(a) \in news
    /\ news' = news \ {ClosedNews(a)}
    /\ listed' = listed \ {a}
    /\ UNCHANGED detail /\ Render
    /\ UNCHANGED <<atServer, posts, solving, own, gaps>>

(* The minute's reload; a cached answer may still list a closed alert.     *)
Reload ==
    /\ listed' \in {S \in SUBSET Alerts : Alerts \ closed \subseteq S}
    /\ UNCHANGED detail /\ Render
    /\ UNCHANGED <<atServer, news, posts, solving, own, gaps>>
-----------------------------------------------------------------------------
ServeLoad ==
    /\ load.on /\ load.phase = "asked"
    /\ load' = [load EXCEPT !.phase = "answered", !.found = thread[load.of]]
    /\ UNCHANGED <<atServer, news, listed, detail, panel, shown, loading, slot,
                   posts, solving, own, gaps>>

ReceiveLoad ==
    /\ load.on /\ load.phase = "answered"
    /\ load' = NoLoad /\ loading' = FALSE
    /\ shown' = [c \in Comments |-> IF c \in load.found THEN 1 ELSE 0]
    /\ UNCHANGED <<atServer, news, listed, detail, panel, slot, posts, solving, own, gaps>>

(* A load that fails is shown as a thread without updates.                 *)
LoadFails ==
    /\ load.on
    /\ load' = NoLoad /\ loading' = FALSE /\ shown' = Nothing
    /\ gaps' = gaps \cup thread[load.of]
    /\ UNCHANGED <<atServer, news, listed, detail, panel, slot, posts, solving, own>>
-----------------------------------------------------------------------------
(* handlePost with a session: the button is disabled while it is posting.  *)
Post(c) ==
    /\ panel.at = "open" /\ ~panel.posting
    /\ c \notin Born \cup {p.of : p \in posts}
    /\ panel' = [panel EXCEPT !.posting = TRUE]
    /\ posts' = posts \cup {[of |-> c, to |-> panel.alert, mine |-> TRUE, phase |-> "asked"]}
    /\ UNCHANGED <<atServer, news, listed, detail, shown, loading, load, slot,
                   solving, own, gaps>>

ServePost(p) ==
    /\ p \in posts /\ p.phase = "asked" /\ p.of \notin Born
    /\ thread' = [thread EXCEPT ![p.to] = @ \cup {p.of}]
    /\ news' = news \cup {CommentNews(p.of)}
    /\ own' = own \cup {p.of}
    /\ posts' = (posts \ {p}) \cup {[p EXCEPT !.phase = "answered"]}
    /\ UNCHANGED <<closed, listed, detail, panel, shown, loading, load, slot, solving, gaps>>

(* The answer appends to the thread that is shown, whichever it is.        *)
ReceivePost(p) ==
    /\ p \in posts /\ p.phase = "answered"
    /\ posts' = posts \ {p}
    /\ IF p.mine
       THEN panel' = [panel EXCEPT !.posting = FALSE] /\ shown' = Appended(p.of)
       ELSE UNCHANGED <<panel, shown>>
    /\ UNCHANGED <<atServer, news, listed, detail, loading, load, slot, solving, own, gaps>>

(* The error, and the form is free again.                                  *)
PostFails(p) ==
    /\ p \in posts
    /\ posts' = posts \ {p}
    /\ panel' = IF p.mine THEN [panel EXCEPT !.posting = FALSE] ELSE panel
    /\ UNCHANGED <<atServer, news, listed, detail, shown, loading, load, slot,
                   solving, own, gaps>>
-----------------------------------------------------------------------------
(* handleResolve, by the reporter.                                         *)
Resolve ==
    /\ panel.at = "open" /\ panel.alert \notin solving
    /\ solving' = solving \cup {panel.alert}
    /\ UNCHANGED <<atServer, news, listed, detail, panel, shown, loading, load, slot,
                   posts, own, gaps>>

ServeResolve(a) ==
    /\ a \in solving \ closed
    /\ closed' = closed \cup {a}
    /\ news' = news \cup {ClosedNews(a)}
    /\ UNCHANGED <<thread, listed, detail, panel, shown, loading, load, slot,
                   posts, solving, own, gaps>>

(* The answer closes whichever panel is open.                              *)
ReceiveResolve(a) ==
    /\ a \in solving \cap closed
    /\ solving' = solving \ {a}
    /\ listed' = listed \ {a} /\ detail' = None /\ Render
    /\ UNCHANGED <<atServer, news, posts, own, gaps>>

ResolveFails(a) ==
    /\ a \in solving
    /\ solving' = solving \ {a}
    /\ UNCHANGED <<atServer, news, listed, detail, panel, shown, loading, load, slot,
                   posts, own, gaps>>
-----------------------------------------------------------------------------
PanelNext ==
    \/ \E a \in Alerts :
          \/ OpenDetail(a) \/ HearClosed(a)
          \/ ServeResolve(a) \/ ReceiveResolve(a) \/ ResolveFails(a)
    \/ \E a \in Alerts, c \in Comments : OthersComment(a, c)
    \/ \E c \in Comments : HearComment(c) \/ Post(c)
    \/ \E p \in posts : ServePost(p) \/ ReceivePost(p) \/ PostFails(p)
    \/ CloseDetail \/ Unmount \/ GiveComment \/ Reload
    \/ ServeLoad \/ ReceiveLoad \/ LoadFails \/ Resolve

PanelSpec == PanelInit /\ [][PanelNext]_panelVars
-----------------------------------------------------------------------------
(* The thread on screen is the open alert's: however its fetches and       *)
(* events overtake each other, nothing of another alert's is in it but     *)
(* what was posted from this panel before it was pointed elsewhere.  And a *)
(* comment, which comes from the load, the answer to the post and the      *)
(* stream, in any order, is listed once.                                   *)
ThreadIsOwn ==
    \A c \in Comments :
        shown[c] > 0 => shown[c] = 1 /\ c \in thread[panel.alert] \cup own

(* Every comment of a thread that has loaded is listed, or on its way to   *)
(* the panel, or fell into one of the gaps: its event was lost, came while *)
(* the thread was loading, or was overtaken by the next before the panel   *)
(* rendered; or the load failed.  Nothing else loses an update.            *)
OnlyKnownGaps ==
    (panel.at = "open" /\ ~loading) =>
        \A c \in thread[panel.alert] :
            \/ shown[c] > 0
            \/ CommentNews(c) \in news
            \/ slot.fresh /\ slot.of = c
            \/ c \in gaps

=============================================================================
