-------------------------------- MODULE Notices --------------------------------
(***************************************************************************)
(* What the dashboard shows for a while and takes back (Dashboard.tsx):    *)
(* the toast, what a screen reader is told, and the highlight of an alert  *)
(* the live stream has brought.  Each is taken back by a timer; the        *)
(* toast's is restarted, the others' are added to those that still run.    *)
(* Time goes by in ticks, and timers that are due go off before it goes on.*)
(***************************************************************************)
EXTENDS Integers, FiniteSets

CONSTANTS
    Texts,       \* of toasts and announcements
    Silence,
    Ids,         \* of alerts
    ToastTime,   \* TOAST_DURATION_MS, in ticks
    LiveTime     \* LIVE_HIGHLIGHT_MS

ASSUME NoticesAssumption ==
    /\ Silence \notin Texts /\ {"toast", "announcement"} \cap Ids = {}
    /\ ToastTime \in Nat \ {0} /\ LiveTime \in Nat \ {0}

VARIABLES
    toast,         \* its text
    announcement,  \* [text, urgent], or Silence
    liveIds,       \* the alerts that are highlighted
    timers,        \* what is still to be taken back: of what, and ticks left
    raised         \* ticks since the toast, the announcement and each
                   \* highlight were last raised

noticeVars == <<toast, announcement, liveIds, timers, raised>>

Raisable == {"toast", "announcement"} \cup Ids
LifeOf(what) == IF what = "toast" THEN ToastTime ELSE LiveTime
Timer(what) == [of |-> what, left |-> LifeOf(what)]

NoticesInit ==
    /\ toast = Silence /\ announcement = Silence /\ liveIds = {} /\ timers = {}
    /\ raised = [what \in Raisable |-> 0]

Due == {t \in timers : t.left = 0}

Raise(things) == raised' = [what \in Raisable |-> IF what \in things THEN 0 ELSE raised[what]]

(* Fault: the timer of the toast before is not stopped.                    *)
FaultyShowToast(text) ==
    /\ toast' = text
    /\ timers' = timers \cup {Timer("toast")}
    /\ Raise({"toast"})
    /\ UNCHANGED <<announcement, liveIds>>

ShowToast(text) ==
    /\ toast' = text
    /\ timers' = {t \in timers : t.of # "toast"} \cup {Timer("toast")}
    /\ Raise({"toast"})
    /\ UNCHANGED <<announcement, liveIds>>

(* Any event of an alert, its end included: markLive and announce.         *)
HearAlert(id, text, critical) ==
    /\ liveIds' = liveIds \cup {id}
    /\ announcement' = [text |-> text, urgent |-> critical]
    /\ timers' = timers \cup {Timer(id), Timer("announcement")}
    /\ Raise({id, "announcement"})
    /\ UNCHANGED toast

(* A comment in the thread that is being read.                             *)
HearUpdate(text) ==
    /\ announcement' = [text |-> text, urgent |-> FALSE]
    /\ timers' = timers \cup {Timer("announcement")}
    /\ Raise({"announcement"})
    /\ UNCHANGED <<toast, liveIds>>

GoOff(t) ==
    /\ timers' = timers \ {t}
    /\ toast' = IF t.of = "toast" THEN Silence ELSE toast
    /\ announcement' = IF t.of = "announcement" THEN Silence ELSE announcement
    /\ liveIds' = liveIds \ {t.of}
    /\ UNCHANGED raised

Tick ==
    /\ Due = {} /\ timers # {}
    /\ timers' = {[t EXCEPT !.left = @ - 1] : t \in timers}
    /\ raised' = [what \in Raisable |->
                    IF raised[what] = LifeOf(what) THEN raised[what] ELSE raised[what] + 1]
    /\ UNCHANGED <<toast, announcement, liveIds>>

NoticesNext ==
    \/ \E text \in Texts : ShowToast(text) \/ HearUpdate(text)
    \/ \E id \in Ids, text \in Texts, critical \in BOOLEAN : HearAlert(id, text, critical)
    \/ \E t \in Due : GoOff(t)
    \/ Tick

NoticesSpec == NoticesInit /\ [][NoticesNext]_noticeVars
-----------------------------------------------------------------------------
Up == (IF toast = Silence THEN {} ELSE {"toast"})
        \cup (IF announcement = Silence THEN {} ELSE {"announcement"}) \cup liveIds

(* "Without the reset a toast raised shortly after another was cleared by  *)
(* the first one's timer" (Dashboard.tsx:165): a toast is up for its whole *)
(* time and nothing but its own timer takes it back.  What is up has a     *)
(* timer of its own and so is up no longer than its time; announcements    *)
(* and highlights may be taken back earlier, by the timer of an older one. *)
NoticesEnd ==
    /\ \A what \in Up : [of |-> what, left |-> LifeOf(what) - raised[what]] \in timers
    /\ Cardinality({t \in timers : t.of = "toast"}) = IF toast = Silence THEN 0 ELSE 1
=============================================================================
