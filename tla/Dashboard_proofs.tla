-------------------------- MODULE Dashboard_proofs --------------------------
(***************************************************************************)
(* The parts of the dashboard that a user sees and that answers and other  *)
(* users change underneath: the alert panel, the map's stations, the       *)
(* account's settings, the list of one's own zones and the push switch.    *)
(* Each is proved apart from the others and from an inductive invariant of *)
(* its own; together they are the state of one screen only in MCAnswers,   *)
(* where TLC runs them.                                                    *)
(***************************************************************************)
EXTENDS AlertPanel, Stations, AccountSettings, ZoneList, PushToggle,
        FiniteSetTheorems, TLAPS
-----------------------------------------------------------------------------
(* The alert panel and its thread.                                         *)

(* What is on screen, loaded, handed over and posted.                      *)
Panels == [at : {"gone", "open", "leaving"}, alert : Alerts \cup {None}, posting : BOOLEAN]
Loads == [on : {TRUE}, of : Alerts, phase : {"asked", "answered"}, found : SUBSET Comments]
Slots == [of : Comments \cup {None}, fresh : BOOLEAN]
OwnPosts == [of : Comments, to : Alerts, mine : BOOLEAN, phase : {"asked", "answered"}]

(* What the variables of the panel can be.                                 *)
PanelTypeOK ==
    /\ thread \in [Alerts -> SUBSET Comments] /\ closed \subseteq Alerts
    /\ news \subseteq {CommentNews(c) : c \in Comments} \cup {ClosedNews(a) : a \in Alerts}
    /\ listed \subseteq Alerts /\ detail \in Alerts \cup {None} /\ solving \subseteq Alerts
    /\ panel \in Panels /\ shown \in [Comments -> {0, 1}] /\ loading \in BOOLEAN
    /\ load \in Loads \cup {NoLoad} /\ slot \in Slots /\ posts \subseteq OwnPosts
    /\ own \subseteq Comments /\ gaps \subseteq Comments

(* A panel that is on screen is an alert's, and so is its load; without it *)
(* nothing is shown and nothing awaited.                                   *)
PanelIsThere ==
    /\ panel.at = "gone" <=> panel.alert = None
    /\ panel.at = "gone" => shown = Nothing /\ \A p \in posts : ~p.mine
    /\ loading <=> load \in Loads
    /\ load \in Loads => load.of = panel.alert
    /\ \A p \in posts : p.phase = "answered" => p.of \in own
    /\ slot.fresh => slot.of \in Comments

(* Nothing else's is shown, or about to be.                                *)
OwnOnly ==
    /\ \A c \in Comments : shown[c] = 1 => c \in thread[panel.alert] \cup own
    /\ load \in Loads /\ load.phase = "answered" => load.found \subseteq thread[load.of]

(* A comment that the panel has yet to be told of, or has a reason to miss *)
Accounted(c) == CommentNews(c) \in news \/ (slot.fresh /\ slot.of = c) \/ c \in gaps

(* What a thread has that is neither shown nor found is accounted for.     *)
AllAccounted ==
    /\ panel.at # "gone" /\ ~loading =>
          \A c \in thread[panel.alert] : shown[c] = 1 \/ Accounted(c)
    /\ load \in Loads /\ load.phase = "answered" =>
          \A c \in thread[load.of] : c \in load.found \/ Accounted(c)

(* The inductive invariant of the panel.                                   *)
PanelInv == PanelTypeOK /\ PanelIsThere /\ OwnOnly /\ AllAccounted

(* A load that is on is not the empty one.                                 *)
LEMMA PanelLoadParts ==
    /\ NoLoad \notin Loads /\ ~NoLoad.on /\ \A f \in Loads : f.on
<1>1. ~NoLoad.on /\ \A f \in Loads : f.on
    BY DEF NoLoad, Loads
<1> QED BY <1>1

(* News of different comments, and of a comment and a closing, are apart.  *)
LEMMA NewsApart ==
    /\ \A c, d : CommentNews(c) = CommentNews(d) => c = d
    /\ \A c, a : CommentNews(c) # ClosedNews(a)
<1>1. ASSUME NEW c, NEW d, CommentNews(c) = CommentNews(d) PROVE c = d
  <2>1. CommentNews(c).of = c /\ CommentNews(d).of = d
    BY DEF CommentNews
  <2> QED BY <1>1, <2>1
<1>2. ASSUME NEW c, NEW a PROVE CommentNews(c) # ClosedNews(a)
  <2>1. CommentNews(c).kind = "comment" /\ ClosedNews(a).kind = "closed"
    BY DEF CommentNews, ClosedNews
  <2> QED BY <2>1
<1> QED BY <1>1, <1>2

(* The parts of the records.                                               *)
LEMMA PanelParts ==
    ASSUME PanelTypeOK
    PROVE  /\ panel.at \in {"gone", "open", "leaving"} /\ panel.alert \in Alerts \cup {None}
           /\ slot.of \in Comments \cup {None} /\ slot.fresh \in BOOLEAN
           /\ \A p \in posts : /\ p.of \in Comments /\ p.to \in Alerts /\ p.mine \in BOOLEAN
                               /\ p.phase \in {"asked", "answered"}
           /\ load \in Loads =>
                 load.of \in Alerts /\ load.found \subseteq Comments /\ load.phase \in {"asked", "answered"}
BY DEF PanelTypeOK, Panels, Slots, OwnPosts, Loads

(* Panel's initial states satisfy the invariant.                           *)
LEMMA PanelInitOK == PanelInit => PanelInv
<1> SUFFICES ASSUME PanelInit PROVE PanelInv
    OBVIOUS
<1>a. NoPanel \in Panels /\ NoPanel.at = "gone" /\ NoPanel.alert = None
    BY DEF NoPanel, Panels
<1>b. /\ [of |-> None, fresh |-> FALSE] \in Slots
      /\ \A c \in Comments : Nothing[c] = 0
      /\ Nothing \in [Comments -> {0, 1}]
    BY DEF Slots, Nothing
<1>1. PanelTypeOK
    BY <1>a, <1>b DEF PanelInit, PanelTypeOK
<1>2. PanelIsThere
    BY <1>a, PanelLoadParts DEF PanelInit, PanelIsThere
<1>3. OwnOnly
    BY <1>b, PanelLoadParts DEF PanelInit, OwnOnly
<1>4. AllAccounted
    BY <1>a, PanelLoadParts DEF PanelInit, AllAccounted
<1> QED BY <1>1, <1>2, <1>3, <1>4 DEF PanelInv

(* What follows from a new detailAlert keeps the invariant, whatever else  *)
(* the step does to what the dashboard lists and hears of closed alerts.   *)
LEMMA RenderOK ==
    ASSUME PanelInv, Render, closed' \subseteq Alerts, solving' \subseteq Alerts,
           listed' \subseteq Alerts, detail' \in Alerts \cup {None},
           news' \subseteq news, \A c : CommentNews(c) \in news => CommentNews(c) \in news',
           UNCHANGED <<thread, posts, own, gaps>>
    PROVE  PanelInv'
<1>a. Detail' \in Alerts \cup {None}
    BY DEF Detail
<1>b. CASE Detail' = None
  <2>a. /\ panel' = [panel EXCEPT !.at = IF @ = "open" THEN "leaving" ELSE @]
        /\ UNCHANGED <<shown, loading, load, slot>>
    BY <1>b DEF Render
  <2>b. /\ panel' \in Panels /\ panel'.alert = panel.alert
        /\ panel'.at = "gone" <=> panel.at = "gone"
    BY <2>a DEF Panels, PanelInv, PanelTypeOK
  <2>1. PanelTypeOK'
      BY <2>a, <2>b, PanelParts DEF PanelInv, PanelTypeOK
  <2>2. PanelIsThere'
      BY <2>a, <2>b, PanelParts DEF PanelInv, PanelTypeOK, PanelIsThere
  <2>3. OwnOnly'
      BY <2>a, <2>b, PanelParts DEF PanelInv, PanelTypeOK, PanelIsThere, OwnOnly
  <2>4. AllAccounted'
      BY <2>a, <2>b, PanelParts DEF PanelInv, PanelTypeOK, PanelIsThere, OwnOnly, AllAccounted, Accounted
  <2> QED BY <2>1, <2>2, <2>3, <2>4 DEF PanelInv
<1>c. CASE Detail' # None /\ panel.alert = Detail'
  <2>a. panel' = [panel EXCEPT !.at = "open"] /\ UNCHANGED <<shown, loading, load, slot>>
    BY <1>c DEF Render
  <2>b. /\ panel' \in Panels /\ panel'.alert = panel.alert
        /\ panel'.at = "open" /\ panel.at # "gone"
    BY <1>c, <2>a DEF Panels, PanelInv, PanelTypeOK, PanelIsThere
  <2>1. PanelTypeOK'
      BY <2>a, <2>b, PanelParts DEF PanelInv, PanelTypeOK
  <2>2. PanelIsThere'
      BY <2>a, <2>b, PanelParts DEF PanelInv, PanelTypeOK, PanelIsThere
  <2>3. OwnOnly'
      BY <2>a, <2>b, PanelParts DEF PanelInv, PanelTypeOK, PanelIsThere, OwnOnly
  <2>4. AllAccounted'
      BY <2>a, <2>b, PanelParts DEF PanelInv, PanelTypeOK, PanelIsThere, OwnOnly, AllAccounted, Accounted
  <2> QED BY <2>1, <2>2, <2>3, <2>4 DEF PanelInv
<1>d. CASE Detail' # None /\ panel.alert # Detail'
  <2>a. /\ panel' = [panel EXCEPT !.at = "open", !.alert = Detail']
        /\ load' = [on |-> TRUE, of |-> Detail', phase |-> "asked", found |-> {}]
        /\ loading' = TRUE /\ shown' = Nothing /\ slot' = [slot EXCEPT !.fresh = FALSE]
    BY <1>d DEF Render, StartLoad
  <2>b. panel' \in Panels /\ panel'.alert = Detail' /\ panel'.at = "open" /\ Detail' \in Alerts
    BY <1>a, <1>d, <2>a DEF Panels, PanelInv, PanelTypeOK
  <2>c. load' \in Loads /\ load'.of = Detail' /\ load'.phase = "asked"
    BY <2>a, <2>b DEF Loads
  <2>d. shown' \in [Comments -> {0, 1}] /\ \A c \in Comments : shown'[c] = 0
    BY <2>a DEF Nothing
  <2>e. slot' \in Slots /\ ~slot'.fresh
    BY <2>a DEF Slots, PanelInv, PanelTypeOK
  <2>f. loading' = TRUE /\ panel'.alert # None
    BY <1>d, <2>a, <2>b
  <2>1. PanelTypeOK'
      BY <2>b, <2>c, <2>d, <2>e, <2>f, PanelParts DEF PanelInv, PanelTypeOK
  <2>2. PanelIsThere'
      BY <2>b, <2>c, <2>d, <2>e, <2>f, PanelParts DEF PanelInv, PanelTypeOK, PanelIsThere
  <2>3. OwnOnly'
      BY <2>b, <2>c, <2>d, <2>e, <2>f, PanelParts DEF PanelInv, PanelTypeOK, PanelIsThere, OwnOnly
  <2>4. AllAccounted'
      BY <2>b, <2>c, <2>d, <2>e, <2>f, PanelParts DEF PanelInv, PanelTypeOK, PanelIsThere, OwnOnly, AllAccounted, Accounted
  <2> QED BY <2>1, <2>2, <2>3, <2>4 DEF PanelInv
<1> QED BY <1>b, <1>c, <1>d

(* OpenDetail keeps the invariant.                                         *)
LEMMA OpenDetailOK ==
    ASSUME PanelInv, NEW a \in Alerts, OpenDetail(a)
    PROVE  PanelInv'
BY RenderOK DEF OpenDetail, atServer, PanelInv, PanelTypeOK

(* CloseDetail keeps the invariant.                                        *)
LEMMA CloseDetailOK ==
    ASSUME PanelInv, CloseDetail
    PROVE  PanelInv'
BY RenderOK DEF CloseDetail, atServer, PanelInv, PanelTypeOK

(* HearClosed keeps the invariant.                                         *)
LEMMA HearClosedOK ==
    ASSUME PanelInv, NEW a \in Alerts, HearClosed(a)
    PROVE  PanelInv'
BY RenderOK, NewsApart DEF HearClosed, atServer, PanelInv, PanelTypeOK

(* Reload keeps the invariant.                                             *)
LEMMA ReloadOK ==
    ASSUME PanelInv, Reload
    PROVE  PanelInv'
BY RenderOK DEF Reload, atServer, PanelInv, PanelTypeOK

(* ReceiveResolve keeps the invariant.                                     *)
LEMMA ReceiveResolveOK ==
    ASSUME PanelInv, NEW a \in Alerts, ReceiveResolve(a)
    PROVE  PanelInv'
BY RenderOK DEF ReceiveResolve, atServer, PanelInv, PanelTypeOK

(* Unmount keeps the invariant.                                            *)
LEMMA UnmountOK ==
    ASSUME PanelInv, Unmount
    PROVE  PanelInv'
<1>a. /\ panel' = NoPanel /\ load' = NoLoad /\ loading' = FALSE /\ shown' = Nothing
      /\ slot' = [slot EXCEPT !.fresh = FALSE] /\ posts' = {[p EXCEPT !.mine = FALSE] : p \in posts}
      /\ UNCHANGED <<thread, closed, news, listed, detail, solving, own, gaps>>
    BY DEF Unmount, atServer
<1>b. NoPanel \in Panels /\ NoPanel.at = "gone" /\ NoPanel.alert = None
    BY DEF NoPanel, Panels
<1>c. Nothing \in [Comments -> {0, 1}] /\ \A c \in Comments : Nothing[c] = 0
    BY DEF Nothing
<1>d. slot' \in Slots
    BY <1>a DEF Slots, PanelInv, PanelTypeOK
<1>e. ASSUME NEW p \in posts
      PROVE  LET q == [p EXCEPT !.mine = FALSE]
             IN q \in OwnPosts /\ ~q.mine /\ q.of = p.of /\ q.phase = p.phase
    BY DEF OwnPosts, PanelInv, PanelTypeOK
<1>f. posts' \subseteq OwnPosts /\ \A q \in posts' : ~q.mine /\ \E p \in posts : q.of = p.of /\ q.phase = p.phase
    BY <1>a, <1>e, Zenon
<1>1. PanelTypeOK'
    BY <1>a, <1>b, <1>c, <1>d, <1>f, PanelLoadParts DEF PanelInv, PanelTypeOK
<1>2. PanelIsThere'
    BY <1>a, <1>b, <1>c, <1>d, <1>f, PanelLoadParts DEF PanelInv, PanelTypeOK, PanelIsThere
<1>3. OwnOnly'
    BY <1>a, <1>b, <1>c, <1>d, <1>f, PanelLoadParts DEF PanelInv, PanelTypeOK, PanelIsThere, OwnOnly
<1>4. AllAccounted'
    BY <1>a, <1>b, <1>c, <1>d, <1>f, PanelLoadParts DEF PanelInv, PanelTypeOK, PanelIsThere, OwnOnly, AllAccounted, Accounted
<1> QED BY <1>1, <1>2, <1>3, <1>4 DEF PanelInv

(* OthersComment keeps the invariant.                                      *)
LEMMA OthersCommentOK ==
    ASSUME PanelInv, NEW a \in Alerts, NEW c \in Comments, OthersComment(a, c)
    PROVE  PanelInv'
<1>a. /\ thread' = [thread EXCEPT ![a] = @ \cup {c}]
      /\ \/ news' = news \cup {CommentNews(c)} /\ UNCHANGED gaps
         \/ gaps' = gaps \cup {c} /\ UNCHANGED news
      /\ UNCHANGED <<closed, listed, detail, panel, shown,
                      loading, load, slot, posts, solving, own>>
    BY DEF OthersComment
<1>1. PanelTypeOK'
    BY <1>a, PanelParts, PanelAssumption DEF PanelInv, PanelTypeOK
<1>2. PanelIsThere'
    BY <1>a, PanelParts, PanelAssumption DEF PanelInv, PanelTypeOK, PanelIsThere
<1>3. OwnOnly'
    BY <1>a, PanelParts, PanelAssumption DEF PanelInv, PanelTypeOK, PanelIsThere, OwnOnly
<1>4. AllAccounted'
    BY <1>a, PanelParts, PanelAssumption DEF PanelInv, PanelTypeOK, PanelIsThere, OwnOnly, AllAccounted, Accounted
<1> QED BY <1>1, <1>2, <1>3, <1>4 DEF PanelInv

(* HearComment keeps the invariant.                                        *)
LEMMA HearCommentOK ==
    ASSUME PanelInv, NEW c \in Comments, HearComment(c)
    PROVE  PanelInv'
<1>a. /\ news' = news \ {CommentNews(c)}
      /\ slot' = [of |-> c, fresh |-> panel.at # "gone"]
      /\ gaps' = (IF slot.fresh THEN gaps \cup {slot.of} ELSE gaps)
      /\ UNCHANGED <<thread, closed, listed, detail, panel,
                      shown, loading, load, posts, solving, own>>
    BY DEF HearComment, atServer
<1>b. slot' \in Slots /\ slot'.of = c /\ (slot'.fresh <=> panel.at # "gone")
    BY <1>a DEF Slots
<1>c. slot.fresh => slot.of \in Comments
    BY <1>a, PanelParts DEF PanelInv, PanelIsThere
<1>d. ASSUME panel.at # "gone", NEW d, Accounted(d) PROVE Accounted(d)'
  <2>1. CASE d = c
    BY <1>b, <1>d, <2>1 DEF Accounted
  <2>2. CASE d # c /\ CommentNews(d) \in news
    BY <1>a, <2>2, NewsApart DEF Accounted
  <2>3. CASE slot.fresh /\ slot.of = d
    BY <1>a, <2>3 DEF Accounted
  <2>4. CASE d \in gaps
    BY <1>a, <2>4 DEF Accounted
  <2> QED BY <1>d, <2>1, <2>2, <2>3, <2>4 DEF Accounted
<1>e. load \in Loads => panel.at # "gone"
    BY PanelParts, PanelAssumption DEF PanelInv, PanelIsThere
<1>1. PanelTypeOK'
    BY <1>a, <1>b, <1>c, PanelParts DEF PanelInv, PanelTypeOK
<1>2. PanelIsThere'
    BY <1>a, <1>b, <1>c, PanelParts DEF PanelInv, PanelTypeOK, PanelIsThere
<1>3. OwnOnly'
    BY <1>a, <1>b, <1>c, PanelParts DEF PanelInv, PanelTypeOK, PanelIsThere, OwnOnly
<1>4. AllAccounted'
    BY <1>a, <1>b, <1>c, PanelParts, <1>d, <1>e DEF PanelInv, PanelTypeOK, PanelIsThere, OwnOnly, AllAccounted
<1> QED BY <1>1, <1>2, <1>3, <1>4 DEF PanelInv

(* GiveComment keeps the invariant.                                        *)
LEMMA GiveCommentOK ==
    ASSUME PanelInv, GiveComment
    PROVE  PanelInv'
<1>a. /\ slot.fresh /\ panel.at = "open" /\ slot' = [slot EXCEPT !.fresh = FALSE]
      /\ shown' = (IF slot.of \in thread[panel.alert] THEN Appended(slot.of) ELSE shown)
      /\ gaps' = (IF loading THEN gaps \cup {slot.of} ELSE gaps)
      /\ UNCHANGED <<thread, closed, news, listed, detail,
                      panel, loading, load, posts, solving, own>>
    BY DEF GiveComment, atServer
<1>b. slot' \in Slots /\ slot'.of = slot.of /\ ~slot'.fresh
    BY <1>a DEF Slots, PanelInv, PanelTypeOK
<1>c. slot.of \in Comments
    BY <1>a, PanelParts DEF PanelInv, PanelIsThere
<1>1. PanelTypeOK'
    BY <1>a, <1>b, <1>c, PanelParts, PanelAssumption DEF PanelInv, PanelTypeOK, Appended
<1>2. PanelIsThere'
    BY <1>a, <1>b, <1>c, PanelParts, PanelAssumption DEF PanelInv, PanelTypeOK, PanelIsThere, Appended
<1>3. OwnOnly'
    BY <1>a, <1>b, <1>c, PanelParts, PanelAssumption DEF PanelInv, PanelTypeOK, PanelIsThere, OwnOnly, Appended
<1>4. AllAccounted'
    BY <1>a, <1>b, <1>c, PanelParts, PanelAssumption DEF PanelInv, PanelTypeOK, PanelIsThere, OwnOnly, AllAccounted, Accounted, Appended
<1> QED BY <1>1, <1>2, <1>3, <1>4 DEF PanelInv

(* ServeLoad keeps the invariant.                                          *)
LEMMA ServeLoadOK ==
    ASSUME PanelInv, ServeLoad
    PROVE  PanelInv'
<1>a. /\ load.on /\ load.phase = "asked"
      /\ load' = [load EXCEPT !.phase = "answered", !.found = thread[load.of]]
      /\ UNCHANGED <<thread, closed, news, listed, detail, panel,
                      shown, loading, slot, posts, solving, own, gaps>>
    BY DEF ServeLoad, atServer
<1>b. load \in Loads
    BY <1>a, PanelLoadParts DEF PanelInv, PanelTypeOK
<1>c. /\ load' \in Loads /\ load'.of = load.of /\ load'.phase = "answered"
      /\ load'.found = thread[load.of]
    BY <1>a, <1>b DEF Loads, PanelInv, PanelTypeOK
<1>d. UNCHANGED <<thread, closed, news, listed, detail, panel,
                      shown, loading, slot, posts, solving, own, gaps>>
    BY <1>a
<1>1. PanelTypeOK'
    BY <1>b, <1>c, <1>d, PanelParts DEF PanelInv, PanelTypeOK
<1>2. PanelIsThere'
    BY <1>b, <1>c, <1>d, PanelParts DEF PanelInv, PanelTypeOK, PanelIsThere
<1>3. OwnOnly'
    BY <1>b, <1>c, <1>d, PanelParts DEF PanelInv, PanelTypeOK, PanelIsThere, OwnOnly
<1>4. AllAccounted'
    BY <1>b, <1>c, <1>d, PanelParts DEF PanelInv, PanelTypeOK, PanelIsThere, OwnOnly, AllAccounted, Accounted
<1> QED BY <1>1, <1>2, <1>3, <1>4 DEF PanelInv

(* ReceiveLoad keeps the invariant.                                        *)
LEMMA ReceiveLoadOK ==
    ASSUME PanelInv, ReceiveLoad
    PROVE  PanelInv'
<1>a. /\ load.on /\ load.phase = "answered" /\ load' = NoLoad /\ loading' = FALSE
      /\ shown' = [c \in Comments |-> IF c \in load.found THEN 1 ELSE 0]
      /\ UNCHANGED <<thread, closed, news, listed, detail,
                      panel, slot, posts, solving, own, gaps>>
    BY DEF ReceiveLoad, atServer
<1>b. load \in Loads
    BY <1>a, PanelLoadParts DEF PanelInv, PanelTypeOK
<1>c. panel.at # "gone" /\ panel.alert = load.of
    BY <1>b, PanelParts, PanelAssumption DEF PanelInv, PanelIsThere
<1>1. PanelTypeOK'
    BY <1>a, <1>b, <1>c, PanelParts, PanelLoadParts DEF PanelInv, PanelTypeOK
<1>2. PanelIsThere'
    BY <1>a, <1>b, <1>c, PanelParts, PanelLoadParts DEF PanelInv, PanelTypeOK, PanelIsThere
<1>3. OwnOnly'
    BY <1>a, <1>b, <1>c, PanelParts, PanelLoadParts DEF PanelInv, PanelTypeOK, PanelIsThere, OwnOnly
<1>4. AllAccounted'
    BY <1>a, <1>b, <1>c, PanelParts, PanelLoadParts DEF PanelInv, PanelTypeOK, PanelIsThere, OwnOnly, AllAccounted, Accounted
<1> QED BY <1>1, <1>2, <1>3, <1>4 DEF PanelInv

(* LoadFails keeps the invariant.                                          *)
LEMMA LoadFailsOK ==
    ASSUME PanelInv, LoadFails
    PROVE  PanelInv'
<1>a. /\ load.on /\ load' = NoLoad /\ loading' = FALSE /\ shown' = Nothing
      /\ gaps' = gaps \cup thread[load.of]
      /\ UNCHANGED <<thread, closed, news, listed, detail,
                      panel, slot, posts, solving, own>>
    BY DEF LoadFails, atServer
<1>b. load \in Loads
    BY <1>a, PanelLoadParts DEF PanelInv, PanelTypeOK
<1>c. panel.at # "gone" /\ panel.alert = load.of
    BY <1>b, PanelParts, PanelAssumption DEF PanelInv, PanelIsThere
<1>d. Nothing \in [Comments -> {0, 1}] /\ \A c \in Comments : Nothing[c] = 0
    BY DEF Nothing
<1>1. PanelTypeOK'
    BY <1>a, <1>b, <1>c, <1>d, PanelParts, PanelLoadParts DEF PanelInv, PanelTypeOK
<1>2. PanelIsThere'
    BY <1>a, <1>b, <1>c, <1>d, PanelParts, PanelLoadParts DEF PanelInv, PanelTypeOK, PanelIsThere
<1>3. OwnOnly'
    BY <1>a, <1>b, <1>c, <1>d, PanelParts, PanelLoadParts DEF PanelInv, PanelTypeOK, PanelIsThere, OwnOnly
<1>4. AllAccounted'
    BY <1>a, <1>b, <1>c, <1>d, PanelParts, PanelLoadParts DEF PanelInv, PanelTypeOK, PanelIsThere, OwnOnly, AllAccounted, Accounted
<1> QED BY <1>1, <1>2, <1>3, <1>4 DEF PanelInv

(* Post keeps the invariant.                                               *)
LEMMA PostOK ==
    ASSUME PanelInv, NEW c \in Comments, Post(c)
    PROVE  PanelInv'
<1> DEFINE p == [of |-> c, to |-> panel.alert, mine |-> TRUE, phase |-> "asked"]
<1>a. /\ panel.at = "open" /\ panel' = [panel EXCEPT !.posting = TRUE] /\ posts' = posts \cup {p}
      /\ UNCHANGED <<thread, closed, news, listed, detail, shown,
                      loading, load, slot, solving, own, gaps>>
    BY DEF Post, atServer
<1>b. panel' \in Panels /\ panel'.at = panel.at /\ panel'.alert = panel.alert
    BY <1>a DEF Panels, PanelInv, PanelTypeOK
<1>c. p \in OwnPosts /\ p.phase = "asked"
  <2>1. panel.alert \in Alerts
    BY <1>a, PanelParts DEF PanelInv, PanelIsThere
  <2> QED BY <2>1 DEF OwnPosts
<1> HIDE DEF p
<1>1. PanelTypeOK'
    BY <1>a, <1>b, <1>c, PanelParts DEF PanelInv, PanelTypeOK
<1>2. PanelIsThere'
    BY <1>a, <1>b, <1>c, PanelParts DEF PanelInv, PanelTypeOK, PanelIsThere
<1>3. OwnOnly'
    BY <1>a, <1>b, <1>c, PanelParts DEF PanelInv, PanelTypeOK, PanelIsThere, OwnOnly
<1>4. AllAccounted'
    BY <1>a, <1>b, <1>c, PanelParts DEF PanelInv, PanelTypeOK, PanelIsThere, OwnOnly, AllAccounted, Accounted
<1> QED BY <1>1, <1>2, <1>3, <1>4 DEF PanelInv

(* ServePost keeps the invariant.                                          *)
LEMMA ServePostOK ==
    ASSUME PanelInv, NEW p \in posts, ServePost(p)
    PROVE  PanelInv'
<1> DEFINE q == [p EXCEPT !.phase = "answered"]
<1>a. /\ thread' = [thread EXCEPT ![p.to] = @ \cup {p.of}]
      /\ news' = news \cup {CommentNews(p.of)} /\ own' = own \cup {p.of}
      /\ posts' = (posts \ {p}) \cup {q}
      /\ UNCHANGED <<closed, listed, detail, panel, shown,
                      loading, load, slot, solving, gaps>>
    BY DEF ServePost
<1>b. q \in OwnPosts /\ q.of = p.of /\ q.mine = p.mine
    BY DEF OwnPosts, PanelInv, PanelTypeOK
<1>c. p.of \in Comments /\ p.to \in Alerts
    BY PanelParts DEF PanelInv
<1> HIDE DEF q
<1>1. PanelTypeOK'
    BY <1>a, <1>b, <1>c, PanelParts, PanelAssumption DEF PanelInv, PanelTypeOK
<1>2. PanelIsThere'
    BY <1>a, <1>b, <1>c, PanelParts, PanelAssumption DEF PanelInv, PanelTypeOK, PanelIsThere
<1>3. OwnOnly'
    BY <1>a, <1>b, <1>c, PanelParts, PanelAssumption DEF PanelInv, PanelTypeOK, PanelIsThere, OwnOnly
<1>4. AllAccounted'
    BY <1>a, <1>b, <1>c, PanelParts, PanelAssumption DEF PanelInv, PanelTypeOK, PanelIsThere, OwnOnly, AllAccounted, Accounted
<1> QED BY <1>1, <1>2, <1>3, <1>4 DEF PanelInv

(* ReceivePost keeps the invariant.                                        *)
LEMMA ReceivePostOK ==
    ASSUME PanelInv, NEW p \in posts, ReceivePost(p)
    PROVE  PanelInv'
<1>a. /\ p.phase = "answered" /\ posts' = posts \ {p}
      /\ p.mine => shown' = Appended(p.of)
      /\ ~p.mine => UNCHANGED shown
      /\ UNCHANGED <<thread, closed, news, listed, detail,
                      loading, load, slot, solving, own, gaps>>
    BY DEF ReceivePost, atServer
<1>b. panel' \in Panels /\ panel'.at = panel.at /\ panel'.alert = panel.alert
    BY DEF ReceivePost, Panels, PanelInv, PanelTypeOK
<1>c. p.of \in Comments /\ p.of \in own /\ p.mine \in BOOLEAN /\ (p.mine => panel.at # "gone")
    BY <1>a, PanelParts DEF PanelInv, PanelIsThere
<1>1. PanelTypeOK'
    BY <1>a, <1>b, <1>c, PanelParts DEF PanelInv, PanelTypeOK, Appended
<1>2. PanelIsThere'
    BY <1>a, <1>b, <1>c, PanelParts DEF PanelInv, PanelTypeOK, PanelIsThere, Appended
<1>3. OwnOnly'
    BY <1>a, <1>b, <1>c, PanelParts DEF PanelInv, PanelTypeOK, PanelIsThere, OwnOnly, Appended
<1>4. AllAccounted'
    BY <1>a, <1>b, <1>c, PanelParts DEF PanelInv, PanelTypeOK, PanelIsThere, OwnOnly, AllAccounted, Accounted, Appended
<1> QED BY <1>1, <1>2, <1>3, <1>4 DEF PanelInv

(* PostFails keeps the invariant.                                          *)
LEMMA PostFailsOK ==
    ASSUME PanelInv, NEW p \in posts, PostFails(p)
    PROVE  PanelInv'
<1>a. posts' = posts \ {p} /\ UNCHANGED <<thread, closed, news, listed, detail, shown,
                      loading, load, slot, solving, own, gaps>>
    BY DEF PostFails, atServer
<1>b. panel' \in Panels /\ panel'.at = panel.at /\ panel'.alert = panel.alert
    BY DEF PostFails, Panels, PanelInv, PanelTypeOK
<1>1. PanelTypeOK'
    BY <1>a, <1>b, PanelParts DEF PanelInv, PanelTypeOK
<1>2. PanelIsThere'
    BY <1>a, <1>b, PanelParts DEF PanelInv, PanelTypeOK, PanelIsThere
<1>3. OwnOnly'
    BY <1>a, <1>b, PanelParts DEF PanelInv, PanelTypeOK, PanelIsThere, OwnOnly
<1>4. AllAccounted'
    BY <1>a, <1>b, PanelParts DEF PanelInv, PanelTypeOK, PanelIsThere, OwnOnly, AllAccounted, Accounted
<1> QED BY <1>1, <1>2, <1>3, <1>4 DEF PanelInv

(* Solving keeps the invariant.                                            *)
LEMMA SolvingOK ==
    ASSUME PanelInv, Resolve \/ \E a \in Alerts : ServeResolve(a) \/ ResolveFails(a)
    PROVE  PanelInv'
<1>a. UNCHANGED <<thread, listed, detail, panel, shown, loading, load, slot, posts, own, gaps>>
    BY DEF Resolve, ServeResolve, ResolveFails, atServer
<1>b. closed' \subseteq Alerts /\ solving' \subseteq Alerts
    BY PanelParts DEF Resolve, ServeResolve, ResolveFails, atServer, PanelInv, PanelTypeOK, PanelIsThere
<1>c. /\ news' \subseteq {CommentNews(c) : c \in Comments} \cup {ClosedNews(a) : a \in Alerts}
      /\ news \subseteq news'
    BY DEF Resolve, ServeResolve, ResolveFails, atServer, PanelInv, PanelTypeOK
<1>1. PanelTypeOK'
    BY <1>a, <1>b, <1>c, PanelParts DEF PanelInv, PanelTypeOK
<1>2. PanelIsThere'
    BY <1>a, <1>b, <1>c, PanelParts DEF PanelInv, PanelTypeOK, PanelIsThere
<1>3. OwnOnly'
    BY <1>a, <1>b, <1>c, PanelParts DEF PanelInv, PanelTypeOK, PanelIsThere, OwnOnly
<1>4. AllAccounted'
    BY <1>a, <1>b, <1>c, PanelParts DEF PanelInv, PanelTypeOK, PanelIsThere, OwnOnly, AllAccounted, Accounted
<1> QED BY <1>1, <1>2, <1>3, <1>4 DEF PanelInv

(* Every step keeps the invariant, or changes nothing.                     *)
LEMMA PanelStep == PanelInv /\ [PanelNext]_panelVars => PanelInv'
<1> SUFFICES ASSUME PanelInv, [PanelNext]_panelVars PROVE PanelInv'
    OBVIOUS
<1>1. CASE UNCHANGED panelVars
  <2>a. UNCHANGED <<thread, closed, news, listed, detail, panel, shown,
                      loading, load, slot, posts, solving, own, gaps>>
    BY <1>1 DEF panelVars
  <2>1. PanelTypeOK'
      BY <2>a DEF PanelInv, PanelTypeOK
  <2>2. PanelIsThere'
      BY <2>a DEF PanelInv, PanelTypeOK, PanelIsThere
  <2>3. OwnOnly'
      BY <2>a DEF PanelInv, PanelTypeOK, PanelIsThere, OwnOnly
  <2>4. AllAccounted'
      BY <2>a DEF PanelInv, PanelTypeOK, PanelIsThere, OwnOnly, AllAccounted, Accounted
  <2> QED BY <2>1, <2>2, <2>3, <2>4 DEF PanelInv
<1>2. ASSUME NEW a \in Alerts, OpenDetail(a) \/ HearClosed(a) \/ ReceiveResolve(a)
      PROVE  PanelInv'
    BY <1>2, OpenDetailOK, HearClosedOK, ReceiveResolveOK
<1>3. CASE Resolve \/ \E a \in Alerts : ServeResolve(a) \/ ResolveFails(a)
    BY <1>3, SolvingOK
<1>4. ASSUME NEW a \in Alerts, NEW c \in Comments, OthersComment(a, c) PROVE PanelInv'
    BY <1>4, OthersCommentOK
<1>5. ASSUME NEW c \in Comments, HearComment(c) \/ Post(c) PROVE PanelInv'
    BY <1>5, HearCommentOK, PostOK
<1>6. ASSUME NEW p \in posts, ServePost(p) \/ ReceivePost(p) \/ PostFails(p) PROVE PanelInv'
    BY <1>6, ServePostOK, ReceivePostOK, PostFailsOK
<1>7. CASE CloseDetail \/ Unmount \/ GiveComment \/ Reload
    BY <1>7, CloseDetailOK, UnmountOK, GiveCommentOK, ReloadOK
<1>8. CASE ServeLoad \/ ReceiveLoad \/ LoadFails
    BY <1>8, ServeLoadOK, ReceiveLoadOK, LoadFailsOK
<1> QED BY <1>1, <1>2, <1>3, <1>4, <1>5, <1>6, <1>7, <1>8 DEF PanelNext

(* Whatever is opened, loaded, posted and heard, what the thread has and   *)
(* the panel does not show is accounted for, and nothing else's is shown.  *)
THEOREM PanelInvariant == PanelSpec => []PanelInv
BY PanelInitOK, PanelStep, PTL DEF PanelSpec

(* The thread on screen has nothing but the open alert's comments and what *)
(* was posted from here, each once, for any number of alerts and comments, *)
(* in whatever order the load, the posts' answers and the stream come.     *)
THEOREM ThreadIsOwnAlways == PanelSpec => []ThreadIsOwn
<1>1. PanelInv => ThreadIsOwn
    BY DEF PanelInv, PanelTypeOK, OwnOnly, ThreadIsOwn
<1> QED BY PanelInvariant, <1>1, PTL

(* No update of a thread that has loaded is lost but in the ways that the  *)
(* property names.                                                         *)
THEOREM OnlyKnownGapsAlways == PanelSpec => []OnlyKnownGaps
<1>1. PanelInv => OnlyKnownGaps
    BY PanelParts DEF PanelInv, PanelTypeOK, AllAccounted, Accounted, PanelIsThere, OnlyKnownGaps
<1> QED BY PanelInvariant, <1>1, PTL
-----------------------------------------------------------------------------
(* The map's police stations.                                              *)

(* A request for the stations of a view.                                   *)
Fetch == [on : {TRUE}, of : Views, current : BOOLEAN]

(* What the variables of the map's stations can be.                        *)
StationsTypeOK ==
    /\ view \in Views \cup {Far} /\ layer \in BOOLEAN /\ gated \in BOOLEAN /\ failed \in BOOLEAN
    /\ markers \in Views \cup {NoView}
    /\ timer \in Fetch \cup {NoTimer} /\ fetches \subseteq Fetch
    /\ stats \in [StationIds -> {"none", "loading", "ready", "error"}]
    /\ asks \in [StationIds -> Nat]

(* A fetch whose epoch is current, or a timer's, is of the view that is    *)
(* shown, in a layer that is there.                                        *)
OfThisView == \A f \in fetches \cup {timer} : f # NoTimer /\ f.current => layer /\ f.of = view

(* An answer for the view that is shown is still to come.                  *)
Coming == \E f \in fetches \cup {timer} : f # NoTimer /\ f.current

(* The markers that belong to a view: none of one that is too far out.     *)
MarkersOf(v) == IF v = Far THEN NoView ELSE v

(* The last key is that of the markers, whatever became of the layer.      *)
LayerInv ==
    /\ lastKey = markers
    /\ OfThisView
    /\ layer => /\ failed \/ Coming \/ markers = MarkersOf(view)
                /\ gated <=> view = Far

(* A station's figures are asked for once, as long as they are loading.    *)
OneAsk == \A id \in StationIds : asks[id] = IF stats[id] = "loading" THEN 1 ELSE 0

(* The inductive invariant of the stations.                                *)
StationsInv == StationsTypeOK /\ LayerInv /\ OneAsk

(* What ageing makes of a fetch, and of the fetches.                       *)
LEMMA AgedFetch ==
    ASSUME NEW f \in Fetch
    PROVE  Aged(f) \in Fetch /\ ~Aged(f).current
BY DEF Fetch, Aged

(* The timer that is not set is no fetch.                                  *)
LEMMA NoTimerIsNone == NoTimer \notin Fetch /\ ~NoTimer.on
<1>1. ~NoTimer.on
    BY DEF NoTimer
<1>2. \A f \in Fetch : f.on
    BY DEF Fetch
<1> QED BY <1>1, <1>2

(* Stations's initial states satisfy the invariant.                        *)
LEMMA StationsInitOK == StationsInit => StationsInv
<1> SUFFICES ASSUME StationsInit PROVE StationsInv
    OBVIOUS
<1>1. StationsTypeOK
    BY DEF StationsInit, StationsTypeOK
<1>2. LayerInv
    BY DEF StationsInit, LayerInv, OfThisView
<1>3. OneAsk
    BY DEF StationsInit, OneAsk
<1> QED BY <1>1, <1>2, <1>3 DEF StationsInv

(* refresh, of a layer that is there and whose markers are those of the    *)
(* last key: it leaves what was under way without an effect, and either    *)
(* shows the view's stations or has a timer for them.                      *)
LEMMA Refreshed ==
    ASSUME NEW v \in Views \cup {Far}, NEW drawn \in Views \cup {NoView},
           NEW waiting \in Fetch \cup {NoTimer}, fetches \subseteq Fetch,
           Refresh(v, drawn, drawn, waiting), layer', view' = v
    PROVE  /\ gated' \in BOOLEAN /\ failed' \in BOOLEAN /\ markers' \in Views \cup {NoView}
           /\ timer' \in Fetch \cup {NoTimer} /\ fetches' \subseteq Fetch
           /\ LayerInv'
<1>1. fetches' \subseteq Fetch /\ \A f \in fetches' : ~f.current
    BY AgedFetch DEF Refresh
<1>2. failed' = FALSE /\ gated' \in BOOLEAN /\ (gated' <=> v = Far)
    BY DEF Refresh
<1>3. CASE v = Far /\ timer' = NoTimer /\ markers' = NoView /\ lastKey' = NoView
    BY <1>1, <1>2, <1>3 DEF LayerInv, OfThisView, MarkersOf
<1>4. CASE /\ v = drawn /\ markers' = drawn /\ lastKey' = drawn
           /\ timer' = IF waiting.on THEN Aged(waiting) ELSE waiting
  <2>1. timer' \in Fetch \cup {NoTimer} /\ (timer' # NoTimer => ~timer'.current)
    <3>1. CASE waiting \in Fetch
        BY <1>4, <3>1, AgedFetch DEF Fetch
    <3>2. CASE waiting = NoTimer
        BY <1>4, <3>2, NoTimerIsNone
    <3> QED BY <3>1, <3>2
  <2>2. v # Far /\ markers' = v
    BY <1>4, StationsAssumption
  <2> QED BY <1>1, <1>2, <1>4, <2>1, <2>2 DEF LayerInv, OfThisView, MarkersOf
<1>5. CASE /\ v \notin {Far, drawn} /\ markers' = drawn /\ lastKey' = drawn
           /\ timer' = [on |-> TRUE, of |-> v, current |-> TRUE]
  <2>1. timer' \in Fetch /\ timer'.of = v /\ timer'.current
    BY <1>5 DEF Fetch
  <2>2. Coming'
    BY <2>1, NoTimerIsNone DEF Coming
  <2> QED BY <1>1, <1>2, <1>5, <2>1, <2>2 DEF LayerInv, OfThisView
<1>6. \/ v = Far /\ timer' = NoTimer /\ markers' = NoView /\ lastKey' = NoView
      \/ /\ v = drawn /\ markers' = drawn /\ lastKey' = drawn
         /\ timer' = IF waiting.on THEN Aged(waiting) ELSE waiting
      \/ /\ v \notin {Far, drawn} /\ markers' = drawn /\ lastKey' = drawn
         /\ timer' = [on |-> TRUE, of |-> v, current |-> TRUE]
    BY DEF Refresh
<1> QED BY <1>3, <1>4, <1>5, <1>6

(* MoveMap keeps the invariant.                                            *)
LEMMA MoveMapOK ==
    ASSUME StationsInv, NEW v \in Views \cup {Far}, MoveMap(v)
    PROVE  StationsInv'
<1>1. CASE layer
  <2>1. Refresh(v, markers, markers, timer) /\ view' = v /\ UNCHANGED <<layer, stats, asks>>
    BY <1>1 DEF MoveMap, StationsInv, LayerInv, statVars
  <2> QED BY <1>1, <2>1, Refreshed DEF StationsInv, StationsTypeOK, OneAsk
<1>2. CASE ~layer
  <2>1. view' = v /\ UNCHANGED <<layer, gated, lastKey, markers, timer, fetches, failed, stats, asks>>
    BY <1>2 DEF MoveMap, statVars
  <2> QED BY <1>2, <2>1 DEF StationsInv, StationsTypeOK, LayerInv, OfThisView, OneAsk
<1> QED BY <1>1, <1>2

(* ShowStations keeps the invariant.                                       *)
LEMMA ShowStationsOK ==
    ASSUME StationsInv, ShowStations
    PROVE  StationsInv'
<1>1. /\ layer' = TRUE /\ view' = view /\ Refresh(view, NoView, NoView, NoTimer)
      /\ stats' = [id \in StationIds |-> "none"] /\ asks' = [id \in StationIds |-> 0]
    BY DEF ShowStations
<1> QED BY <1>1, Refreshed DEF StationsInv, StationsTypeOK, OneAsk

(* HideStations keeps the invariant.                                       *)
LEMMA HideStationsOK ==
    ASSUME StationsInv, HideStations
    PROVE  StationsInv'
<1>1. fetches' \subseteq Fetch /\ \A f \in fetches' : ~f.current
    BY AgedFetch DEF HideStations, StationsInv, StationsTypeOK
<1> QED BY <1>1 DEF HideStations, statVars, StationsInv, StationsTypeOK, LayerInv, OfThisView, OneAsk

(* FireTimer keeps the invariant.                                          *)
LEMMA FireTimerOK ==
    ASSUME StationsInv, FireTimer
    PROVE  StationsInv'
<1>1. /\ timer \in Fetch /\ fetches' = fetches \cup {timer} /\ timer' = NoTimer
      /\ UNCHANGED <<view, layer, gated, lastKey, markers, failed, stats, asks>>
    BY NoTimerIsNone DEF FireTimer, statVars, StationsInv, StationsTypeOK
<1>2. Coming => Coming'
    BY <1>1, NoTimerIsNone DEF Coming
<1> QED BY <1>1, <1>2, NoTimerIsNone DEF StationsInv, StationsTypeOK, LayerInv, OfThisView, OneAsk

(* ReceiveStations keeps the invariant.                                    *)
LEMMA ReceiveStationsOK ==
    ASSUME StationsInv, NEW f \in fetches, ReceiveStations(f) \/ StationsFail(f)
    PROVE  StationsInv'
<1>1. /\ fetches' = fetches \ {f} /\ f \in Fetch /\ f # NoTimer
      /\ UNCHANGED <<view, layer, gated, timer, stats, asks>>
    BY NoTimerIsNone DEF ReceiveStations, StationsFail, statVars, StationsInv, StationsTypeOK
<1>2. f.current \in BOOLEAN /\ f.of \in Views
    BY <1>1 DEF Fetch
<1>3. CASE f.current
  <2>1. layer /\ f.of = view /\ view # Far
    BY <1>1, <1>2, <1>3, StationsAssumption DEF StationsInv, LayerInv, OfThisView
  <2>2. CASE ReceiveStations(f)
    <3>1. lastKey' = view /\ markers' = view /\ failed' = failed
        BY <1>3, <2>1, <2>2 DEF ReceiveStations
    <3> QED BY <1>1, <2>1, <3>1
            DEF StationsInv, StationsTypeOK, LayerInv, OfThisView, OneAsk, MarkersOf
  <2>3. CASE StationsFail(f)
    <3>1. failed' = TRUE /\ UNCHANGED <<lastKey, markers>>
        BY <1>3, <2>3 DEF StationsFail
    <3> QED BY <1>1, <2>1, <3>1 DEF StationsInv, StationsTypeOK, LayerInv, OfThisView, OneAsk
  <2> QED BY <2>2, <2>3
<1>4. CASE ~f.current
  <2>1. UNCHANGED <<lastKey, markers, failed>>
    BY <1>4 DEF ReceiveStations, StationsFail, StationsInv, StationsTypeOK
  <2>2. Coming => Coming'
    BY <1>1, <1>4 DEF Coming
  <2> QED BY <1>1, <2>1, <2>2
          DEF StationsInv, StationsTypeOK, LayerInv, OfThisView, OneAsk, MarkersOf
<1> QED BY <1>2, <1>3, <1>4

(* Stats keeps the invariant.                                              *)
LEMMA StatsOK ==
    ASSUME StationsInv, NEW id \in StationIds,
           LoadStats(id) \/ \E outcome \in {"ready", "error"} : ReceiveStats(id, outcome)
    PROVE  StationsInv'
<1>1. UNCHANGED <<view, layer, gated, lastKey, markers, timer, fetches, failed>>
    BY DEF LoadStats, ReceiveStats
<1>2. CASE LoadStats(id)
  <2>1. /\ stats' = [stats EXCEPT ![id] = "loading"] /\ asks' = [asks EXCEPT ![id] = @ + 1]
        /\ stats[id] # "loading"
    BY <1>2 DEF LoadStats
  <2> QED BY <1>1, <2>1 DEF StationsInv, StationsTypeOK, LayerInv, OfThisView, Coming, OneAsk
<1>3. ASSUME NEW outcome \in {"ready", "error"}, ReceiveStats(id, outcome)
      PROVE  StationsInv'
  <2>1. /\ stats' = [stats EXCEPT ![id] = outcome] /\ asks' = [asks EXCEPT ![id] = @ - 1]
        /\ asks[id] > 0
    BY <1>3 DEF ReceiveStats
  <2> QED BY <1>1, <1>3, <2>1 DEF StationsInv, StationsTypeOK, LayerInv, OfThisView, Coming, OneAsk
<1> QED BY <1>2, <1>3

(* Every step keeps the invariant, or changes nothing.                     *)
LEMMA StationsStep == StationsInv /\ [StationsNext]_stationVars => StationsInv'
<1> SUFFICES ASSUME StationsInv, [StationsNext]_stationVars PROVE StationsInv'
    OBVIOUS
<1>1. CASE UNCHANGED stationVars
    BY <1>1 DEF stationVars, StationsInv, StationsTypeOK, LayerInv, OfThisView, Coming, OneAsk
<1>2. CASE StationsNext
    BY <1>2, MoveMapOK, ShowStationsOK, HideStationsOK, FireTimerOK, ReceiveStationsOK, StatsOK
       DEF StationsNext
<1> QED BY <1>1, <1>2

(* The layer settles on the stations of the view it shows, and on none,    *)
(* with the hint to zoom in, of a view that is too far out, however moves, *)
(* timers, answers, failures and the box's switching overtake each other;  *)
(* and one fetch at a time is on its way for a station's statistics.       *)
THEOREM StationsSettledAlways == StationsSpec => []StationsSettled
<1>1. StationsInv => StationsSettled
    BY DEF StationsInv, LayerInv, OneAsk, Coming, MarkersOf, StationsSettled
<1> QED BY StationsInitOK, StationsStep, <1>1, PTL DEF StationsSpec
-----------------------------------------------------------------------------
(* The settings of an account.                                             *)

(* A change that has been sent, and one whose row the server has read.     *)
SentChange ==
    [of : Settings, to : Values, as : Accounts \cup {Nobody}, previous : Values \cup {Unloaded},
     mine : BOOLEAN, phase : {"sent"}]
ReadChange ==
    [of : Settings, to : Values, as : Accounts, previous : Values \cup {Unloaded},
     mine : BOOLEAN, phase : {"read", "written"}, row : [Settings -> Values]]

(* A load of the profile that has been sent, and one that is answered.     *)
SentLoad ==
    [on : {TRUE}, as : Accounts \cup {Nobody}, phase : {"sent"}, late : SUBSET Settings]
AnsweredLoad ==
    [on : {TRUE}, as : Accounts, phase : {"answered"}, late : SUBSET Settings,
     found : [Settings -> Values]]

(* What the variables of the settings can be.                              *)
SettingsTypeOK ==
    /\ profile \in [Accounts -> [Settings -> Values]]
    /\ session \in Accounts \cup {Nobody} /\ stored \in Accounts \cup {Nobody}
    /\ settings \in BOOLEAN
    /\ showing \in [Settings -> Values \cup {Unloaded}]
    /\ busy \in [Settings -> BOOLEAN]
    /\ profileLoad \in SentLoad \cup AnsweredLoad \cup {NoProfileLoad}
    /\ changes \subseteq SentChange \cup ReadChange
    /\ doubted \subseteq Settings

(* A panel that is not there shows nothing and waits for nothing.          *)
NothingShut == ~settings => /\ showing = NothingLoaded /\ busy = NoneBusy
                        /\ profileLoad = NoProfileLoad

(* What the panel waits for is one change of a setting that it shows, and  *)
(* no control is disabled otherwise.                                       *)
OneChange ==
    /\ \A c \in changes : c.mine =>
          /\ settings /\ busy[c.of]
          /\ showing[c.of] # Unloaded /\ c.previous # Unloaded
          /\ \A d \in changes : d.mine /\ d.of = c.of => d = c
    /\ \A s \in Settings : busy[s] => \E c \in changes : c.mine /\ c.of = s

(* A setting is shown and nothing is known to have made it doubtful.       *)
Vouched(s) == settings /\ session # Nobody /\ showing[s] # Unloaded /\ s \notin doubted

(* What is shown without a doubt is the account's, until it is changed and *)
(* from the moment that the server has written the change.                 *)
ShownIsStored ==
    \A s \in Settings :
        Vouched(s) /\ (\A c \in changes : c.mine /\ c.of = s => c.phase = "written")
            => showing[s] = profile[session][s]

(* What a change takes back is the account's.                              *)
TakesBack ==
    \A c \in changes :
        c.mine /\ c.phase # "written" /\ Vouched(c.of)
            => /\ c.as = session /\ showing[c.of] = c.to
               /\ c.previous = profile[session][c.of]

(* A change that nobody waits for leaves its setting in doubt.             *)
OrphansDoubted ==
    \A c \in changes :
        ~c.mine /\ c.phase # "written" /\ settings /\ showing[c.of] # Unloaded
            => c.of \in doubted

(* What the answer to a load says is the account's, where it is not late.  *)
FoundIsStored ==
    profileLoad \in AnsweredLoad =>
        \A s \in Settings \ profileLoad.late : profileLoad.found[s] = profile[profileLoad.as][s]

(* The inductive invariant of the settings.                                *)
SettingsInv ==
    /\ SettingsTypeOK /\ NothingShut /\ OneChange
    /\ ShownIsStored /\ TakesBack /\ OrphansDoubted /\ FoundIsStored

(* What the steps make of a change's record.                               *)
LEMMA OrphanIs ==
    ASSUME NEW c \in SentChange \cup ReadChange
    PROVE  /\ Orphan(c) \in SentChange \cup ReadChange
           /\ Orphan(c).of = c.of /\ Orphan(c).phase = c.phase /\ ~Orphan(c).mine
<1>1. CASE c \in SentChange
    BY <1>1 DEF Orphan, SentChange
<1>2. CASE c \in ReadChange
    BY <1>2 DEF Orphan, ReadChange
<1> QED BY <1>1, <1>2

(* u is the change c, further on its way.                                  *)
Further(c, u, phase) ==
    /\ u \in ReadChange /\ u.phase = phase
    /\ u.of = c.of /\ u.to = c.to /\ u.as = c.as /\ u.previous = c.previous /\ u.mine = c.mine

(* A change whose row is written is the same change.                       *)
LEMMA WrittenIs ==
    ASSUME NEW c \in ReadChange
    PROVE  Further(c, [c EXCEPT !.phase = "written"], "written")
BY DEF ReadChange, Further

(* The parts of a change, by how far it is.                                *)
LEMMA ChangeParts ==
    ASSUME NEW c \in SentChange \cup ReadChange
    PROVE  /\ c.of \in Settings /\ c.to \in Values /\ c.as \in Accounts \cup {Nobody}
           /\ c.previous \in Values \cup {Unloaded} /\ c.mine \in BOOLEAN
           /\ c.phase \in {"sent", "read", "written"}
           /\ c.phase = "sent" <=> c \in SentChange
           /\ c.phase # "sent" => c.as \in Accounts /\ c.row \in [Settings -> Values]
BY DEF SentChange, ReadChange

(* A load of the profile tells how far it is.                              *)
LEMMA SettingsLoadParts ==
    /\ NoProfileLoad \notin SentLoad \cup AnsweredLoad /\ ~NoProfileLoad.on
    /\ \A p \in SentLoad : p.on /\ p.phase = "sent"
    /\ \A p \in AnsweredLoad : p.on /\ p.phase = "answered"
<1>1. ~NoProfileLoad.on
    BY DEF NoProfileLoad
<1>2. /\ \A p \in SentLoad : p.on /\ p.phase = "sent"
      /\ \A p \in AnsweredLoad : p.on /\ p.phase = "answered"
    BY DEF SentLoad, AnsweredLoad
<1> QED BY <1>1, <1>2

(* Settings's initial states satisfy the invariant.                        *)
LEMMA SettingsInitOK == SettingsInit => SettingsInv
<1> SUFFICES ASSUME SettingsInit PROVE SettingsInv
    OBVIOUS
<1>1. SettingsTypeOK
    BY SettingsLoadParts DEF SettingsInit, NothingLoaded, NoneBusy, SettingsInv, SettingsTypeOK
<1>2. NothingShut
    BY SettingsLoadParts DEF SettingsInit, NothingLoaded, NoneBusy, NothingShut
<1>3. OneChange
    BY SettingsLoadParts DEF SettingsInit, NothingLoaded, NoneBusy, OneChange
<1>4. ShownIsStored
    BY SettingsLoadParts DEF SettingsInit, NothingLoaded, NoneBusy, SettingsInv, SettingsTypeOK, NothingShut, OneChange, ShownIsStored, TakesBack, OrphansDoubted, FoundIsStored, Vouched
<1>5. TakesBack
    BY SettingsLoadParts DEF SettingsInit, NothingLoaded, NoneBusy, SettingsInv, SettingsTypeOK, NothingShut, OneChange, ShownIsStored, TakesBack, OrphansDoubted, Vouched
<1>6. OrphansDoubted
    BY SettingsLoadParts DEF SettingsInit, NothingLoaded, NoneBusy, SettingsInv, SettingsTypeOK, NothingShut, OneChange, OrphansDoubted
<1>7. FoundIsStored
    BY SettingsLoadParts DEF SettingsInit, NothingLoaded, NoneBusy, SettingsInv, SettingsTypeOK, FoundIsStored
<1> QED BY <1>1, <1>2, <1>3, <1>4, <1>5, <1>6, <1>7 DEF SettingsInv

(* OpenSettings keeps the invariant.                                       *)
LEMMA OpenSettingsOK ==
    ASSUME SettingsInv, OpenSettings
    PROVE  SettingsInv'
<1>a. /\ ~settings /\ settings' = TRUE /\ UNCHANGED <<profile, session, stored, showing, busy, changes, doubted>>
    BY DEF OpenSettings
<1>b. profileLoad' \in SentLoad \cup {NoProfileLoad}
    BY DEF OpenSettings, FetchProfile, Bearer, SentLoad, SettingsInv, SettingsTypeOK
<1>c. \A c \in changes : c.of \in Settings
    BY ChangeParts DEF SettingsInv, SettingsTypeOK
<1>1. SettingsTypeOK'
    BY <1>a, <1>b, <1>c, SettingsLoadParts DEF SettingsInv, SettingsTypeOK
<1>2. NothingShut'
    BY <1>a, <1>b, <1>c, SettingsLoadParts DEF SettingsInv, SettingsTypeOK, NothingShut, NothingLoaded, NoneBusy
<1>3. OneChange'
    BY <1>a, <1>b, <1>c, SettingsLoadParts DEF SettingsInv, SettingsTypeOK, NothingShut, OneChange, NothingLoaded, NoneBusy
<1>4. ShownIsStored'
    BY <1>a, <1>b, <1>c, SettingsLoadParts DEF SettingsInv, SettingsTypeOK, NothingShut, OneChange, ShownIsStored, TakesBack, OrphansDoubted, FoundIsStored, Vouched, NothingLoaded
<1>5. TakesBack'
    BY <1>a, <1>b, <1>c, SettingsLoadParts DEF SettingsInv, SettingsTypeOK, NothingShut, OneChange, ShownIsStored, TakesBack, OrphansDoubted, Vouched, NothingLoaded
<1>6. OrphansDoubted'
    BY <1>a, <1>b, <1>c, SettingsLoadParts DEF SettingsInv, SettingsTypeOK, NothingShut, OneChange, OrphansDoubted, NothingLoaded
<1>7. FoundIsStored'
    BY <1>a, <1>b, <1>c, SettingsLoadParts DEF SettingsInv, SettingsTypeOK, FoundIsStored
<1> QED BY <1>1, <1>2, <1>3, <1>4, <1>5, <1>6, <1>7 DEF SettingsInv

(* CloseSettings keeps the invariant.                                      *)
LEMMA CloseSettingsOK ==
    ASSUME SettingsInv, CloseSettings
    PROVE  SettingsInv'
<1>a. /\ settings' = FALSE /\ showing' = NothingLoaded /\ busy' = NoneBusy /\ doubted' = {}
      /\ profileLoad' = NoProfileLoad /\ changes' = {Orphan(c) : c \in changes}
      /\ UNCHANGED <<profile, session, stored>>
    BY DEF CloseSettings
<1>b. changes' \subseteq SentChange \cup ReadChange /\ \A c \in changes' : ~c.mine
    BY <1>a, OrphanIs DEF SettingsInv, SettingsTypeOK
<1>1. SettingsTypeOK'
    BY <1>a, <1>b, SettingsLoadParts DEF SettingsInv, SettingsTypeOK, NothingLoaded, NoneBusy
<1>2. NothingShut'
    BY <1>a, <1>b, SettingsLoadParts DEF SettingsInv, SettingsTypeOK, NothingShut, NothingLoaded, NoneBusy
<1>3. OneChange'
    BY <1>a, <1>b, SettingsLoadParts DEF SettingsInv, SettingsTypeOK, NothingShut, OneChange, NothingLoaded, NoneBusy
<1>4. ShownIsStored'
    BY <1>a, <1>b, SettingsLoadParts DEF SettingsInv, SettingsTypeOK, NothingShut, OneChange, ShownIsStored, TakesBack, OrphansDoubted, FoundIsStored, Vouched
<1>5. TakesBack'
    BY <1>a, <1>b, SettingsLoadParts DEF SettingsInv, SettingsTypeOK, NothingShut, OneChange, ShownIsStored, TakesBack, OrphansDoubted, Vouched
<1>6. OrphansDoubted'
    BY <1>a, <1>b, SettingsLoadParts DEF SettingsInv, SettingsTypeOK, NothingShut, OneChange, OrphansDoubted, NothingLoaded
<1>7. FoundIsStored'
    BY <1>a, <1>b, SettingsLoadParts DEF SettingsInv, SettingsTypeOK, FoundIsStored
<1> QED BY <1>1, <1>2, <1>3, <1>4, <1>5, <1>6, <1>7 DEF SettingsInv

(* SignInAs keeps the invariant.                                           *)
LEMMA SignInAsOK ==
    ASSUME SettingsInv, NEW a \in Accounts, SignInAs(a)
    PROVE  SettingsInv'
<1>a. /\ session = Nobody /\ session' = a /\ stored' = a
      /\ doubted' = (IF settings THEN Settings ELSE {})
      /\ UNCHANGED <<profile, settings, showing, busy, changes>>
    BY DEF SignInAs
<1>b. profileLoad' \in SentLoad \cup {NoProfileLoad} /\ (~settings => profileLoad' = NoProfileLoad)
    BY DEF SignInAs, FetchProfile, SentLoad
<1>c. \A c \in changes : c.of \in Settings
    BY ChangeParts DEF SettingsInv, SettingsTypeOK
<1>1. SettingsTypeOK'
    BY <1>a, <1>b, <1>c, SettingsLoadParts DEF SettingsInv, SettingsTypeOK
<1>2. NothingShut'
    BY <1>a, <1>b, <1>c, SettingsLoadParts DEF SettingsInv, SettingsTypeOK, NothingShut, NothingLoaded, NoneBusy
<1>3. OneChange'
    BY <1>a, <1>b, <1>c, SettingsLoadParts DEF SettingsInv, SettingsTypeOK, NothingShut, OneChange, NothingLoaded, NoneBusy
<1>4. ShownIsStored'
    BY <1>a, <1>b, <1>c, SettingsLoadParts DEF SettingsInv, SettingsTypeOK, NothingShut, OneChange, ShownIsStored, TakesBack, OrphansDoubted, FoundIsStored, Vouched
<1>5. TakesBack'
    BY <1>a, <1>b, <1>c, SettingsLoadParts DEF SettingsInv, SettingsTypeOK, NothingShut, OneChange, ShownIsStored, TakesBack, OrphansDoubted, Vouched
<1>6. OrphansDoubted'
    BY <1>a, <1>b, <1>c, SettingsLoadParts DEF SettingsInv, SettingsTypeOK, NothingShut, OneChange, OrphansDoubted, NothingLoaded
<1>7. FoundIsStored'
    BY <1>a, <1>b, <1>c, SettingsLoadParts DEF SettingsInv, SettingsTypeOK, FoundIsStored
<1> QED BY <1>1, <1>2, <1>3, <1>4, <1>5, <1>6, <1>7 DEF SettingsInv

(* SignOutHere keeps the invariant.                                        *)
LEMMA SignOutHereOK ==
    ASSUME SettingsInv, SignOutHere
    PROVE  SettingsInv'
<1>a. /\ session' = Nobody /\ stored' = Nobody /\ profileLoad' = NoProfileLoad
      /\ UNCHANGED <<profile, settings, showing, busy, changes, doubted>>
    BY DEF SignOutHere
<1>1. SettingsTypeOK'
    BY <1>a, SettingsLoadParts DEF SettingsInv, SettingsTypeOK
<1>2. NothingShut'
    BY <1>a, SettingsLoadParts DEF SettingsInv, SettingsTypeOK, NothingShut, NothingLoaded, NoneBusy
<1>3. OneChange'
    BY <1>a, SettingsLoadParts DEF SettingsInv, SettingsTypeOK, NothingShut, OneChange, NothingLoaded, NoneBusy
<1>4. ShownIsStored'
    BY <1>a, SettingsLoadParts DEF SettingsInv, SettingsTypeOK, NothingShut, OneChange, ShownIsStored, TakesBack, OrphansDoubted, FoundIsStored, Vouched
<1>5. TakesBack'
    BY <1>a, SettingsLoadParts DEF SettingsInv, SettingsTypeOK, NothingShut, OneChange, ShownIsStored, TakesBack, OrphansDoubted, Vouched
<1>6. OrphansDoubted'
    BY <1>a, SettingsLoadParts DEF SettingsInv, SettingsTypeOK, NothingShut, OneChange, OrphansDoubted, NothingLoaded
<1>7. FoundIsStored'
    BY <1>a, SettingsLoadParts DEF SettingsInv, SettingsTypeOK, FoundIsStored
<1> QED BY <1>1, <1>2, <1>3, <1>4, <1>5, <1>6, <1>7 DEF SettingsInv

(* StoredChanges keeps the invariant.                                      *)
LEMMA StoredChangesOK ==
    ASSUME SettingsInv, NEW who \in Accounts \cup {Nobody}, StoredChanges(who)
    PROVE  SettingsInv'
<1>a. stored' = who /\ UNCHANGED <<profile, session, settings, showing, busy, profileLoad, changes, doubted>>
    BY DEF StoredChanges
<1>1. SettingsTypeOK'
    BY <1>a DEF SettingsInv, SettingsTypeOK
<1>2. NothingShut'
    BY <1>a DEF SettingsInv, SettingsTypeOK, NothingShut, NothingLoaded, NoneBusy
<1>3. OneChange'
    BY <1>a DEF SettingsInv, SettingsTypeOK, NothingShut, OneChange, NothingLoaded, NoneBusy
<1>4. ShownIsStored'
    BY <1>a DEF SettingsInv, SettingsTypeOK, NothingShut, OneChange, ShownIsStored, TakesBack, OrphansDoubted, FoundIsStored, Vouched
<1>5. TakesBack'
    BY <1>a DEF SettingsInv, SettingsTypeOK, NothingShut, OneChange, ShownIsStored, TakesBack, OrphansDoubted, Vouched
<1>6. OrphansDoubted'
    BY <1>a DEF SettingsInv, SettingsTypeOK, NothingShut, OneChange, OrphansDoubted, NothingLoaded
<1>7. FoundIsStored'
    BY <1>a DEF SettingsInv, SettingsTypeOK, FoundIsStored
<1> QED BY <1>1, <1>2, <1>3, <1>4, <1>5, <1>6, <1>7 DEF SettingsInv

(* ServeProfile keeps the invariant.                                       *)
LEMMA ServeProfileOK ==
    ASSUME SettingsInv, ServeProfile
    PROVE  SettingsInv'
<1>a. /\ profileLoad \in SentLoad /\ profileLoad.as \in Accounts
      /\ profileLoad' = [on |-> TRUE, as |-> profileLoad.as, phase |-> "answered",
                         late |-> {}, found |-> profile[profileLoad.as]]
      /\ UNCHANGED <<profile, session, stored, settings, showing, busy, changes, doubted>>
  <2>1. profileLoad \in SentLoad
    BY SettingsLoadParts DEF ServeProfile, SettingsInv, SettingsTypeOK
  <2> QED BY <2>1 DEF ServeProfile, SentLoad
<1>b. /\ profileLoad' \in AnsweredLoad /\ profileLoad'.as = profileLoad.as
      /\ profileLoad'.found = profile[profileLoad.as]
    BY <1>a DEF AnsweredLoad, SettingsInv, SettingsTypeOK
<1>c. UNCHANGED <<profile, session, stored, settings, showing, busy, changes, doubted>>
    BY <1>a
<1>d. settings
    BY <1>a, SettingsLoadParts DEF SettingsInv, NothingShut
<1>1. SettingsTypeOK'
    BY <1>b, <1>c, <1>d DEF SettingsInv, SettingsTypeOK
<1>2. NothingShut'
    BY <1>b, <1>c, <1>d DEF SettingsInv, SettingsTypeOK, NothingShut, NothingLoaded, NoneBusy
<1>3. OneChange'
    BY <1>b, <1>c, <1>d DEF SettingsInv, SettingsTypeOK, NothingShut, OneChange, NothingLoaded, NoneBusy
<1>4. ShownIsStored'
    BY <1>b, <1>c, <1>d DEF SettingsInv, SettingsTypeOK, NothingShut, OneChange, ShownIsStored, TakesBack, OrphansDoubted, FoundIsStored, Vouched
<1>5. TakesBack'
    BY <1>b, <1>c, <1>d DEF SettingsInv, SettingsTypeOK, NothingShut, OneChange, ShownIsStored, TakesBack, OrphansDoubted, Vouched
<1>6. OrphansDoubted'
    BY <1>b, <1>c, <1>d DEF SettingsInv, SettingsTypeOK, NothingShut, OneChange, OrphansDoubted, NothingLoaded
<1>7. FoundIsStored'
    BY <1>b, <1>c, <1>d DEF SettingsInv, SettingsTypeOK, FoundIsStored
<1> QED BY <1>1, <1>2, <1>3, <1>4, <1>5, <1>6, <1>7 DEF SettingsInv

(* ReceiveProfile keeps the invariant.                                     *)
LEMMA ReceiveProfileOK ==
    ASSUME SettingsInv, ReceiveProfile
    PROVE  SettingsInv'
<1>a. /\ profileLoad \in AnsweredLoad
      /\ showing' = profileLoad.found
      /\ doubted' = {s \in Settings :
                       \/ s \in profileLoad.late \/ profileLoad.as # session
                       \/ \E c \in changes : c.of = s /\ c.phase # "written"}
      /\ profileLoad' = NoProfileLoad
      /\ UNCHANGED <<profile, session, stored, settings, busy, changes>>
    BY SettingsLoadParts DEF ReceiveProfile, SettingsInv, SettingsTypeOK
<1>b. settings /\ profileLoad.as \in Accounts /\ showing' \in [Settings -> Values]
    BY <1>a, SettingsLoadParts DEF SettingsInv, NothingShut, AnsweredLoad
<1>c. \A c \in changes : c.of \in Settings
    BY ChangeParts DEF SettingsInv, SettingsTypeOK
<1>d. \A s \in Settings : showing'[s] # Unloaded
    BY <1>b, SettingsAssumption
<1>1. SettingsTypeOK'
    BY <1>a, <1>b, <1>c, <1>d, SettingsLoadParts DEF SettingsInv, SettingsTypeOK
<1>2. NothingShut'
    BY <1>a, <1>b, <1>c, <1>d, SettingsLoadParts DEF SettingsInv, SettingsTypeOK, NothingShut, NothingLoaded, NoneBusy
<1>3. OneChange'
    BY <1>a, <1>b, <1>c, <1>d, SettingsLoadParts DEF SettingsInv, SettingsTypeOK, NothingShut, OneChange, NothingLoaded, NoneBusy
<1>4. ShownIsStored'
    BY <1>a, <1>b, <1>c, <1>d, SettingsLoadParts DEF SettingsInv, SettingsTypeOK, NothingShut, OneChange, ShownIsStored, TakesBack, OrphansDoubted, FoundIsStored, Vouched
<1>5. TakesBack'
    BY <1>a, <1>b, <1>c, <1>d, SettingsLoadParts DEF SettingsInv, SettingsTypeOK, NothingShut, OneChange, ShownIsStored, TakesBack, OrphansDoubted, Vouched
<1>6. OrphansDoubted'
    BY <1>a, <1>b, <1>c, <1>d, SettingsLoadParts DEF SettingsInv, SettingsTypeOK, NothingShut, OneChange, OrphansDoubted, NothingLoaded
<1>7. FoundIsStored'
    BY <1>a, <1>b, <1>c, <1>d, SettingsLoadParts DEF SettingsInv, SettingsTypeOK, FoundIsStored
<1> QED BY <1>1, <1>2, <1>3, <1>4, <1>5, <1>6, <1>7 DEF SettingsInv

(* ProfileFails keeps the invariant.                                       *)
LEMMA ProfileFailsOK ==
    ASSUME SettingsInv, ProfileFails
    PROVE  SettingsInv'
<1>a. profileLoad' = NoProfileLoad /\ UNCHANGED <<profile, session, stored, settings, showing, busy, changes, doubted>>
    BY DEF ProfileFails
<1>1. SettingsTypeOK'
    BY <1>a, SettingsLoadParts DEF SettingsInv, SettingsTypeOK
<1>2. NothingShut'
    BY <1>a, SettingsLoadParts DEF SettingsInv, SettingsTypeOK, NothingShut, NothingLoaded, NoneBusy
<1>3. OneChange'
    BY <1>a, SettingsLoadParts DEF SettingsInv, SettingsTypeOK, NothingShut, OneChange, NothingLoaded, NoneBusy
<1>4. ShownIsStored'
    BY <1>a, SettingsLoadParts DEF SettingsInv, SettingsTypeOK, NothingShut, OneChange, ShownIsStored, TakesBack, OrphansDoubted, FoundIsStored, Vouched
<1>5. TakesBack'
    BY <1>a, SettingsLoadParts DEF SettingsInv, SettingsTypeOK, NothingShut, OneChange, ShownIsStored, TakesBack, OrphansDoubted, Vouched
<1>6. OrphansDoubted'
    BY <1>a, SettingsLoadParts DEF SettingsInv, SettingsTypeOK, NothingShut, OneChange, OrphansDoubted, NothingLoaded
<1>7. FoundIsStored'
    BY <1>a, SettingsLoadParts DEF SettingsInv, SettingsTypeOK, FoundIsStored
<1> QED BY <1>1, <1>2, <1>3, <1>4, <1>5, <1>6, <1>7 DEF SettingsInv

(* Change keeps the invariant.                                             *)
LEMMA ChangeOK ==
    ASSUME SettingsInv, NEW s \in Settings, NEW value \in Values, Change(s, value)
    PROVE  SettingsInv'
<1> DEFINE u == [of |-> s, to |-> value, as |-> stored, previous |-> showing[s],
                 mine |-> TRUE, phase |-> "sent"]
<1>a. /\ settings /\ session # Nobody /\ showing[s] # Unloaded /\ ~busy[s]
      /\ showing' = [showing EXCEPT ![s] = value] /\ busy' = [busy EXCEPT ![s] = TRUE]
      /\ changes' = changes \cup {u}
      /\ doubted' = (IF stored = session THEN doubted ELSE doubted \cup {s})
      /\ UNCHANGED <<profile, session, stored, settings, profileLoad>>
    BY DEF Change, Enabled, Bearer
<1>b. /\ u \in SentChange /\ u.of = s /\ u.to = value /\ u.as = stored
      /\ u.previous = showing[s] /\ u.mine /\ u.phase = "sent"
    BY DEF SentChange, SettingsInv, SettingsTypeOK
<1>c. \A c \in changes : c.of \in Settings /\ (c.mine => c.of # s)
    BY <1>a, ChangeParts DEF SettingsInv, SettingsTypeOK, OneChange
<1>d. /\ showing'[s] = value /\ value # Unloaded /\ busy'[s]
      /\ \A r \in Settings \ {s} : showing'[r] = showing[r] /\ busy'[r] = busy[r]
    BY <1>a, SettingsAssumption DEF SettingsInv, SettingsTypeOK
<1> HIDE DEF u
<1>1. SettingsTypeOK'
    BY <1>a, <1>b, <1>c, <1>d DEF SettingsInv, SettingsTypeOK
<1>2. NothingShut'
    BY <1>a, <1>b, <1>c, <1>d DEF SettingsInv, SettingsTypeOK, NothingShut, NothingLoaded, NoneBusy
<1>3. OneChange'
    BY <1>a, <1>b, <1>c, <1>d DEF SettingsInv, SettingsTypeOK, NothingShut, OneChange, NothingLoaded, NoneBusy
<1>4. ShownIsStored'
    BY <1>a, <1>b, <1>c, <1>d DEF SettingsInv, SettingsTypeOK, NothingShut, OneChange, ShownIsStored, TakesBack, OrphansDoubted, FoundIsStored, Vouched
<1>5. TakesBack'
    BY <1>a, <1>b, <1>c, <1>d DEF SettingsInv, SettingsTypeOK, NothingShut, OneChange, ShownIsStored, TakesBack, OrphansDoubted, Vouched
<1>6. OrphansDoubted'
    BY <1>a, <1>b, <1>c, <1>d DEF SettingsInv, SettingsTypeOK, NothingShut, OneChange, OrphansDoubted, NothingLoaded
<1>7. FoundIsStored'
    BY <1>a, <1>b, <1>c, <1>d DEF SettingsInv, SettingsTypeOK, FoundIsStored
<1> QED BY <1>1, <1>2, <1>3, <1>4, <1>5, <1>6, <1>7 DEF SettingsInv

(* ReadRow keeps the invariant.                                            *)
LEMMA ReadRowOK ==
    ASSUME SettingsInv, NEW c \in changes, ReadRow(c)
    PROVE  SettingsInv'
<1> DEFINE u == [of |-> c.of, to |-> c.to, as |-> c.as, previous |-> c.previous,
                 mine |-> c.mine, phase |-> "read", row |-> profile[c.as]]
<1>a. c.phase = "sent" /\ changes' = (changes \ {c}) \cup {u} /\ UNCHANGED <<profile, session, stored, settings, showing, busy, profileLoad, doubted>>
    BY DEF ReadRow
<1>b. c \in SentChange /\ c.as \in Accounts
    BY <1>a, ChangeParts DEF ReadRow, SettingsInv, SettingsTypeOK
<1>c. Further(c, u, "read")
    BY <1>b, ChangeParts DEF Further, ReadChange, SettingsInv, SettingsTypeOK
<1> HIDE DEF u
<1>1. SettingsTypeOK'
    BY <1>a, <1>b, <1>c DEF SettingsInv, SettingsTypeOK, Further
<1>2. NothingShut'
    BY <1>a, <1>b, <1>c DEF SettingsInv, SettingsTypeOK, NothingShut, NothingLoaded, NoneBusy, Further
<1>3. OneChange'
    BY <1>a, <1>b, <1>c DEF SettingsInv, SettingsTypeOK, NothingShut, OneChange, NothingLoaded, NoneBusy, Further
<1>4. ShownIsStored'
    BY <1>a, <1>b, <1>c DEF SettingsInv, SettingsTypeOK, NothingShut, OneChange, ShownIsStored, TakesBack, OrphansDoubted, FoundIsStored, Vouched, Further
<1>5. TakesBack'
    BY <1>a, <1>b, <1>c DEF SettingsInv, SettingsTypeOK, NothingShut, OneChange, ShownIsStored, TakesBack, OrphansDoubted, Vouched, Further
<1>6. OrphansDoubted'
    BY <1>a, <1>b, <1>c DEF SettingsInv, SettingsTypeOK, NothingShut, OneChange, OrphansDoubted, NothingLoaded, Further
<1>7. FoundIsStored'
    BY <1>a, <1>b, <1>c DEF SettingsInv, SettingsTypeOK, FoundIsStored
<1> QED BY <1>1, <1>2, <1>3, <1>4, <1>5, <1>6, <1>7 DEF SettingsInv

(* WriteRow keeps the invariant.                                           *)
LEMMA WriteRowOK ==
    ASSUME SettingsInv, NEW c \in changes, WriteRow(c)
    PROVE  SettingsInv'
<1> DEFINE u == [c EXCEPT !.phase = "written"]
           now == [c.row EXCEPT ![c.of] = c.to]
<1>a. /\ c.phase = "read" /\ profile' = [profile EXCEPT ![c.as] = now]
      /\ changes' = (changes \ {c}) \cup {u}
      /\ doubted' = doubted \cup {s \in Settings \ {c.of} : profile[c.as][s] # c.row[s]}
      /\ UNCHANGED <<session, stored, settings, showing, busy>>
    BY DEF WriteRow
<1>b. c \in ReadChange /\ c.as \in Accounts /\ c.of \in Settings /\ c.to \in Values /\ c.mine \in BOOLEAN
      /\ c.row \in [Settings -> Values]
    BY <1>a, ChangeParts DEF SettingsInv, SettingsTypeOK
<1>c. Further(c, u, "written")
    BY <1>b, WrittenIs
<1>d. /\ now \in [Settings -> Values] /\ now[c.of] = c.to
      /\ \A s \in Settings \ {c.of} : now[s] = c.row[s]
    BY <1>b
<1>e. /\ profile' \in [Accounts -> [Settings -> Values]]
      /\ profile'[c.as] = now /\ \A a \in Accounts \ {c.as} : profile'[a] = profile[a]
    BY <1>a, <1>b, <1>d DEF SettingsInv, SettingsTypeOK
<1>f. profile'[c.as][c.of] = c.to
    BY <1>d, <1>e
<1>g. \A s \in Settings \ doubted', a \in Accounts :
          a # c.as \/ s # c.of => profile'[a][s] = profile[a][s]
    BY <1>a, <1>d, <1>e
<1>h. /\ profileLoad \notin AnsweredLoad => profileLoad' \in SentLoad \cup {NoProfileLoad}
      /\ profileLoad \in AnsweredLoad => profileLoad' \in AnsweredLoad
      /\ profileLoad' \in AnsweredLoad => profileLoad \in AnsweredLoad
      /\ profileLoad = NoProfileLoad => profileLoad' = NoProfileLoad
      /\ profileLoad \in AnsweredLoad =>
            /\ profileLoad'.as = profileLoad.as /\ profileLoad'.found = profileLoad.found
            /\ profileLoad.late \subseteq profileLoad'.late
            /\ \A s \in Settings \ profileLoad'.late :
                  profile'[profileLoad.as][s] = profile[profileLoad.as][s]
  <2> DEFINE L == {s \in Settings : profile'[c.as][s] # profile[c.as][s]}
  <2>1. profileLoad' = IF profileLoad.on /\ profileLoad.as = c.as
                       THEN [profileLoad EXCEPT !.late = @ \cup L] ELSE profileLoad
    BY DEF WriteRow
  <2>2. L \subseteq Settings
    OBVIOUS
  <2>3. profileLoad \in SentLoad \cup AnsweredLoad \cup {NoProfileLoad}
    BY DEF SettingsInv, SettingsTypeOK
  <2>4. CASE profileLoad = NoProfileLoad
    BY <2>1, <2>4, SettingsLoadParts
  <2>5. CASE profileLoad \in SentLoad
    <3> HIDE DEF L
    <3>1. profileLoad' \in SentLoad
        BY <2>1, <2>2, <2>5 DEF SentLoad
    <3> QED BY <2>5, <3>1, SettingsLoadParts
  <2>6. CASE profileLoad \in AnsweredLoad
    <3>1. CASE profileLoad.as = c.as
      <4> HIDE DEF L
      <4>1. profileLoad' = [profileLoad EXCEPT !.late = @ \cup L]
        BY <2>1, <2>6, <3>1, SettingsLoadParts
      <4>2. /\ profileLoad' \in AnsweredLoad
            /\ profileLoad'.as = profileLoad.as /\ profileLoad'.found = profileLoad.found
            /\ profileLoad'.late = profileLoad.late \cup L
        BY <2>2, <2>6, <4>1 DEF AnsweredLoad
      <4> QED BY <2>6, <3>1, <4>2, SettingsLoadParts DEF L
    <3>2. CASE profileLoad.as # c.as
      <4>1. profileLoad' = profileLoad /\ profileLoad.as \in Accounts
        BY <2>1, <2>6, <3>2 DEF AnsweredLoad
      <4> QED BY <1>e, <2>6, <3>2, <4>1, SettingsLoadParts
    <3> QED BY <3>1, <3>2
  <2> QED BY <2>3, <2>4, <2>5, <2>6
<1> HIDE DEF u, now
<1>1. SettingsTypeOK'
    BY <1>a, <1>b, <1>c, <1>e, <1>h DEF SettingsInv, SettingsTypeOK, Further
<1>2. NothingShut'
    BY <1>a, <1>b, <1>c, <1>e, <1>h DEF SettingsInv, SettingsTypeOK, NothingShut, NothingLoaded, NoneBusy, Further
<1>3. OneChange'
    BY <1>a, <1>b, <1>c, <1>e, <1>h DEF SettingsInv, SettingsTypeOK, NothingShut, OneChange, NothingLoaded, NoneBusy, Further
<1>4. ShownIsStored'
    BY <1>a, <1>b, <1>c, <1>e, <1>h, <1>f, <1>g DEF SettingsInv, SettingsTypeOK, NothingShut, OneChange, ShownIsStored, TakesBack, OrphansDoubted, FoundIsStored, Vouched, Further
<1>5. TakesBack'
    BY <1>a, <1>b, <1>c, <1>e, <1>h, <1>f, <1>g, ChangeParts DEF SettingsInv, SettingsTypeOK, NothingShut, OneChange, ShownIsStored, TakesBack, OrphansDoubted, Vouched, Further
<1>6. OrphansDoubted'
    BY <1>a, <1>b, <1>c, <1>e, <1>h DEF SettingsInv, SettingsTypeOK, NothingShut, OneChange, OrphansDoubted, NothingLoaded, Further
<1>7. FoundIsStored'
    BY <1>a, <1>b, <1>c, <1>e, <1>h DEF SettingsInv, SettingsTypeOK, FoundIsStored
<1> QED BY <1>1, <1>2, <1>3, <1>4, <1>5, <1>6, <1>7 DEF SettingsInv

(* ChangeDone keeps the invariant.                                         *)
LEMMA ChangeDoneOK ==
    ASSUME SettingsInv, NEW c \in changes, ChangeDone(c)
    PROVE  SettingsInv'
<1>a. /\ c.phase = "written" /\ changes' = changes \ {c}
      /\ busy' = (IF c.mine THEN [busy EXCEPT ![c.of] = FALSE] ELSE busy)
      /\ UNCHANGED <<profile, session, stored, settings, showing, profileLoad, doubted>>
    BY DEF ChangeDone
<1>b. \A d \in changes : d.of \in Settings /\ d.mine \in BOOLEAN
    BY ChangeParts DEF SettingsInv, SettingsTypeOK
<1>1. SettingsTypeOK'
    BY <1>a, <1>b DEF SettingsInv, SettingsTypeOK
<1>2. NothingShut'
    BY <1>a, <1>b DEF SettingsInv, SettingsTypeOK, NothingShut, NothingLoaded, NoneBusy
<1>3. OneChange'
    BY <1>a, <1>b DEF SettingsInv, SettingsTypeOK, NothingShut, OneChange, NothingLoaded, NoneBusy
<1>4. ShownIsStored'
    BY <1>a, <1>b DEF SettingsInv, SettingsTypeOK, NothingShut, OneChange, ShownIsStored, TakesBack, OrphansDoubted, FoundIsStored, Vouched
<1>5. TakesBack'
    BY <1>a, <1>b DEF SettingsInv, SettingsTypeOK, NothingShut, OneChange, ShownIsStored, TakesBack, OrphansDoubted, Vouched
<1>6. OrphansDoubted'
    BY <1>a, <1>b DEF SettingsInv, SettingsTypeOK, NothingShut, OneChange, OrphansDoubted, NothingLoaded
<1>7. FoundIsStored'
    BY <1>a, <1>b DEF SettingsInv, SettingsTypeOK, FoundIsStored
<1> QED BY <1>1, <1>2, <1>3, <1>4, <1>5, <1>6, <1>7 DEF SettingsInv

(* ChangeRefused keeps the invariant.                                      *)
LEMMA ChangeRefusedOK ==
    ASSUME SettingsInv, NEW c \in changes, ChangeRefused(c)
    PROVE  SettingsInv'
<1>a. /\ c.phase # "written" /\ changes' = changes \ {c}
      /\ IF c.mine THEN /\ showing' = [showing EXCEPT ![c.of] = c.previous]
                        /\ busy' = [busy EXCEPT ![c.of] = FALSE]
                   ELSE UNCHANGED <<showing, busy>>
      /\ UNCHANGED <<profile, session, stored, settings, profileLoad, doubted>>
    BY DEF ChangeRefused, TakeBack
<1>b. \A d \in changes : d.of \in Settings /\ d.mine \in BOOLEAN /\ d.previous \in Values \cup {Unloaded}
    BY ChangeParts DEF SettingsInv, SettingsTypeOK
<1>1. SettingsTypeOK'
    BY <1>a, <1>b DEF SettingsInv, SettingsTypeOK
<1>2. NothingShut'
    BY <1>a, <1>b DEF SettingsInv, SettingsTypeOK, NothingShut, NothingLoaded, NoneBusy, OneChange
<1>3. OneChange'
    BY <1>a, <1>b DEF SettingsInv, SettingsTypeOK, NothingShut, OneChange, NothingLoaded, NoneBusy
<1>4. ShownIsStored'
    BY <1>a, <1>b DEF SettingsInv, SettingsTypeOK, NothingShut, OneChange, ShownIsStored, TakesBack, OrphansDoubted, FoundIsStored, Vouched
<1>5. TakesBack'
    BY <1>a, <1>b DEF SettingsInv, SettingsTypeOK, NothingShut, OneChange, ShownIsStored, TakesBack, OrphansDoubted, Vouched
<1>6. OrphansDoubted'
    BY <1>a, <1>b DEF SettingsInv, SettingsTypeOK, NothingShut, OneChange, OrphansDoubted, NothingLoaded
<1>7. FoundIsStored'
    BY <1>a, <1>b DEF SettingsInv, SettingsTypeOK, FoundIsStored
<1> QED BY <1>1, <1>2, <1>3, <1>4, <1>5, <1>6, <1>7 DEF SettingsInv

(* ChangeLost keeps the invariant.                                         *)
LEMMA ChangeLostOK ==
    ASSUME SettingsInv, NEW c \in changes, ChangeLost(c)
    PROVE  SettingsInv'
<1>a. /\ c.mine /\ changes' = (changes \ {c}) \cup {Orphan(c)}
      /\ showing' = [showing EXCEPT ![c.of] = c.previous]
      /\ busy' = [busy EXCEPT ![c.of] = FALSE]
      /\ doubted' = doubted \cup {c.of}
      /\ UNCHANGED <<profile, session, stored, settings, profileLoad>>
    BY DEF ChangeLost, TakeBack
<1>b. \A d \in changes : d.of \in Settings /\ d.mine \in BOOLEAN /\ d.previous \in Values \cup {Unloaded}
    BY ChangeParts DEF SettingsInv, SettingsTypeOK
<1>c. /\ Orphan(c) \in SentChange \cup ReadChange
      /\ Orphan(c).of = c.of /\ Orphan(c).phase = c.phase /\ ~Orphan(c).mine
    BY OrphanIs DEF SettingsInv, SettingsTypeOK
<1>1. SettingsTypeOK'
    BY <1>a, <1>b, <1>c DEF SettingsInv, SettingsTypeOK
<1>2. NothingShut'
    BY <1>a, <1>b, <1>c DEF SettingsInv, SettingsTypeOK, NothingShut, NothingLoaded, NoneBusy, OneChange
<1>3. OneChange'
    BY <1>a, <1>b, <1>c DEF SettingsInv, SettingsTypeOK, NothingShut, OneChange, NothingLoaded, NoneBusy
<1>4. ShownIsStored'
    BY <1>a, <1>b, <1>c DEF SettingsInv, SettingsTypeOK, NothingShut, OneChange, ShownIsStored, TakesBack, OrphansDoubted, FoundIsStored, Vouched
<1>5. TakesBack'
    BY <1>a, <1>b, <1>c DEF SettingsInv, SettingsTypeOK, NothingShut, OneChange, ShownIsStored, TakesBack, OrphansDoubted, Vouched
<1>6. OrphansDoubted'
    BY <1>a, <1>b, <1>c DEF SettingsInv, SettingsTypeOK, NothingShut, OneChange, OrphansDoubted, NothingLoaded
<1>7. FoundIsStored'
    BY <1>a, <1>b, <1>c DEF SettingsInv, SettingsTypeOK, FoundIsStored
<1> QED BY <1>1, <1>2, <1>3, <1>4, <1>5, <1>6, <1>7 DEF SettingsInv

(* Every step keeps the invariant, or changes nothing.                     *)
LEMMA SettingsStep == SettingsInv /\ [SettingsNext]_settingsVars => SettingsInv'
<1> SUFFICES ASSUME SettingsInv, [SettingsNext]_settingsVars PROVE SettingsInv'
    OBVIOUS
<1>1. CASE UNCHANGED settingsVars
  <2>a. UNCHANGED <<profile, session, stored, settings, showing, busy, profileLoad, changes, doubted>>
    BY <1>1 DEF settingsVars
  <2>1. SettingsTypeOK'
      BY <2>a DEF SettingsInv, SettingsTypeOK
  <2>2. NothingShut'
      BY <2>a DEF SettingsInv, SettingsTypeOK, NothingShut, NothingLoaded, NoneBusy
  <2>3. OneChange'
      BY <2>a DEF SettingsInv, SettingsTypeOK, NothingShut, OneChange, NothingLoaded, NoneBusy
  <2>4. ShownIsStored'
      BY <2>a DEF SettingsInv, SettingsTypeOK, NothingShut, OneChange, ShownIsStored, TakesBack, OrphansDoubted, FoundIsStored, Vouched
  <2>5. TakesBack'
      BY <2>a DEF SettingsInv, SettingsTypeOK, NothingShut, OneChange, ShownIsStored, TakesBack, OrphansDoubted, Vouched
  <2>6. OrphansDoubted'
      BY <2>a DEF SettingsInv, SettingsTypeOK, NothingShut, OneChange, OrphansDoubted, NothingLoaded
  <2>7. FoundIsStored'
      BY <2>a DEF SettingsInv, SettingsTypeOK, FoundIsStored
  <2> QED BY <2>1, <2>2, <2>3, <2>4, <2>5, <2>6, <2>7 DEF SettingsInv
<1>2. CASE OpenSettings \/ CloseSettings \/ SignOutHere
    BY <1>2, OpenSettingsOK, CloseSettingsOK, SignOutHereOK
<1>3. ASSUME NEW a \in Accounts, SignInAs(a) PROVE SettingsInv'
    BY <1>3, SignInAsOK
<1>4. ASSUME NEW who \in Accounts \cup {Nobody}, StoredChanges(who) PROVE SettingsInv'
    BY <1>4, StoredChangesOK
<1>5. CASE ServeProfile \/ ReceiveProfile \/ ProfileFails
    BY <1>5, ServeProfileOK, ReceiveProfileOK, ProfileFailsOK
<1>6. ASSUME NEW s \in Settings, NEW value \in Values, Change(s, value) PROVE SettingsInv'
    BY <1>6, ChangeOK
<1>7. ASSUME NEW c \in changes, ReadRow(c) \/ WriteRow(c) \/ ChangeDone(c)
      PROVE  SettingsInv'
    BY <1>7, ReadRowOK, WriteRowOK, ChangeDoneOK
<1>8. ASSUME NEW c \in changes, ChangeRefused(c) \/ ChangeLost(c) PROVE SettingsInv'
    BY <1>8, ChangeRefusedOK, ChangeLostOK
<1> QED BY <1>1, <1>2, <1>3, <1>4, <1>5, <1>6, <1>7, <1>8 DEF SettingsNext

(* A setting that is shown is the account's and a control is disabled no   *)
(* longer than its change takes, for any number of tabs' sessions, loads   *)
(* and changes: except what the property names as doubtful.                *)
THEOREM SettingsTrueAlways == SettingsSpec => []SettingsTrue
<1>1. SettingsInv => SettingsTrue
  <2> SUFFICES ASSUME SettingsInv, NEW s \in Settings
               PROVE  /\ settings => (busy[s] <=> Pending(s) # {})
                      /\ \/ ~settings \/ session = Nobody \/ showing[s] = Unloaded
                         \/ s \in doubted \/ Pending(s) # {}
                         \/ showing[s] = profile[session][s]
    BY DEF SettingsTrue
  <2>1. busy[s] <=> Pending(s) # {}
    BY DEF SettingsInv, OneChange, Pending
  <2>2. Pending(s) = {} /\ Vouched(s) => showing[s] = profile[session][s]
    BY DEF SettingsInv, ShownIsStored, Pending
  <2> QED BY <2>1, <2>2 DEF Vouched
<1> QED BY SettingsInitOK, SettingsStep, <1>1, PTL DEF SettingsSpec
-----------------------------------------------------------------------------
(* The list of one's own zones.                                            *)

Kinds == {"create", "update", "delete"}
Writes ==
    [kind : Kinds, of : Zones, to : Versions \cup {Gone}, mine : BOOLEAN,
     phase : {"sent", "done"}, passed : BOOLEAN]

(* The three states of a load.                                             *)
Free == [phase |-> "free"]
Sent == [phase |-> "sent"]
Answers ==
    [phase : {"answered"}, found : [Zones -> Versions \cup {Absent, Gone}], late : BOOLEAN]

(* What the variables of the list can be.                                  *)
ListTypeOK ==
    /\ server \in [Zones -> Versions \cup {Absent, Gone}]
    /\ list = Null \/ list \in [Zones -> Seq(Versions)]
    /\ loads \in [1..MaxLoads -> {Free, Sent} \cup Answers]
    /\ writes \subseteq Writes
    /\ \A w \in writes : w.kind = "delete" <=> w.to = Gone
    /\ claim \in {NoClaim} \cup [phase : {"sent", "done"}, reload : BOOLEAN]
    /\ wrong \in BOOLEAN

(* Of a zone one write of a kind is on its way; one that has been carried  *)
(* out and not been passed by another is what the server has.              *)
WritesInv ==
    /\ \A v, w \in writes : v.of = w.of /\ v.kind = w.kind => v = w
    /\ \A w \in writes : w.phase = "done" =>
          server[w.of] # Absent /\ (~w.passed => server[w.of] = w.to)

(* An answer that is not late is what the server has.                      *)
AnswersInv ==
    \A l \in 1..MaxLoads :
        loads[l].phase = "answered" /\ ~loads[l].late => loads[l].found = server

(* Nothing is known to make the list wrong, or will replace it.            *)
Steady == list # Null /\ OnWay = {} /\ ~wrong /\ ~(claim.phase = "done" /\ claim.reload)

(* The list's owner awaits the answer to a write of this kind.             *)
Awaited(z, kind, phases) ==
    \E w \in writes : w.of = z /\ w.kind = kind /\ w.mine /\ w.phase \in phases

(* The list has the zone as it is stored; or as it was before an update    *)
(* whose answer is awaited; or does not have it before a creation's answer *)
(* or because of a deletion.                                               *)
Followed(z) ==
    \/ list[z] = Listed(server)[z]
    \/ /\ Stored(z) /\ \E x \in Versions : list[z] = <<x>>
       /\ Awaited(z, "update", {"done"})
    \/ /\ Stored(z) /\ list[z] = <<>>
       /\ Awaited(z, "create", {"done"}) \/ Awaited(z, "delete", {"sent", "done"})

(* As long as nothing is known to be wrong, the list follows every zone.   *)
AllFollowed == Steady => \A z \in Zones : Followed(z)

(* The inductive invariant of the list.                                    *)
ListInv == ListTypeOK /\ WritesInv /\ AnswersInv /\ AllFollowed

(* What the records of loads and of writes are, and become.                *)
LEMMA LoadIs ==
    ASSUME NEW p \in {Free, Sent} \cup Answers
    PROVE  /\ p.phase = "free" <=> p = Free
           /\ p.phase = "sent" <=> p = Sent
           /\ p.phase = "answered" <=> p \in Answers
BY DEF Free, Sent, Answers

(* An answer that is late is still an answer.                              *)
LEMMA LateIs ==
    ASSUME NEW p \in Answers
    PROVE  /\ [p EXCEPT !.late = TRUE] \in Answers
           /\ [p EXCEPT !.late = TRUE].late
BY DEF Answers

(* u is the write w, further on its way.                                   *)
SameWrite(w, u) == u \in Writes /\ u.kind = w.kind /\ u.of = w.of /\ u.to = w.to

(* What becomes of a write: carried out, no longer awaited, passed by      *)
(* another.                                                                *)
DoneWrite(w) == [w EXCEPT !.phase = "done"]
LostWrite(w) == [w EXCEPT !.mine = FALSE]
PassedWrite(v, w) == [v EXCEPT !.passed = @ \/ (v.of = w.of /\ v.phase = "done")]

(* A write that is carried out changes only in that.                       *)
LEMMA DoneWriteIs ==
    ASSUME NEW w \in Writes
    PROVE  /\ SameWrite(w, DoneWrite(w)) /\ DoneWrite(w).phase = "done"
           /\ DoneWrite(w).mine = w.mine /\ DoneWrite(w).passed = w.passed
BY DEF Writes, SameWrite, DoneWrite

(* A write that nobody awaits any more changes only in that.               *)
LEMMA LostWriteIs ==
    ASSUME NEW w \in Writes
    PROVE  /\ SameWrite(w, LostWrite(w)) /\ LostWrite(w).phase = w.phase
           /\ LostWrite(w).mine = FALSE /\ LostWrite(w).passed = w.passed
BY DEF Writes, SameWrite, LostWrite

(* A write that another passes changes only in that.                       *)
LEMMA PassedWriteIs ==
    ASSUME NEW v \in Writes, NEW w \in Writes
    PROVE  /\ SameWrite(v, PassedWrite(v, w)) /\ PassedWrite(v, w).phase = v.phase
           /\ PassedWrite(v, w).mine = v.mine
           /\ PassedWrite(v, w).passed <=> v.passed \/ (v.of = w.of /\ v.phase = "done")
<1>1. v.passed \in BOOLEAN
    BY DEF Writes
<1>2. ASSUME NEW b \in BOOLEAN
      PROVE  /\ SameWrite(v, [v EXCEPT !.passed = b]) /\ [v EXCEPT !.passed = b].phase = v.phase
             /\ [v EXCEPT !.passed = b].mine = v.mine /\ [v EXCEPT !.passed = b].passed = b
    BY DEF Writes, SameWrite
<1> DEFINE b == v.passed \/ (v.of = w.of /\ v.phase = "done")
<1>3. b \in BOOLEAN
    BY <1>1
<1>4. PassedWrite(v, w) = [v EXCEPT !.passed = b]
    BY DEF PassedWrite
<1>5. /\ SameWrite(v, PassedWrite(v, w)) /\ PassedWrite(v, w).phase = v.phase
      /\ PassedWrite(v, w).mine = v.mine /\ PassedWrite(v, w).passed = b
  <2> HIDE DEF b
  <2> QED BY <1>2, <1>3, <1>4
<1> QED BY <1>5

(* The parts of a write.                                                   *)
LEMMA WriteParts ==
    ASSUME NEW w \in Writes
    PROVE  /\ w.kind \in {"create", "update", "delete"} /\ w.of \in Zones
           /\ w.to \in Versions \cup {Gone} /\ w.mine \in BOOLEAN
           /\ w.phase \in {"sent", "done"} /\ w.passed \in BOOLEAN
BY DEF Writes, Kinds

(* A load that is sent replaces no answer, and there is one on its way.    *)
LEMMA LoadStarts ==
    ASSUME ListTypeOK, LoadZones
    PROVE  /\ loads' \in [1..MaxLoads -> {Free, Sent} \cup Answers]
           /\ OnWay' # {}
           /\ \A l \in 1..MaxLoads : loads'[l].phase = "answered" => loads'[l] = loads[l]
<1>1. PICK l \in DOMAIN loads \ OnWay : loads' = [loads EXCEPT ![l] = Sent]
    BY DEF LoadZones, Sent
<1>2. DOMAIN loads = 1..MaxLoads /\ l \in 1..MaxLoads
    BY <1>1 DEF ListTypeOK
<1>3. loads' \in [1..MaxLoads -> {Free, Sent} \cup Answers]
    BY <1>1, <1>2 DEF ListTypeOK
<1>4. loads'[l] = Sent /\ \A k \in 1..MaxLoads : k # l => loads'[k] = loads[k]
    BY <1>1, <1>2 DEF ListTypeOK
<1>5. Sent.phase = "sent"
    BY DEF Sent
<1>6. l \in OnWay'
    BY <1>2, <1>3, <1>4, <1>5 DEF OnWay
<1> QED BY <1>3, <1>4, <1>5, <1>6

(* Storing the zones makes late the answers that differ.                   *)
LEMMA StoreIs ==
    ASSUME ListTypeOK, AnswersInv, NEW zones, Store(zones)
    PROVE  /\ server' = zones /\ OnWay' = OnWay /\ AnswersInv'
           /\ loads' \in [1..MaxLoads -> {Free, Sent} \cup Answers]
<1> DEFINE Now(l) == IF loads[l].phase = "answered" /\ zones # server
                     THEN [loads[l] EXCEPT !.late = TRUE] ELSE loads[l]
<1>1. server' = zones /\ DOMAIN loads = 1..MaxLoads
    BY DEF Store, ListTypeOK
<1>2. loads' = [l \in 1..MaxLoads |-> Now(l)]
    BY <1>1 DEF Store
<1>3. ASSUME NEW l \in 1..MaxLoads
      PROVE  /\ Now(l) \in {Free, Sent} \cup Answers /\ Now(l).phase = loads[l].phase
             /\ Now(l).phase = "answered" /\ ~Now(l).late
                  => Now(l) = loads[l] /\ zones = server
  <2>0. loads[l] \in {Free, Sent} \cup Answers
    BY DEF ListTypeOK
  <2>1. CASE loads[l].phase = "answered" /\ zones # server
    <3>1. loads[l] \in Answers
      BY <2>0, <2>1, LoadIs
    <3>2. [loads[l] EXCEPT !.late = TRUE] \in Answers /\ [loads[l] EXCEPT !.late = TRUE].late
      BY <3>1, LateIs
    <3>3. Now(l) = [loads[l] EXCEPT !.late = TRUE]
      BY <2>1
    <3>4. Now(l) \in Answers /\ Now(l).late
      BY <3>2, <3>3
    <3>5. Now(l).phase = "answered"
      BY <3>4, LoadIs
    <3> QED BY <2>1, <3>4, <3>5
  <2>2. CASE ~(loads[l].phase = "answered" /\ zones # server)
    <3>1. Now(l) = loads[l]
      BY <2>2
    <3> QED BY <2>0, <2>2, <3>1
  <2> QED BY <2>1, <2>2
<1> HIDE DEF Now
<1>4. \A l \in 1..MaxLoads : loads'[l] = Now(l)
    BY <1>2
<1>5. loads' \in [1..MaxLoads -> {Free, Sent} \cup Answers]
    BY <1>2, <1>3
<1>6. OnWay' = OnWay
  <2>1. DOMAIN loads' = 1..MaxLoads
    BY <1>2
  <2> QED BY <1>1, <2>1, <1>3, <1>4 DEF OnWay
<1>7. AnswersInv'
    BY <1>1, <1>3, <1>4 DEF AnswersInv
<1> QED BY <1>1, <1>5, <1>6, <1>7

(* What a zone's entries come to does not depend on the other zones.       *)
LEMMA ListedIs ==
    ASSUME NEW found, NEW z \in Zones
    PROVE  Listed(found)[z] = IF found[z] \in Versions THEN <<found[z]>> ELSE <<>>
BY DEF Listed

(* What the list follows is followed still, when the zone and its entries  *)
(* are as they were and no answer it awaits has come.                      *)
LEMMA StaysFollowed ==
    ASSUME NEW z \in Zones, Followed(z), server'[z] = server[z], list'[z] = list[z],
           \A k \in {"create", "update", "delete"} :
               /\ Awaited(z, k, {"done"}) => Awaited(z, k, {"done"})'
               /\ k = "delete" =>
                    (Awaited(z, k, {"sent", "done"}) => Awaited(z, k, {"sent", "done"})')
    PROVE  Followed(z)'
<1>1. Listed(server)'[z] = Listed(server)[z]
    BY ListedIs
<1>2. Stored(z)' = Stored(z)
    BY DEF Stored
<1> QED BY <1>1, <1>2 DEF Followed


(* What is on its way is no more, or the list steady no more, when a load  *)
(* has been sent.                                                          *)
LEMMA NotSteady ==
    ASSUME OnWay' # {} \/ wrong' = TRUE \/ list' = Null
    PROVE  AllFollowed'
BY DEF AllFollowed, Steady

(* A step that leaves the server and the list alone, and makes nothing     *)
(* steady, leaves the list following.                                      *)
LEMMA StillSteady ==
    ASSUME AllFollowed, Steady' => Steady, UNCHANGED <<server, list, writes>>
    PROVE  AllFollowed'
BY DEF AllFollowed, Followed, Awaited, Stored, Listed

(* List's initial states satisfy the invariant.                            *)
LEMMA ListInitOK == ListInit => ListInv
<1> SUFFICES ASSUME ListInit PROVE ListInv
    OBVIOUS
<1>1. loads \in [1..MaxLoads -> {Free, Sent} \cup Answers] /\ \A l \in 1..MaxLoads : loads[l] = Free
    BY DEF ListInit, NoneOnWay, Free
<1>2. Free.phase = "free"
    BY DEF Free
<1>3. ListTypeOK
    BY <1>1 DEF ListInit, ListTypeOK
<1> QED BY <1>1, <1>2, <1>3 DEF ListInit, ListInv, WritesInv, AnswersInv, AllFollowed, Steady


(* OpenZonesPanel keeps the invariant.                                     *)
LEMMA OpenZonesPanelOK ==
    ASSUME ListInv, OpenZonesPanel
    PROVE  ListInv'
<1>a. /\ list' = Null /\ LoadZones /\ UNCHANGED <<server, writes, claim, wrong>>
    BY DEF OpenZonesPanel
<1>b. /\ loads' \in [1..MaxLoads -> {Free, Sent} \cup Answers]
      /\ \A l \in 1..MaxLoads : loads'[l].phase = "answered" => loads'[l] = loads[l]
    BY <1>a, LoadStarts DEF ListInv
<1>1. ListTypeOK'
    BY <1>a, <1>b DEF ListInv, ListTypeOK
<1>2. WritesInv'
    BY <1>a DEF ListInv, WritesInv
<1>3. AnswersInv'
    BY <1>a, <1>b DEF ListInv, AnswersInv
<1>4. AllFollowed'
    BY <1>a, NotSteady
<1> QED BY <1>1, <1>2, <1>3, <1>4 DEF ListInv

(* ServeZones keeps the invariant.                                         *)
LEMMA ServeZonesOK ==
    ASSUME ListInv, NEW l \in 1..MaxLoads, ServeZones(l)
    PROVE  ListInv'
<1> DEFINE u == [phase |-> "answered", found |-> server, late |-> FALSE]
<1>a. /\ loads[l].phase = "sent" /\ loads' = [loads EXCEPT ![l] = u]
      /\ UNCHANGED <<server, list, writes, claim, wrong>>
    BY DEF ServeZones
<1>b. u \in Answers /\ u.phase = "answered" /\ u.found = server
    BY DEF Answers, ListInv, ListTypeOK
<1> HIDE DEF u
<1>c. loads'[l] = u /\ \A k \in 1..MaxLoads : k # l => loads'[k] = loads[k]
    BY <1>a DEF ListInv, ListTypeOK
<1>1. ListTypeOK'
    BY <1>a, <1>b DEF ListInv, ListTypeOK
<1>2. WritesInv'
    BY <1>a DEF ListInv, WritesInv
<1>3. AnswersInv'
    BY <1>a, <1>b, <1>c DEF ListInv, AnswersInv
<1>4. AllFollowed'
  <2>1. DOMAIN loads' = 1..MaxLoads
    BY <1>a DEF ListInv, ListTypeOK
  <2>2. l \in OnWay'
    BY <1>b, <1>c, <2>1 DEF OnWay
  <2> QED BY <2>2, NotSteady
<1> QED BY <1>1, <1>2, <1>3, <1>4 DEF ListInv

(* ReceiveZones keeps the invariant.                                       *)
LEMMA ReceiveZonesOK ==
    ASSUME ListInv, NEW l \in 1..MaxLoads, ReceiveZones(l)
    PROVE  ListInv'
<1>a. /\ loads[l].phase = "answered" /\ list' = Listed(loads[l].found)
      /\ wrong' = loads[l].late /\ loads' = [loads EXCEPT ![l] = Free]
      /\ UNCHANGED <<server, writes, claim>>
    BY DEF ReceiveZones, Free
<1>b. loads[l] \in Answers
    BY <1>a, LoadIs DEF ListInv, ListTypeOK
<1>c. loads[l].late \in BOOLEAN /\ Free.phase = "free"
    BY <1>b DEF Answers, Free
<1>d. loads'[l] = Free /\ \A k \in 1..MaxLoads : k # l => loads'[k] = loads[k]
    BY <1>a DEF ListInv, ListTypeOK
<1>e. list' \in [Zones -> Seq(Versions)]
    BY <1>a DEF Listed
<1>1. ListTypeOK'
    BY <1>a, <1>c, <1>e DEF ListInv, ListTypeOK
<1>2. WritesInv'
    BY <1>a DEF ListInv, WritesInv
<1>3. AnswersInv'
    BY <1>a, <1>c, <1>d DEF ListInv, AnswersInv
<1>4. AllFollowed'
  <2>1. ~loads[l].late => list' = Listed(server')
    BY <1>a DEF ListInv, AnswersInv
  <2>2. ~loads[l].late => \A z \in Zones : list'[z] = Listed(server)'[z]
    BY <2>1
  <2> QED BY <1>a, <2>2 DEF AllFollowed, Steady, Followed
<1> QED BY <1>1, <1>2, <1>3, <1>4 DEF ListInv

(* ZonesFail keeps the invariant.                                          *)
LEMMA ZonesFailOK ==
    ASSUME ListInv, NEW l \in 1..MaxLoads, ZonesFail(l)
    PROVE  ListInv'
<1>a. /\ list' = [z \in Zones |-> <<>>] /\ wrong' = TRUE
      /\ loads' = [loads EXCEPT ![l] = Free]
      /\ UNCHANGED <<server, writes, claim>>
    BY DEF ZonesFail, Free
<1>c. Free.phase = "free"
    BY DEF Free
<1>d. loads'[l] = Free /\ \A k \in 1..MaxLoads : k # l => loads'[k] = loads[k]
    BY <1>a DEF ListInv, ListTypeOK
<1>e. list' \in [Zones -> Seq(Versions)]
    BY <1>a
<1>1. ListTypeOK'
    BY <1>a, <1>e DEF ListInv, ListTypeOK
<1>2. WritesInv'
    BY <1>a DEF ListInv, WritesInv
<1>3. AnswersInv'
    BY <1>a, <1>c, <1>d DEF ListInv, AnswersInv
<1>4. AllFollowed'
    BY <1>a, NotSteady
<1> QED BY <1>1, <1>2, <1>3, <1>4 DEF ListInv

(* A write that the dashboard sends is the only one of its zone and kind.  *)
LEMMA WriteIs ==
    ASSUME NEW kind \in Kinds, NEW z \in Zones, NEW version \in Versions \cup {Gone}
    PROVE  /\ Write(kind, z, version) \in Writes
           /\ Write(kind, z, version).kind = kind /\ Write(kind, z, version).of = z
           /\ Write(kind, z, version).to = version /\ Write(kind, z, version).mine
           /\ Write(kind, z, version).phase = "sent"
BY DEF Write, Writes


(* SendZone keeps the invariant.                                           *)
LEMMA SendZoneOK ==
    ASSUME ListInv, NEW kind \in {"create", "update"}, NEW z \in Zones,
           NEW version \in Versions, SendZone(kind, z, version)
    PROVE  ListInv'
<1> DEFINE w == Write(kind, z, version)
<1>a. /\ writes' = writes \cup {w} /\ \A v \in writes : v.of # w.of \/ v.kind # w.kind
      /\ UNCHANGED <<server, list, loads, claim, wrong>>
    BY DEF SendZone, Send
<1>b. /\ w \in Writes /\ w.kind = kind /\ w.of = z /\ w.to = version /\ w.phase = "sent"
    BY WriteIs DEF Kinds
<1> HIDE DEF w
<1>1. ListTypeOK'
  <2>1. version # Gone
    BY ListAssumption
  <2> QED BY <1>a, <1>b, <2>1 DEF ListInv, ListTypeOK
<1>2. WritesInv'
    BY <1>a, <1>b DEF ListInv, WritesInv
<1>3. AnswersInv'
    BY <1>a DEF ListInv, AnswersInv
<1>4. AllFollowed'
    BY <1>a DEF ListInv, AllFollowed, Steady, Followed, Awaited, OnWay, Stored, Listed
<1> QED BY <1>1, <1>2, <1>3, <1>4 DEF ListInv

(* SendDelete keeps the invariant.                                         *)
LEMMA SendDeleteOK ==
    ASSUME ListInv, NEW z \in Zones, SendDelete(z)
    PROVE  ListInv'
<1> DEFINE w == Write("delete", z, Gone)
<1>a. /\ list # Null /\ list' = [list EXCEPT ![z] = <<>>]
      /\ writes' = writes \cup {w} /\ \A v \in writes : v.of # w.of \/ v.kind # w.kind
      /\ UNCHANGED <<server, loads, claim, wrong>>
    BY DEF SendDelete, Send
<1>b. /\ w \in Writes /\ w.kind = "delete" /\ w.of = z /\ w.to = Gone /\ w.mine /\ w.phase = "sent"
    BY WriteIs DEF Kinds
<1> HIDE DEF w
<1>c. /\ list \in [Zones -> Seq(Versions)] /\ list' \in [Zones -> Seq(Versions)]
      /\ list'[z] = <<>> /\ \A y \in Zones : y # z => list'[y] = list[y]
    BY <1>a DEF ListInv, ListTypeOK
<1>1. ListTypeOK'
    BY <1>a, <1>b, <1>c DEF ListInv, ListTypeOK
<1>2. WritesInv'
    BY <1>a, <1>b DEF ListInv, WritesInv
<1>3. AnswersInv'
    BY <1>a DEF ListInv, AnswersInv
<1>4. AllFollowed'
  <2> SUFFICES ASSUME Steady', NEW y \in Zones PROVE Followed(y)'
    BY DEF AllFollowed
  <2>1. Followed(y)
    BY <1>a DEF Steady, OnWay, ListInv, AllFollowed
  <2>2. CASE y # z
    BY <1>a, <1>c, <2>1, <2>2, StaysFollowed DEF Awaited
  <2>3. CASE y = z
    <3>1. Awaited(z, "delete", {"sent", "done"})'
      BY <1>a, <1>b DEF Awaited
    <3>2. Listed(server')[z] = IF Stored(z)' THEN <<server'[z]>> ELSE <<>>
      BY ListedIs DEF Stored
    <3> QED BY <1>c, <2>3, <3>1, <3>2 DEF Followed
  <2> QED BY <2>2, <2>3
<1> QED BY <1>1, <1>2, <1>3, <1>4 DEF ListInv

(* The writes after one of them has been carried out.                      *)
LEMMA CommitIs ==
    ASSUME ListInv, NEW w \in writes, Commit(w)
    PROVE  /\ writes' \subseteq Writes
           /\ DoneWrite(w) \in writes'
           /\ \A v \in writes \ {w} : PassedWrite(v, w) \in writes'
           /\ \A u \in writes' : \/ u = DoneWrite(w)
                                 \/ \E v \in writes \ {w} : u = PassedWrite(v, w)
<1>1. writes' = {PassedWrite(v, w) : v \in writes \ {w}} \cup {DoneWrite(w)}
    BY DEF Commit, PassedWrite, DoneWrite
<1>2. /\ DoneWrite(w) \in writes'
      /\ \A v \in writes \ {w} : PassedWrite(v, w) \in writes'
      /\ \A u \in writes' : \/ u = DoneWrite(w)
                            \/ \E v \in writes \ {w} : u = PassedWrite(v, w)
    BY <1>1
<1>3. writes \subseteq Writes
    BY DEF ListInv, ListTypeOK
<1>4. ASSUME NEW u \in writes' PROVE u \in Writes
  <2>1. CASE u = DoneWrite(w)
    BY <1>3, <2>1, DoneWriteIs DEF SameWrite
  <2>2. CASE \E v \in writes \ {w} : u = PassedWrite(v, w)
    BY <1>3, <2>2, PassedWriteIs DEF SameWrite
  <2> QED BY <1>2, <2>1, <2>2
<1> QED BY <1>2, <1>4

(* Whatever is awaited but the write itself is awaited still.              *)
LEMMA CommitAwaits ==
    ASSUME ListInv, NEW w \in writes, Commit(w), NEW z \in Zones, NEW k, NEW phases,
           w.of # z \/ w.kind # k, Awaited(z, k, phases)
    PROVE  Awaited(z, k, phases)'
<1>1. PICK v \in writes : v.of = z /\ v.kind = k /\ v.mine /\ v.phase \in phases
    BY DEF Awaited
<1>2. v # w /\ v \in Writes /\ w \in Writes
    BY <1>1 DEF ListInv, ListTypeOK
<1>3. PassedWrite(v, w) \in writes'
    BY <1>2, CommitIs
<1>4. SameWrite(v, PassedWrite(v, w)) /\ PassedWrite(v, w).phase = v.phase
      /\ PassedWrite(v, w).mine = v.mine
    BY <1>2, PassedWriteIs
<1> QED BY <1>1, <1>3, <1>4 DEF Awaited, SameWrite


(* Commit keeps the invariant.                                             *)
LEMMA CommitOK ==
    ASSUME ListInv, NEW w \in writes, Commit(w)
    PROVE  ListInv'
<1>t. /\ w \in Writes /\ w.of \in Zones /\ w.kind \in {"create", "update", "delete"}
      /\ w.to \in Versions \cup {Gone} /\ w.mine \in BOOLEAN
      /\ w.kind = "delete" <=> w.to = Gone
      /\ server \in [Zones -> Versions \cup {Absent, Gone}] /\ writes \subseteq Writes
    BY WriteParts DEF ListInv, ListTypeOK
<1>a. /\ w.phase = "sent" /\ Store([server EXCEPT ![w.of] = w.to])
      /\ (w.kind = "create" => server[w.of] = Absent)
      /\ (w.kind # "create" => Stored(w.of))
      /\ wrong' = (wrong \/ Unfollowed(w)) /\ UNCHANGED <<list, claim>>
    BY DEF Commit
<1>b. /\ server' = [server EXCEPT ![w.of] = w.to] /\ OnWay' = OnWay /\ AnswersInv'
      /\ loads' \in [1..MaxLoads -> {Free, Sent} \cup Answers]
    BY <1>a, StoreIs DEF ListInv
<1>c. /\ server' \in [Zones -> Versions \cup {Absent, Gone}] /\ server'[w.of] = w.to
      /\ \A z \in Zones : z # w.of => server'[z] = server[z]
    BY <1>b, <1>t
<1>d. /\ SameWrite(w, DoneWrite(w)) /\ DoneWrite(w).phase = "done" /\ DoneWrite(w).mine = w.mine
      /\ DoneWrite(w) \in writes'
    BY <1>t, DoneWriteIs, CommitIs
<1>e. \A u \in writes' :
          \/ u = DoneWrite(w)
          \/ \E v \in writes \ {w} :
                /\ SameWrite(v, u) /\ u.phase = v.phase /\ u.mine = v.mine
                /\ u = PassedWrite(v, w)
                /\ u.passed <=> v.passed \/ (v.of = w.of /\ v.phase = "done")
    BY <1>t, CommitIs, PassedWriteIs
<1>1. ListTypeOK'
  <2>1. writes' \subseteq Writes
    BY CommitIs
  <2>2. \A u \in writes' : u.kind = "delete" <=> u.to = Gone
    BY <1>d, <1>e, <1>t DEF SameWrite, ListInv, ListTypeOK
  <2>3. wrong' \in BOOLEAN
    BY <1>a DEF Unfollowed, ListInv, ListTypeOK
  <2> QED BY <1>a, <1>b, <1>c, <2>1, <2>2, <2>3 DEF ListInv, ListTypeOK
<1>2. WritesInv'
  <2>1. ASSUME NEW u \in writes', NEW v \in writes', u.of = v.of, u.kind = v.kind
        PROVE  u = v
    BY <1>d, <1>e, <2>1 DEF SameWrite, ListInv, WritesInv
  <2>2. ASSUME NEW u \in writes', u.phase = "done"
        PROVE  server'[u.of] # Absent /\ (~u.passed => server'[u.of] = u.to)
    <3>0. w.to # Absent
      BY <1>t, ListAssumption
    <3>1. CASE u = DoneWrite(w)
      BY <1>c, <1>d, <3>0, <3>1 DEF SameWrite
    <3>2. ASSUME NEW v \in writes \ {w}, SameWrite(v, u), u.phase = v.phase,
                 u.passed <=> v.passed \/ (v.of = w.of /\ v.phase = "done")
          PROVE  server'[u.of] # Absent /\ (~u.passed => server'[u.of] = u.to)
      <4>1. v.of \in Zones
        BY <1>t, WriteParts
      <4>2. server[v.of] # Absent /\ (~v.passed => server[v.of] = v.to)
        BY <2>2, <3>2 DEF ListInv, WritesInv
      <4> QED BY <1>c, <2>2, <3>0, <3>2, <4>1, <4>2 DEF SameWrite
    <3> QED BY <1>e, <3>1, <3>2
  <2> QED BY <2>1, <2>2 DEF WritesInv
<1>3. AnswersInv'
    BY <1>b
<1>4. AllFollowed'
  <2> SUFFICES ASSUME Steady', NEW z \in Zones PROVE Followed(z)'
    BY DEF AllFollowed
  <2>1. /\ list # Null /\ OnWay = {} /\ ~wrong /\ ~(claim.phase = "done" /\ claim.reload)
        /\ ~Unfollowed(w) /\ list' = list
    BY <1>a, <1>b DEF Steady
  <2>2. Followed(z)
    BY <2>1 DEF Steady, ListInv, AllFollowed
  <2>3. CASE z # w.of
    <3>1. \A k, phases : Awaited(z, k, phases) => Awaited(z, k, phases)'
      BY <2>3, CommitAwaits
    <3> QED BY <1>c, <2>1, <2>2, <2>3, <3>1, StaysFollowed
  <2>4. CASE z = w.of /\ w.kind = "delete"
    <3>1. list'[z] = <<>>
      BY <2>1, <2>4 DEF Unfollowed
    <3>2. server'[z] \notin Versions
      BY <1>c, <1>t, <2>4, ListAssumption
    <3>3. Listed(server')[z] = <<>>
      BY <3>2, ListedIs
    <3> QED BY <3>1, <3>3 DEF Followed
  <2>5. CASE z = w.of /\ w.kind # "delete"
    <3>1. w.mine /\ Stored(z)'
      BY <1>c, <1>t, <2>1, <2>5 DEF Unfollowed, Stored
    <3>2. Awaited(z, w.kind, {"done"})'
      BY <1>d, <2>5, <3>1 DEF Awaited, SameWrite
    <3>3. CASE w.kind = "create"
      <4>1. ~Stored(z)
        BY <1>a, <2>5, <3>3, ListAssumption DEF Stored
      <4>2. Listed(server)[z] = <<>>
        BY <4>1, ListedIs DEF Stored
      <4>3. list'[z] = <<>>
        BY <2>1, <2>2, <4>1, <4>2 DEF Followed
      <4> QED BY <3>1, <3>2, <3>3, <4>3 DEF Followed
    <3>4. CASE w.kind = "update"
      <4>1. Listed(server)[z] = <<server[z]>> /\ server[z] \in Versions
        BY <1>a, <2>5, <3>4, ListedIs DEF Stored
      <4>2. \/ \E x \in Versions : list[z] = <<x>>
            \/ list[z] = <<>> /\ (Awaited(z, "create", {"done"})
                                   \/ Awaited(z, "delete", {"sent", "done"}))
        BY <2>2, <4>1 DEF Followed
      <4>3. CASE \E x \in Versions : list[z] = <<x>>
        BY <2>1, <3>1, <3>2, <3>4, <4>3 DEF Followed
      <4>4. CASE list[z] = <<>> /\ (Awaited(z, "create", {"done"})
                                   \/ Awaited(z, "delete", {"sent", "done"}))
        <5>1. Awaited(z, "create", {"done"})' \/ Awaited(z, "delete", {"sent", "done"})'
          BY <3>4, <4>4, CommitAwaits
        <5> QED BY <2>1, <3>1, <4>4, <5>1 DEF Followed
      <4> QED BY <4>2, <4>3, <4>4
    <3> QED BY <1>t, <2>5, <3>3, <3>4
  <2> QED BY <2>3, <2>4, <2>5
<1> QED BY <1>1, <1>2, <1>3, <1>4 DEF ListInv

(* Answered keeps the invariant.                                           *)
LEMMA AnsweredOK ==
    ASSUME ListInv, NEW w \in writes, Answered(w)
    PROVE  ListInv'
<1>t. /\ w \in Writes /\ w.of \in Zones /\ w.kind \in {"create", "update", "delete"}
      /\ w.to \in Versions \cup {Gone} /\ w.mine \in BOOLEAN /\ w.passed \in BOOLEAN
      /\ w.kind = "delete" <=> w.to = Gone
    BY WriteParts DEF ListInv, ListTypeOK
<1>a. /\ w.phase = "done" /\ writes' = writes \ {w}
      /\ (w.mine => list' = Amended(w)) /\ (~w.mine => list' = list)
      /\ wrong' = (wrong \/ Misled(w)) /\ UNCHANGED <<server, loads, claim>>
    BY DEF Answered
<1>b. /\ list' = Null \/ list' \in [Zones -> Seq(Versions)]
      /\ list' # Null => /\ list # Null /\ list \in [Zones -> Seq(Versions)]
                         /\ \A y \in Zones : y # w.of => list'[y] = list[y]
  <2>0. list = Null \/ list \in [Zones -> Seq(Versions)]
    BY DEF ListInv, ListTypeOK
  <2>1. CASE ~w.mine \/ list = Null \/ w.kind = "delete"
    <3>1. list' = list
      BY <1>a, <1>t, <2>1 DEF Amended
    <3> QED BY <2>0, <3>1
  <2>2. CASE w.mine /\ list # Null /\ w.kind = "create"
    <3>1. list' = [list EXCEPT ![w.of] = <<w.to>> \o list[w.of]]
      BY <1>a, <2>2 DEF Amended
    <3>2. w.to \in Versions /\ list[w.of] \in Seq(Versions)
      BY <1>t, <2>0, <2>2
    <3>3. <<w.to>> \o list[w.of] \in Seq(Versions)
      BY <3>2
    <3> QED BY <1>t, <2>0, <2>2, <3>1, <3>3
  <2>3. CASE w.mine /\ list # Null /\ w.kind = "update"
    <3> DEFINE s == [i \in DOMAIN list[w.of] |-> w.to]
    <3>1. list' = [list EXCEPT ![w.of] = s]
      BY <1>a, <2>3 DEF Amended
    <3>2. w.to \in Versions /\ list[w.of] \in Seq(Versions)
      BY <1>t, <2>0, <2>3
    <3>3. s \in Seq(Versions)
      BY <3>2
    <3> HIDE DEF s
    <3> QED BY <1>t, <2>0, <2>3, <3>1, <3>3
  <2> QED BY <1>t, <2>1, <2>2, <2>3
<1>1. ListTypeOK'
  <2>1. wrong' \in BOOLEAN
    BY <1>a, <1>t DEF Misled, ListInv, ListTypeOK
  <2> QED BY <1>a, <1>b, <2>1 DEF ListInv, ListTypeOK
<1>2. WritesInv'
    BY <1>a DEF ListInv, WritesInv
<1>3. AnswersInv'
    BY <1>a DEF ListInv, AnswersInv
<1>4. AllFollowed'
  <2> SUFFICES ASSUME Steady', NEW z \in Zones PROVE Followed(z)'
    BY DEF AllFollowed
  <2>1. /\ list # Null /\ list' # Null /\ ~wrong /\ ~Misled(w) /\ Steady
    BY <1>a, <1>b DEF Steady, OnWay
  <2>2. Followed(z)
    BY <2>1 DEF ListInv, AllFollowed
  <2>3. ASSUME NEW k, NEW phases, w.of # z \/ w.kind # k \/ ~w.mine, Awaited(z, k, phases)
        PROVE  Awaited(z, k, phases)'
    BY <1>a, <2>3 DEF Awaited
  <2>4. CASE z # w.of \/ ~w.mine
    <3>1. list'[z] = list[z]
      BY <1>a, <1>b, <2>1, <2>4
    <3> QED BY <1>a, <2>2, <2>3, <2>4, <3>1, StaysFollowed
  <2>5. CASE z = w.of /\ w.mine
    <3>1. server'[z] = w.to
      BY <1>a, <2>1, <2>5 DEF Misled, ListInv, WritesInv
    <3>2. CASE w.kind = "delete"
      <4>1. list' = list /\ ~Stored(z)
        BY <1>a, <1>t, <2>5, <3>1, <3>2, ListAssumption DEF Amended, Stored
      <4>2. list[z] = Listed(server)[z]
        BY <2>2, <4>1 DEF Followed
      <4> QED BY <1>a, <4>1, <4>2 DEF Followed, Listed
    <3>3. CASE w.kind = "create"
      <4>1. list[z] = <<>>
        BY <2>1, <2>5, <3>3 DEF Misled
      <4>2. list' = [list EXCEPT ![z] = <<w.to>> \o list[z]]
        BY <1>a, <2>1, <2>5, <3>3 DEF Amended
      <4>3. list'[z] = <<w.to>> \o list[z]
        BY <1>b, <2>1, <4>2
      <4>4. <<w.to>> \o <<>> = <<w.to>>
        OBVIOUS
      <4>5. Listed(server')[z] = <<w.to>>
        BY <1>t, <3>1, <3>3, ListedIs
      <4> QED BY <4>1, <4>3, <4>4, <4>5 DEF Followed
    <3>4. CASE w.kind = "update"
      <4>0. w.to \in Versions
        BY <1>t, <3>4
      <4>1. list' = [list EXCEPT ![z] = [i \in DOMAIN list[z] |-> w.to]]
        BY <1>a, <2>1, <2>5, <3>4 DEF Amended
      <4>2. list'[z] = [i \in DOMAIN list[z] |-> w.to]
        BY <1>b, <2>1, <4>1
      <4>3. Stored(z) /\ Stored(z)' /\ Listed(server)[z] = <<server[z]>>
        BY <1>a, <3>1, <4>0, ListedIs DEF Stored
      <4>4. CASE \E x \in Versions : list[z] = <<x>>
        <5>1. PICK x \in Versions : list[z] = <<x>>
          BY <4>4
        <5>2. [i \in DOMAIN <<x>> |-> w.to] = <<w.to>>
          OBVIOUS
        <5>3. Listed(server')[z] = <<w.to>>
          BY <3>1, <4>0, ListedIs
        <5> QED BY <4>2, <5>1, <5>2, <5>3 DEF Followed
      <4>5. CASE list[z] = <<>> /\ (Awaited(z, "create", {"done"})
                                   \/ Awaited(z, "delete", {"sent", "done"}))
        <5>1. Awaited(z, "create", {"done"})' \/ Awaited(z, "delete", {"sent", "done"})'
          BY <2>3, <3>4, <4>5
        <5>2. [i \in DOMAIN << >> |-> w.to] = << >>
          OBVIOUS
        <5> QED BY <4>2, <4>3, <4>5, <5>1, <5>2 DEF Followed
      <4> QED BY <2>2, <4>3, <4>4, <4>5 DEF Followed, Stored
    <3> QED BY <1>t, <3>2, <3>3, <3>4
  <2> QED BY <2>4, <2>5
<1> QED BY <1>1, <1>2, <1>3, <1>4 DEF ListInv

(* Refused keeps the invariant.                                            *)
LEMMA RefusedOK ==
    ASSUME ListInv, NEW w \in writes, Refused(w)
    PROVE  ListInv'
<1>t. w.kind \in {"create", "update", "delete"} /\ w.mine \in BOOLEAN
    BY WriteParts DEF ListInv, ListTypeOK
<1>a. /\ w.phase = "sent" /\ writes' = writes \ {w} /\ Resync(w)
      /\ UNCHANGED <<server, list, claim, wrong>>
    BY DEF Refused
<1>b. /\ w.kind = "delete" /\ w.mine => OnWay' # {}
      /\ ~(w.kind = "delete" /\ w.mine) => loads' = loads
      /\ loads' \in [1..MaxLoads -> {Free, Sent} \cup Answers]
      /\ \A l \in 1..MaxLoads : loads'[l].phase = "answered" => loads'[l] = loads[l]
    BY <1>a, LoadStarts DEF Resync, ListInv, ListTypeOK
<1>1. ListTypeOK'
    BY <1>a, <1>b DEF ListInv, ListTypeOK
<1>2. WritesInv'
    BY <1>a DEF ListInv, WritesInv
<1>3. AnswersInv'
    BY <1>a, <1>b DEF ListInv, AnswersInv
<1>4. AllFollowed'
  <2>1. CASE w.kind = "delete" /\ w.mine
    BY <1>b, <2>1, NotSteady
  <2>2. CASE ~(w.kind = "delete" /\ w.mine)
    <3> SUFFICES ASSUME Steady', NEW z \in Zones PROVE Followed(z)'
      BY DEF AllFollowed
    <3>1. Followed(z)
      BY <1>a, <1>b, <2>2 DEF Steady, OnWay, ListInv, AllFollowed
    <3>2. /\ \A k : Awaited(z, k, {"done"}) => Awaited(z, k, {"done"})'
          /\ Awaited(z, "delete", {"sent", "done"}) => Awaited(z, "delete", {"sent", "done"})'
      BY <1>a, <2>2 DEF Awaited
    <3> QED BY <1>a, <3>1, <3>2, StaysFollowed
  <2> QED BY <2>1, <2>2
<1> QED BY <1>1, <1>2, <1>3, <1>4 DEF ListInv

(* WriteLost keeps the invariant.                                          *)
LEMMA WriteLostOK ==
    ASSUME ListInv, NEW w \in writes, WriteLost(w)
    PROVE  ListInv'
<1> DEFINE u == LostWrite(w)
<1>t. /\ w \in Writes /\ w.kind \in {"create", "update", "delete"} /\ w.phase \in {"sent", "done"}
    BY WriteParts DEF ListInv, ListTypeOK
<1>a. /\ w.mine /\ writes' = (writes \ {w}) \cup {u} /\ Resync(w)
      /\ wrong' = (wrong \/ (w.phase = "done" /\ w.kind # "delete"))
      /\ UNCHANGED <<server, list, claim>>
    BY DEF WriteLost, LostWrite
<1>b. /\ w.kind = "delete" => OnWay' # {}
      /\ w.kind # "delete" => loads' = loads
      /\ loads' \in [1..MaxLoads -> {Free, Sent} \cup Answers]
      /\ \A l \in 1..MaxLoads : loads'[l].phase = "answered" => loads'[l] = loads[l]
    BY <1>a, LoadStarts DEF Resync, ListInv, ListTypeOK
<1>c. SameWrite(w, u) /\ u.phase = w.phase /\ u.passed = w.passed
    BY <1>t, LostWriteIs
<1> HIDE DEF u
<1>1. ListTypeOK'
    BY <1>a, <1>b, <1>c DEF ListInv, ListTypeOK, SameWrite
<1>2. WritesInv'
    BY <1>a, <1>c DEF ListInv, WritesInv, SameWrite
<1>3. AnswersInv'
    BY <1>a, <1>b DEF ListInv, AnswersInv
<1>4. AllFollowed'
  <2>1. CASE w.kind = "delete" \/ w.phase = "done"
    BY <1>a, <1>b, <2>1, NotSteady
  <2>2. CASE w.kind # "delete" /\ w.phase = "sent"
    <3> SUFFICES ASSUME Steady', NEW z \in Zones PROVE Followed(z)'
      BY DEF AllFollowed
    <3>1. Followed(z)
      BY <1>a, <1>b, <2>2 DEF Steady, OnWay, ListInv, AllFollowed
    <3>2. /\ \A k : Awaited(z, k, {"done"}) => Awaited(z, k, {"done"})'
          /\ Awaited(z, "delete", {"sent", "done"}) => Awaited(z, "delete", {"sent", "done"})'
      BY <1>a, <2>2 DEF Awaited
    <3> QED BY <1>a, <3>1, <3>2, StaysFollowed
  <2> QED BY <1>t, <2>1, <2>2
<1> QED BY <1>1, <1>2, <1>3, <1>4 DEF ListInv

(* The claim's record.                                                     *)
LEMMA ClaimIs ==
    ASSUME ListTypeOK
    PROVE  /\ NoClaim.phase = "none"
           /\ claim # NoClaim => /\ claim \in [phase : {"sent", "done"}, reload : BOOLEAN]
                                 /\ claim.reload \in BOOLEAN
           /\ claim.phase \in {"none", "sent", "done"}
BY DEF ListTypeOK, NoClaim


(* SendClaim keeps the invariant.                                          *)
LEMMA SendClaimOK ==
    ASSUME ListInv, SendClaim
    PROVE  ListInv'
<1> DEFINE c == [phase |-> "sent", reload |-> list # Null]
<1>a. /\ claim = NoClaim /\ claim' = c /\ UNCHANGED <<server, list, loads, writes, wrong>>
    BY DEF SendClaim
<1>b. c \in [phase : {"sent", "done"}, reload : BOOLEAN] /\ c.phase = "sent"
    OBVIOUS
<1> HIDE DEF c
<1>1. ListTypeOK'
    BY <1>a, <1>b DEF ListInv, ListTypeOK
<1>2. WritesInv'
    BY <1>a DEF ListInv, WritesInv
<1>3. AnswersInv'
    BY <1>a DEF ListInv, AnswersInv
<1>4. AllFollowed'
  <2>1. claim.phase # "done"
    BY <1>a, ClaimIs DEF ListInv
  <2> QED BY <1>a, <2>1 DEF ListInv, AllFollowed, Steady, Followed, Awaited, OnWay, Stored, Listed
<1> QED BY <1>1, <1>2, <1>3, <1>4 DEF ListInv

(* CommitClaim keeps the invariant.                                        *)
LEMMA CommitClaimOK ==
    ASSUME ListInv, CommitClaim
    PROVE  ListInv'
<1> DEFINE Now(version) == [z \in Zones |-> IF z \in OfDevice /\ server[z] = Absent
                                            THEN version ELSE server[z]]
           c == [claim EXCEPT !.phase = "done"]
<1>a. /\ claim.phase = "sent" /\ claim' = c
      /\ wrong' = (wrong \/ ~claim.reload) /\ UNCHANGED <<list, writes>>
    BY DEF CommitClaim
<1>b. PICK version \in Versions : Store(Now(version))
    BY DEF CommitClaim
<1> HIDE DEF Now
<1>c. /\ server' = Now(version) /\ AnswersInv'
      /\ loads' \in [1..MaxLoads -> {Free, Sent} \cup Answers]
    BY <1>b, StoreIs DEF ListInv
<1>d. /\ server' \in [Zones -> Versions \cup {Absent, Gone}]
      /\ \A z \in Zones : server[z] # Absent => server'[z] = server[z]
    BY <1>c DEF Now, ListInv, ListTypeOK
<1>e. /\ claim \in [phase : {"sent", "done"}, reload : BOOLEAN]
      /\ c \in [phase : {"sent", "done"}, reload : BOOLEAN]
      /\ c.phase = "done" /\ c.reload = claim.reload
  <2>1. claim \in [phase : {"sent", "done"}, reload : BOOLEAN]
    BY <1>a, ClaimIs DEF ListInv
  <2> QED BY <2>1
<1> HIDE DEF c
<1>1. ListTypeOK'
  <2>1. claim.reload \in BOOLEAN /\ wrong' \in BOOLEAN
    BY <1>a, <1>e DEF ListInv, ListTypeOK
  <2> QED BY <1>a, <1>c, <1>d, <1>e, <2>1 DEF ListInv, ListTypeOK
<1>2. WritesInv'
  <2>1. \A w \in writes : w.of \in Zones
    BY WriteParts DEF ListInv, ListTypeOK
  <2> QED BY <1>a, <1>d, <2>1 DEF ListInv, WritesInv
<1>3. AnswersInv'
    BY <1>c
<1>4. AllFollowed'
    BY <1>a, <1>e DEF AllFollowed, Steady
<1> QED BY <1>1, <1>2, <1>3, <1>4 DEF ListInv

(* ClaimAnswered keeps the invariant.                                      *)
LEMMA ClaimAnsweredOK ==
    ASSUME ListInv, ClaimAnswered
    PROVE  ListInv'
<1>a. /\ claim.phase = "done" /\ claim' = NoClaim
      /\ UNCHANGED <<server, list, writes, wrong>>
    BY DEF ClaimAnswered
<1>b. /\ claim.reload => OnWay' # {}
      /\ ~claim.reload => loads' = loads
      /\ loads' \in [1..MaxLoads -> {Free, Sent} \cup Answers]
      /\ \A l \in 1..MaxLoads : loads'[l].phase = "answered" => loads'[l] = loads[l]
    BY <1>a, LoadStarts DEF ClaimAnswered, ListInv, ListTypeOK
<1>1. ListTypeOK'
    BY <1>a, <1>b DEF ListInv, ListTypeOK
<1>2. WritesInv'
    BY <1>a DEF ListInv, WritesInv
<1>3. AnswersInv'
    BY <1>a, <1>b DEF ListInv, AnswersInv
<1>4. AllFollowed'
  <2>1. CASE claim.reload
    BY <1>b, <2>1, NotSteady
  <2>2. CASE ~claim.reload
    <3>1. OnWay' = OnWay
      BY <1>b, <2>2 DEF OnWay
    <3>2. Steady' => Steady
      BY <1>a, <2>2, <3>1 DEF Steady
    <3> QED BY <1>a, <3>2, StillSteady DEF ListInv
  <2> QED BY <2>1, <2>2
<1> QED BY <1>1, <1>2, <1>3, <1>4 DEF ListInv

(* ClaimFails keeps the invariant.                                         *)
LEMMA ClaimFailsOK ==
    ASSUME ListInv, ClaimFails
    PROVE  ListInv'
<1>a. /\ claim' = NoClaim /\ wrong' = (wrong \/ claim.phase = "done")
      /\ UNCHANGED <<server, list, loads, writes>>
    BY DEF ClaimFails
<1>1. ListTypeOK'
    BY <1>a DEF ListInv, ListTypeOK
<1>2. WritesInv'
    BY <1>a DEF ListInv, WritesInv
<1>3. AnswersInv'
    BY <1>a DEF ListInv, AnswersInv
<1>4. AllFollowed'
  <2>1. OnWay' = OnWay
    BY <1>a DEF OnWay
  <2>2. Steady' => Steady
    <3>1. wrong' = FALSE => wrong = FALSE /\ claim.phase # "done"
      BY <1>a DEF ListInv, ListTypeOK
    <3>2. wrong' \in BOOLEAN
      BY <1>1 DEF ListTypeOK
    <3> QED BY <1>a, <2>1, <3>1, <3>2 DEF Steady
  <2> QED BY <1>a, <2>2, StillSteady DEF ListInv
<1> QED BY <1>1, <1>2, <1>3, <1>4 DEF ListInv

(* Every step keeps the invariant, or changes nothing.                     *)
LEMMA ListStep == ListInv /\ [ListNext]_listVars => ListInv'
<1> SUFFICES ASSUME ListInv, [ListNext]_listVars PROVE ListInv'
    OBVIOUS
<1>0. DOMAIN loads = 1..MaxLoads
    BY DEF ListInv, ListTypeOK
<1>1. CASE OpenZonesPanel
    BY <1>1, OpenZonesPanelOK
<1>2. CASE \E l \in DOMAIN loads : ServeZones(l) \/ ReceiveZones(l) \/ ZonesFail(l)
    BY <1>0, <1>2, ServeZonesOK, ReceiveZonesOK, ZonesFailOK
<1>3. CASE \E kind \in {"create", "update"}, z \in Zones, version \in Versions :
             SendZone(kind, z, version)
    BY <1>3, SendZoneOK
<1>4. CASE \E z \in Zones : SendDelete(z)
    BY <1>4, SendDeleteOK
<1>5. CASE \E w \in writes : Commit(w) \/ Answered(w) \/ Refused(w) \/ WriteLost(w)
    BY <1>5, CommitOK, AnsweredOK, RefusedOK, WriteLostOK
<1>6. CASE SendClaim
    BY <1>6, SendClaimOK
<1>7. CASE CommitClaim
    BY <1>7, CommitClaimOK
<1>8. CASE ClaimAnswered
    BY <1>8, ClaimAnsweredOK
<1>9. CASE ClaimFails
    BY <1>9, ClaimFailsOK
<1>10. CASE UNCHANGED listVars
    BY <1>10 DEF listVars, ListInv, ListTypeOK, WritesInv, AnswersInv, AllFollowed, Steady,
                 Followed, Awaited, OnWay, Stored, Listed
<1> QED BY <1>1, <1>2, <1>3, <1>4, <1>5, <1>6, <1>7, <1>8, <1>9, <1>10 DEF ListNext

(* What the invariant says of a list at rest is the property.              *)
LEMMA ListInvIsTrue == ListInv => ListIsTrue
<1> SUFFICES ASSUME ListInv, list # Null, OnWay = {}, claim = NoClaim, ~wrong,
                    NEW z \in Zones
             PROVE  \/ \E w \in writes : w.of = z /\ w.mine
                    \/ list[z] = Listed(server)[z]
    BY DEF ListIsTrue
<1>1. claim.phase # "done"
    BY ClaimIs DEF ListInv
<1>2. Followed(z)
    BY <1>1 DEF Steady, ListInv, AllFollowed
<1> QED BY <1>2 DEF Followed, Awaited

(* Once the writes have been answered, a list that is shown without an     *)
(* error is the server's, whatever loads, writes and claims overlapped.    *)
THEOREM ListIsTrueAlways == ListSpec => []ListIsTrue
<1>1. ListSpec => []ListInv
    BY ListInitOK, ListStep, PTL DEF ListSpec
<1> QED BY <1>1, ListInvIsTrue, PTL
-----------------------------------------------------------------------------
(* The switch of push notifications.                                       *)

(* An operation is a record; how far it is says which way it goes.         *)
Phases == {"ask", "subscribe", "save", "saved", "find", "unsubscribe", "delete", "deleted"}

(* The record of one operation.                                            *)
Operation(n) ==
    [wasOn : BOOLEAN, at : Phases, of : Endpoints \cup {NoEndpoint},
     mine : BOOLEAN, alone : BOOLEAN, nr : {n}]

(* How far an operation can be, and when it has a subscription in hand.    *)
OnItsWay(wasOn, at, of) ==
    /\ at \in IF wasOn THEN {"find", "unsubscribe", "delete", "deleted"}
                       ELSE {"ask", "subscribe", "save", "saved"}
    /\ at \in {"save", "saved", "unsubscribe", "delete", "deleted"} => of \in Endpoints

(* An operation of the switch.                                             *)
IsToggle(t) == t \in Operation(t.nr) /\ OnItsWay(t.wasOn, t.at, t.of)

(* What the variables of the switch can be.                                *)
PushTypeOK ==
    /\ device \in Endpoints \cup {NoEndpoint} /\ rows \subseteq Endpoints
    /\ pushState \in {"unsupported", "off", "on", "busy"}
    /\ pushPanel \in BOOLEAN /\ misshown \in BOOLEAN
    /\ \A t \in toggles : IsToggle(t)

(* The subscriptions of the operations that are at one point.              *)
Ends(at) == {t.of : t \in {u \in toggles : u.at = at}}

(* Every row is the browser's, or its deletion is under way or failed; and *)
(* the browser's subscription has a row, or its saving is under way or     *)
(* failed.  What is being deleted is not the browser's any more.           *)
RowsAreHeld ==
    /\ rows \subseteq undeleted \cup {device} \cup Ends("delete")
    /\ device = NoEndpoint \/ device \in rows \cup unsaved \cup Ends("save")
    /\ device \notin Ends("delete")

(* What the panel awaits keeps it busy; what was started alone stays so    *)
(* as long as it is awaited; and a panel that is sure awaits nothing.      *)
OneAtATime ==
    /\ \A t \in toggles : t.mine => /\ pushState = "busy"
                                    /\ \A u \in toggles : u.mine => u = t
                                    /\ t.alone => toggles = {t}
    /\ pushState \in {"on", "off"} /\ ~misshown => toggles = {}

(* What makes a state that is shown without a doubt true.                  *)
Sure(state) == IF state = "on" THEN device # NoEndpoint ELSE rows \subseteq undeleted

(* What an operation of a panel that is sure can count on.                 *)
Progress(t) ==
    /\ t.at \in {"save", "saved", "unsubscribe"} => device = t.of
    /\ t.at \in {"delete", "deleted"} => device = NoEndpoint
    /\ ~misshown /\ t.at \in {"find", "ask", "subscribe", "save"} =>
          Sure(IF t.wasOn THEN "on" ELSE "off")

(* What is shown is so, and what is awaited can be counted on.             *)
ShownIsSure == pushState \in {"on", "off"} /\ ~misshown => Sure(pushState)
AllProgress == \A t \in toggles : t.mine /\ t.alone => Progress(t)

(* The inductive invariant of the switch.                                  *)
PushInv == PushTypeOK /\ RowsAreHeld /\ OneAtATime /\ ShownIsSure /\ AllProgress

(* u is what a step makes of the operation t.                              *)
Becomes(t, u, at, of, mine) ==
    /\ IsToggle(u)
    /\ u.wasOn = t.wasOn /\ u.at = at /\ u.of = of /\ u.mine = mine /\ u.alone = t.alone

(* What the steps make of an operation's record.                           *)
LEMMA StepsAt ==
    ASSUME NEW t, IsToggle(t), NEW a \in Phases, OnItsWay(t.wasOn, a, t.of)
    PROVE  Becomes(t, [t EXCEPT !.at = a], a, t.of, t.mine)
<1> DEFINE u == [t EXCEPT !.at = a]
<1>1. u \in Operation(t.nr) /\ u.nr = t.nr
    BY DEF IsToggle, Operation
<1>2. u.wasOn = t.wasOn /\ u.at = a /\ u.of = t.of /\ u.mine = t.mine /\ u.alone = t.alone
    BY DEF IsToggle, Operation
<1> HIDE DEF u
<1>3. u \in Operation(u.nr) /\ OnItsWay(u.wasOn, u.at, u.of)
    BY <1>1, <1>2 DEF IsToggle
<1>4. Becomes(t, u, a, t.of, t.mine)
    BY <1>2, <1>3, Zenon DEF IsToggle, Becomes
<1> QED BY <1>4 DEF u

(* An operation that takes a subscription in hand changes only in that.    *)
LEMMA StepsOf ==
    ASSUME NEW t, IsToggle(t), NEW a \in Phases, NEW e \in Endpoints, OnItsWay(t.wasOn, a, e)
    PROVE  Becomes(t, [t EXCEPT !.at = a, !.of = e], a, e, t.mine)
<1> DEFINE u == [t EXCEPT !.at = a, !.of = e]
<1>1. u \in Operation(t.nr) /\ u.nr = t.nr
    BY DEF IsToggle, Operation
<1>2. u.wasOn = t.wasOn /\ u.at = a /\ u.of = e /\ u.mine = t.mine /\ u.alone = t.alone
    BY DEF IsToggle, Operation
<1> HIDE DEF u
<1>3. u \in Operation(u.nr) /\ OnItsWay(u.wasOn, u.at, u.of)
    BY <1>1, <1>2 DEF IsToggle
<1>4. Becomes(t, u, a, e, t.mine)
    BY <1>2, <1>3, Zenon DEF IsToggle, Becomes
<1> QED BY <1>4 DEF u

(* An operation that nobody awaits any more changes only in that.          *)
LEMMA StepsMine ==
    ASSUME NEW t, IsToggle(t)
    PROVE  Becomes(t, [t EXCEPT !.mine = FALSE], t.at, t.of, FALSE)
<1> DEFINE u == [t EXCEPT !.mine = FALSE]
<1>1. u \in Operation(t.nr) /\ u.nr = t.nr
    BY DEF IsToggle, Operation
<1>2. u.wasOn = t.wasOn /\ u.at = t.at /\ u.of = t.of /\ u.mine = FALSE /\ u.alone = t.alone
    BY DEF IsToggle, Operation
<1> HIDE DEF u
<1>3. u \in Operation(u.nr) /\ OnItsWay(u.wasOn, u.at, u.of)
    BY <1>1, <1>2 DEF IsToggle
<1>4. Becomes(t, u, t.at, t.of, FALSE)
    BY <1>2, <1>3, Zenon DEF IsToggle, Becomes
<1> QED BY <1>4 DEF u

(* What an operation's type says of its parts.                             *)
LEMMA ToggleParts ==
    ASSUME NEW t, IsToggle(t)
    PROVE  /\ t.wasOn \in BOOLEAN /\ t.mine \in BOOLEAN /\ t.alone \in BOOLEAN
           /\ OnItsWay(t.wasOn, t.at, t.of)
BY DEF IsToggle, Operation

(* Push's initial states satisfy the invariant.                            *)
LEMMA PushInitOK == PushInit => PushInv
BY PushAssumption DEF PushInit, PushInv, PushTypeOK, RowsAreHeld, Ends, OneAtATime, ShownIsSure, AllProgress, Sure

(* OpenPushPanel keeps the invariant.                                      *)
LEMMA OpenPushPanelOK ==
    ASSUME PushInv, OpenPushPanel
    PROVE  PushInv'
BY PushAssumption DEF OpenPushPanel, PushInv, PushTypeOK, RowsAreHeld, Ends, OneAtATime, ShownIsSure, AllProgress, Progress, Sure

(* ClosePushPanel keeps the invariant.                                     *)
LEMMA ClosePushPanelOK ==
    ASSUME PushInv, ClosePushPanel
    PROVE  PushInv'
<1>a. ASSUME NEW t \in toggles PROVE Becomes(t, [t EXCEPT !.mine = FALSE], t.at, t.of, FALSE)
    BY StepsMine DEF PushInv, PushTypeOK
<1>b. toggles' = {[t EXCEPT !.mine = FALSE] : t \in toggles}
    BY DEF ClosePushPanel
<1>c. /\ \A u \in toggles' : \E t \in toggles : Becomes(t, u, t.at, t.of, FALSE)
      /\ \A t \in toggles : \E u \in toggles' : Becomes(t, u, t.at, t.of, FALSE)
    BY <1>a, <1>b, Zenon
<1>d. /\ pushState' = "unsupported" /\ pushPanel' = FALSE /\ misshown' = FALSE
      /\ UNCHANGED <<device, rows, unsaved, undeleted>>
    BY DEF ClosePushPanel
<1>e. \A a : Ends(a)' = Ends(a)
    BY <1>c DEF Ends, Becomes
<1>1. PushTypeOK'
    BY <1>c, <1>d DEF PushInv, PushTypeOK, Becomes, OnItsWay
<1>2. RowsAreHeld'
    BY <1>c, <1>d, <1>e DEF PushInv, RowsAreHeld
<1>3. OneAtATime'
    BY <1>c, <1>d DEF PushInv, PushTypeOK, OneAtATime, Becomes, OnItsWay
<1>4. ShownIsSure'
    BY <1>c, <1>d DEF PushInv, PushTypeOK, RowsAreHeld, Ends, OneAtATime, ShownIsSure, AllProgress, Progress, Sure, Becomes, OnItsWay
<1>5. AllProgress'
    BY <1>c, <1>d DEF PushInv, PushTypeOK, OneAtATime, ShownIsSure, AllProgress, Progress, Sure, Becomes, OnItsWay
<1> QED BY <1>1, <1>2, <1>3, <1>4, <1>5 DEF PushInv

(* LookForSubscription keeps the invariant.                                *)
LEMMA LookForSubscriptionOK ==
    ASSUME PushInv, LookForSubscription
    PROVE  PushInv'
<1>a. /\ ~misshown' <=> toggles = {}
      /\ misshown' \in BOOLEAN /\ pushState = "unsupported"
      /\ pushState' = IF device = NoEndpoint THEN "off" ELSE "on"
      /\ UNCHANGED <<device, rows, pushPanel, toggles, unsaved, undeleted>>
    BY DEF LookForSubscription
<1>1. PushTypeOK'
    BY <1>a DEF PushInv, PushTypeOK, Becomes, OnItsWay
<1>2. RowsAreHeld'
    BY <1>a DEF PushInv, PushTypeOK, RowsAreHeld, Ends, Becomes, OnItsWay
<1>3. OneAtATime'
    BY <1>a DEF PushInv, PushTypeOK, OneAtATime, Becomes, OnItsWay
<1>4. ShownIsSure'
    BY <1>a, PushAssumption DEF PushInv, PushTypeOK, RowsAreHeld, Ends, OneAtATime, ShownIsSure, AllProgress, Progress, Sure, Becomes, OnItsWay
<1>5. AllProgress'
    BY <1>a DEF PushInv, PushTypeOK, OneAtATime, ShownIsSure, AllProgress, Progress, Sure, Becomes, OnItsWay
<1> QED BY <1>1, <1>2, <1>3, <1>4, <1>5 DEF PushInv

(* TogglePush keeps the invariant.                                         *)
LEMMA TogglePushOK ==
    ASSUME PushInv, TogglePush
    PROVE  PushInv'
<1>a. PICK u : /\ toggles' = toggles \cup {u} /\ IsToggle(u) /\ u.mine
               /\ u.wasOn <=> pushState = "on"
               /\ u.at = IF pushState = "on" THEN "find" ELSE "ask"
               /\ u.alone <=> toggles = {}
  <2>1. PICK n : toggles' = toggles \cup
          {[wasOn |-> pushState = "on", at |-> IF pushState = "on" THEN "find" ELSE "ask",
            of |-> NoEndpoint, mine |-> TRUE, alone |-> toggles = {}, nr |-> n]}
    BY Zenon DEF TogglePush
  <2> DEFINE u == [wasOn |-> pushState = "on", at |-> IF pushState = "on" THEN "find" ELSE "ask",
                   of |-> NoEndpoint, mine |-> TRUE, alone |-> toggles = {}, nr |-> n]
  <2>2. u \in Operation(u.nr)
    BY DEF Operation, Phases
  <2>3. /\ u.wasOn <=> pushState = "on"
        /\ u.at = IF pushState = "on" THEN "find" ELSE "ask"
        /\ u.mine /\ (u.alone <=> toggles = {})
    OBVIOUS
  <2>4. OnItsWay(u.wasOn, u.at, u.of)
    BY <2>3 DEF OnItsWay
  <2> HIDE DEF u
  <2>5. IsToggle(u)
    BY <2>2, <2>4, Zenon DEF IsToggle
  <2> QED BY <2>1, <2>3, <2>5 DEF u
<1>b. pushState' = "busy" /\ pushState \in {"on", "off"} /\ \A t \in toggles : ~t.mine
  <2>1. pushState' = "busy" /\ pushState \in {"on", "off"}
    BY Zenon DEF TogglePush, Offered, PushInv, PushTypeOK
  <2> QED BY <2>1 DEF PushInv, OneAtATime
<1>c. UNCHANGED <<device, rows, pushPanel, unsaved, undeleted, misshown>>
    BY DEF TogglePush
<1>1. PushTypeOK'
    BY <1>a, <1>b, <1>c DEF PushInv, PushTypeOK
<1>2. RowsAreHeld'
    BY <1>a, <1>b, <1>c DEF PushInv, PushTypeOK, RowsAreHeld, Ends
<1>3. OneAtATime'
    BY <1>a, <1>b, <1>c DEF PushInv, PushTypeOK, OneAtATime
<1>4. ShownIsSure'
    BY <1>a, <1>b, <1>c DEF PushInv, PushTypeOK, RowsAreHeld, Ends, OneAtATime, ShownIsSure, AllProgress, Progress, Sure
<1>5. AllProgress'
    BY <1>a, <1>b, <1>c DEF PushInv, PushTypeOK, OneAtATime, ShownIsSure, AllProgress, Progress, Sure
<1> QED BY <1>1, <1>2, <1>3, <1>4, <1>5 DEF PushInv

(* Grant keeps the invariant.                                              *)
LEMMA GrantOK ==
    ASSUME PushInv, NEW t \in toggles, Grant(t)
    PROVE  PushInv'
<1> DEFINE u == [t EXCEPT !.at = "subscribe"]
<1>a. IsToggle(t) /\ t.wasOn \in BOOLEAN /\ t.mine \in BOOLEAN /\ t.alone \in BOOLEAN
      /\ OnItsWay(t.wasOn, t.at, t.of) /\ misshown \in BOOLEAN
    BY ToggleParts DEF PushInv, PushTypeOK
<1>b. toggles' = (toggles \ {t}) \cup {u} /\ t.at = "ask"
    BY DEF Grant, Go
<1>c. Becomes(t, u, "subscribe", t.of, t.mine)
  <2>1. OnItsWay(t.wasOn, "subscribe", t.of)
    BY <1>a, <1>b DEF OnItsWay
  <2>2. "subscribe" \in Phases
    BY DEF Phases
  <2> QED BY <1>a, <2>1, <2>2, StepsAt, Zenon
<1>d. UNCHANGED <<pushPanel, pushState, misshown, device, rows, unsaved, undeleted>>
    BY DEF Grant
<1> HIDE DEF u
<1>1. PushTypeOK'
    BY <1>a, <1>b, <1>c, <1>d, PushAssumption DEF PushInv, PushTypeOK, Becomes, OnItsWay
<1>2. RowsAreHeld'
    BY <1>a, <1>b, <1>c, <1>d, PushAssumption DEF PushInv, PushTypeOK, RowsAreHeld, Ends, Becomes, OnItsWay
<1>3. OneAtATime'
    BY <1>a, <1>b, <1>c, <1>d, PushAssumption DEF PushInv, PushTypeOK, OneAtATime, Becomes, OnItsWay
<1>4. ShownIsSure'
    BY <1>a, <1>b, <1>c, <1>d, PushAssumption DEF PushInv, PushTypeOK, RowsAreHeld, Ends, OneAtATime, ShownIsSure, AllProgress, Progress, Sure, Becomes, OnItsWay
<1>5. AllProgress'
    BY <1>a, <1>b, <1>c, <1>d, PushAssumption DEF PushInv, PushTypeOK, OneAtATime, ShownIsSure, AllProgress, Progress, Sure, Becomes, OnItsWay
<1> QED BY <1>1, <1>2, <1>3, <1>4, <1>5 DEF PushInv

(* SaveRow keeps the invariant.                                            *)
LEMMA SaveRowOK ==
    ASSUME PushInv, NEW t \in toggles, SaveRow(t)
    PROVE  PushInv'
<1> DEFINE u == [t EXCEPT !.at = "saved"]
<1>a. IsToggle(t) /\ t.wasOn \in BOOLEAN /\ t.mine \in BOOLEAN /\ t.alone \in BOOLEAN
      /\ OnItsWay(t.wasOn, t.at, t.of) /\ misshown \in BOOLEAN
    BY ToggleParts DEF PushInv, PushTypeOK
<1>b. toggles' = (toggles \ {t}) \cup {u} /\ t.at = "save"
    BY DEF SaveRow, Go
<1>c. Becomes(t, u, "saved", t.of, t.mine)
  <2>1. OnItsWay(t.wasOn, "saved", t.of)
    BY <1>a, <1>b DEF OnItsWay
  <2>2. "saved" \in Phases
    BY DEF Phases
  <2> QED BY <1>a, <2>1, <2>2, StepsAt, Zenon
<1>d. rows' = rows \cup {t.of} /\ unsaved' = unsaved \ {t.of}
      /\ undeleted' = (IF device = t.of THEN undeleted ELSE undeleted \cup {t.of})
      /\ UNCHANGED <<pushPanel, pushState, misshown, device>>
    BY DEF SaveRow
<1> HIDE DEF u
<1>1. PushTypeOK'
    BY <1>a, <1>b, <1>c, <1>d, PushAssumption DEF PushInv, PushTypeOK, Becomes, OnItsWay
<1>2. RowsAreHeld'
    BY <1>a, <1>b, <1>c, <1>d, PushAssumption DEF PushInv, PushTypeOK, RowsAreHeld, Ends, Becomes, OnItsWay
<1>3. OneAtATime'
    BY <1>a, <1>b, <1>c, <1>d, PushAssumption DEF PushInv, PushTypeOK, OneAtATime, Becomes, OnItsWay
<1>4. ShownIsSure'
    BY <1>a, <1>b, <1>c, <1>d, PushAssumption DEF PushInv, PushTypeOK, RowsAreHeld, Ends, OneAtATime, ShownIsSure, AllProgress, Progress, Sure, Becomes, OnItsWay
<1>5. AllProgress'
    BY <1>a, <1>b, <1>c, <1>d, PushAssumption DEF PushInv, PushTypeOK, OneAtATime, ShownIsSure, AllProgress, Progress, Sure, Becomes, OnItsWay
<1> QED BY <1>1, <1>2, <1>3, <1>4, <1>5 DEF PushInv

(* Unsubscribe keeps the invariant.                                        *)
LEMMA UnsubscribeOK ==
    ASSUME PushInv, NEW t \in toggles, Unsubscribe(t)
    PROVE  PushInv'
<1> DEFINE u == [t EXCEPT !.at = "delete"]
<1>a. IsToggle(t) /\ t.wasOn \in BOOLEAN /\ t.mine \in BOOLEAN /\ t.alone \in BOOLEAN
      /\ OnItsWay(t.wasOn, t.at, t.of) /\ misshown \in BOOLEAN
    BY ToggleParts DEF PushInv, PushTypeOK
<1>b. toggles' = (toggles \ {t}) \cup {u} /\ t.at = "unsubscribe"
    BY DEF Unsubscribe, Go
<1>c. Becomes(t, u, "delete", t.of, t.mine)
  <2>1. OnItsWay(t.wasOn, "delete", t.of)
    BY <1>a, <1>b DEF OnItsWay
  <2>2. "delete" \in Phases
    BY DEF Phases
  <2> QED BY <1>a, <2>1, <2>2, StepsAt, Zenon
<1>d. device' = (IF device = t.of THEN NoEndpoint ELSE device)
      /\ UNCHANGED <<pushPanel, pushState, misshown, rows, unsaved, undeleted>>
    BY DEF Unsubscribe
<1> HIDE DEF u
<1>e. Ends("delete")' = Ends("delete") \cup {t.of} /\ Ends("save")' = Ends("save")
    BY <1>b, <1>c DEF Ends, Becomes
<1>f. t.of \in Endpoints /\ NoEndpoint \notin Ends("delete")
    BY <1>a, <1>b, ToggleParts, PushAssumption DEF OnItsWay, PushInv, PushTypeOK, Ends
<1>1. PushTypeOK'
    BY <1>a, <1>b, <1>c, <1>d, PushAssumption DEF PushInv, PushTypeOK, Becomes, OnItsWay
<1>2. RowsAreHeld'
    BY <1>a, <1>b, <1>c, <1>d, <1>e, <1>f, PushAssumption DEF PushInv, RowsAreHeld
<1>3. OneAtATime'
    BY <1>a, <1>b, <1>c, <1>d, PushAssumption DEF PushInv, PushTypeOK, OneAtATime, Becomes, OnItsWay
<1>4. ShownIsSure'
    BY <1>a, <1>b, <1>c, <1>d, PushAssumption DEF PushInv, PushTypeOK, RowsAreHeld, Ends, OneAtATime, ShownIsSure, AllProgress, Progress, Sure, Becomes, OnItsWay
<1>5. AllProgress'
    BY <1>a, <1>b, <1>c, <1>d, PushAssumption DEF PushInv, PushTypeOK, OneAtATime, ShownIsSure, AllProgress, Progress, Sure, Becomes, OnItsWay
<1> QED BY <1>1, <1>2, <1>3, <1>4, <1>5 DEF PushInv

(* DeleteRow keeps the invariant.                                          *)
LEMMA DeleteRowOK ==
    ASSUME PushInv, NEW t \in toggles, DeleteRow(t)
    PROVE  PushInv'
<1> DEFINE u == [t EXCEPT !.at = "deleted"]
<1>a. IsToggle(t) /\ t.wasOn \in BOOLEAN /\ t.mine \in BOOLEAN /\ t.alone \in BOOLEAN
      /\ OnItsWay(t.wasOn, t.at, t.of) /\ misshown \in BOOLEAN
    BY ToggleParts DEF PushInv, PushTypeOK
<1>b. toggles' = (toggles \ {t}) \cup {u} /\ t.at = "delete"
    BY DEF DeleteRow, Go
<1>c. Becomes(t, u, "deleted", t.of, t.mine)
  <2>1. OnItsWay(t.wasOn, "deleted", t.of)
    BY <1>a, <1>b DEF OnItsWay
  <2>2. "deleted" \in Phases
    BY DEF Phases
  <2> QED BY <1>a, <2>1, <2>2, StepsAt, Zenon
<1>d. rows' = rows \ {t.of} /\ undeleted' = undeleted \ {t.of}
      /\ UNCHANGED <<pushPanel, pushState, misshown, device, unsaved>>
    BY DEF DeleteRow
<1> HIDE DEF u
<1>1. PushTypeOK'
    BY <1>a, <1>b, <1>c, <1>d, PushAssumption DEF PushInv, PushTypeOK, Becomes, OnItsWay
<1>2. RowsAreHeld'
    BY <1>a, <1>b, <1>c, <1>d, PushAssumption DEF PushInv, PushTypeOK, RowsAreHeld, Ends, Becomes, OnItsWay
<1>3. OneAtATime'
    BY <1>a, <1>b, <1>c, <1>d, PushAssumption DEF PushInv, PushTypeOK, OneAtATime, Becomes, OnItsWay
<1>4. ShownIsSure'
    BY <1>a, <1>b, <1>c, <1>d, PushAssumption DEF PushInv, PushTypeOK, RowsAreHeld, Ends, OneAtATime, ShownIsSure, AllProgress, Progress, Sure, Becomes, OnItsWay
<1>5. AllProgress'
    BY <1>a, <1>b, <1>c, <1>d, PushAssumption DEF PushInv, PushTypeOK, OneAtATime, ShownIsSure, AllProgress, Progress, Sure, Becomes, OnItsWay
<1> QED BY <1>1, <1>2, <1>3, <1>4, <1>5 DEF PushInv

(* ToggleLost keeps the invariant.                                         *)
LEMMA ToggleLostOK ==
    ASSUME PushInv, NEW t \in toggles, ToggleLost(t)
    PROVE  PushInv'
<1> DEFINE u == [t EXCEPT !.mine = FALSE]
<1>a. IsToggle(t) /\ t.wasOn \in BOOLEAN /\ t.mine \in BOOLEAN /\ t.alone \in BOOLEAN
      /\ OnItsWay(t.wasOn, t.at, t.of) /\ misshown \in BOOLEAN
    BY ToggleParts DEF PushInv, PushTypeOK
<1>b. toggles' = (toggles \ {t}) \cup {u} /\ t.mine /\ t.at \in {"save", "delete"}
    BY DEF ToggleLost, Go
<1>c. Becomes(t, u, t.at, t.of, FALSE)
    BY <1>a, StepsMine, Zenon
<1>d. pushState' = (IF t.wasOn THEN "on" ELSE "off") /\ misshown' = TRUE
      /\ UNCHANGED <<pushPanel, device, rows, unsaved, undeleted>>
    BY DEF ToggleLost
<1> HIDE DEF u
<1>1. PushTypeOK'
    BY <1>a, <1>b, <1>c, <1>d, PushAssumption DEF PushInv, PushTypeOK, Becomes, OnItsWay
<1>2. RowsAreHeld'
    BY <1>a, <1>b, <1>c, <1>d, PushAssumption DEF PushInv, PushTypeOK, RowsAreHeld, Ends, Becomes, OnItsWay
<1>3. OneAtATime'
    BY <1>a, <1>b, <1>c, <1>d, PushAssumption DEF PushInv, PushTypeOK, OneAtATime, Becomes, OnItsWay
<1>4. ShownIsSure'
    BY <1>a, <1>b, <1>c, <1>d, PushAssumption DEF PushInv, PushTypeOK, RowsAreHeld, Ends, OneAtATime, ShownIsSure, AllProgress, Progress, Sure, Becomes, OnItsWay
<1>5. AllProgress'
    BY <1>a, <1>b, <1>c, <1>d, PushAssumption DEF PushInv, PushTypeOK, OneAtATime, ShownIsSure, AllProgress, Progress, Sure, Becomes, OnItsWay
<1> QED BY <1>1, <1>2, <1>3, <1>4, <1>5 DEF PushInv

(* Deny keeps the invariant.                                               *)
LEMMA DenyOK ==
    ASSUME PushInv, NEW t \in toggles, Deny(t)
    PROVE  PushInv'
<1>a. IsToggle(t) /\ t.wasOn \in BOOLEAN /\ t.mine \in BOOLEAN /\ t.alone \in BOOLEAN
      /\ OnItsWay(t.wasOn, t.at, t.of) /\ misshown \in BOOLEAN
    BY ToggleParts DEF PushInv, PushTypeOK
<1>b. /\ toggles' = toggles \ {t} /\ t.at = "ask"
      /\ IF t.mine THEN pushState' = "off" /\ misshown' = (~t.alone \/ misshown)
                   ELSE UNCHANGED <<pushState, misshown>>
    BY <1>a, Zenon DEF Deny, Show
<1>c. UNCHANGED <<device, rows, pushPanel, unsaved, undeleted>>
    BY DEF Deny
<1>1. PushTypeOK'
    BY <1>a, <1>b, <1>c, PushAssumption DEF PushInv, PushTypeOK, OnItsWay
<1>2. RowsAreHeld'
    BY <1>a, <1>b, <1>c, PushAssumption DEF PushInv, PushTypeOK, RowsAreHeld, Ends, OnItsWay
<1>3. OneAtATime'
    BY <1>a, <1>b, <1>c, PushAssumption DEF PushInv, PushTypeOK, OneAtATime, OnItsWay
<1>4. ShownIsSure'
    BY <1>a, <1>b, <1>c, PushAssumption DEF PushInv, PushTypeOK, RowsAreHeld, Ends, OneAtATime, ShownIsSure, AllProgress, Progress, Sure, OnItsWay
<1>5. AllProgress'
    BY <1>a, <1>b, <1>c, PushAssumption DEF PushInv, PushTypeOK, OneAtATime, ShownIsSure, AllProgress, Progress, Sure, OnItsWay
<1> QED BY <1>1, <1>2, <1>3, <1>4, <1>5 DEF PushInv

(* ToggleDone keeps the invariant.                                         *)
LEMMA ToggleDoneOK ==
    ASSUME PushInv, NEW t \in toggles, ToggleDone(t)
    PROVE  PushInv'
<1>a. IsToggle(t) /\ t.wasOn \in BOOLEAN /\ t.mine \in BOOLEAN /\ t.alone \in BOOLEAN
      /\ OnItsWay(t.wasOn, t.at, t.of) /\ misshown \in BOOLEAN
    BY ToggleParts DEF PushInv, PushTypeOK
<1>b. /\ toggles' = toggles \ {t} /\ t.at \in {"saved", "deleted"}
      /\ IF t.mine THEN pushState' = (IF t.wasOn THEN "off" ELSE "on") /\ misshown' = (~t.alone \/ FALSE)
                   ELSE UNCHANGED <<pushState, misshown>>
    BY <1>a, Zenon DEF ToggleDone, Show
<1>c. UNCHANGED <<device, rows, pushPanel, unsaved, undeleted>>
    BY DEF ToggleDone
<1>1. PushTypeOK'
    BY <1>a, <1>b, <1>c, PushAssumption DEF PushInv, PushTypeOK, OnItsWay
<1>2. RowsAreHeld'
    BY <1>a, <1>b, <1>c, PushAssumption DEF PushInv, PushTypeOK, RowsAreHeld, Ends, OnItsWay
<1>3. OneAtATime'
    BY <1>a, <1>b, <1>c, PushAssumption DEF PushInv, PushTypeOK, OneAtATime, OnItsWay
<1>4. ShownIsSure'
    BY <1>a, <1>b, <1>c, PushAssumption DEF PushInv, PushTypeOK, RowsAreHeld, Ends, OneAtATime, ShownIsSure, AllProgress, Progress, Sure, OnItsWay
<1>5. AllProgress'
    BY <1>a, <1>b, <1>c, PushAssumption DEF PushInv, PushTypeOK, OneAtATime, ShownIsSure, AllProgress, Progress, Sure, OnItsWay
<1> QED BY <1>1, <1>2, <1>3, <1>4, <1>5 DEF PushInv

(* ToggleFails keeps the invariant.                                        *)
LEMMA ToggleFailsOK ==
    ASSUME PushInv, NEW t \in toggles, ToggleFails(t)
    PROVE  PushInv'
<1>a. IsToggle(t) /\ t.wasOn \in BOOLEAN /\ t.mine \in BOOLEAN /\ t.alone \in BOOLEAN
      /\ OnItsWay(t.wasOn, t.at, t.of) /\ misshown \in BOOLEAN
    BY ToggleParts DEF PushInv, PushTypeOK
<1>b. /\ toggles' = toggles \ {t}
      /\ IF t.mine THEN pushState' = (IF t.wasOn THEN "on" ELSE "off") /\ misshown' = (~t.alone \/ misshown \/ t.at \in {"delete", "deleted", "saved"})
                   ELSE UNCHANGED <<pushState, misshown>>
    BY <1>a, Zenon DEF ToggleFails, Show
<1>c. unsaved' = (IF t.at = "save" /\ t.of \notin rows THEN unsaved \cup {t.of} ELSE unsaved)
      /\ undeleted' = (IF t.at = "delete" THEN undeleted \cup {t.of} ELSE undeleted)
      /\ UNCHANGED <<device, rows, pushPanel>>
    BY DEF ToggleFails
<1>1. PushTypeOK'
    BY <1>a, <1>b, <1>c, PushAssumption DEF PushInv, PushTypeOK, OnItsWay
<1>2. RowsAreHeld'
    BY <1>a, <1>b, <1>c, PushAssumption DEF PushInv, PushTypeOK, RowsAreHeld, Ends, OnItsWay
<1>3. OneAtATime'
    BY <1>a, <1>b, <1>c, PushAssumption DEF PushInv, PushTypeOK, OneAtATime, OnItsWay
<1>4. ShownIsSure'
    BY <1>a, <1>b, <1>c, PushAssumption DEF PushInv, PushTypeOK, RowsAreHeld, Ends, OneAtATime, ShownIsSure, AllProgress, Progress, Sure, OnItsWay
<1>5. AllProgress'
    BY <1>a, <1>b, <1>c, PushAssumption DEF PushInv, PushTypeOK, OneAtATime, ShownIsSure, AllProgress, Progress, Sure, OnItsWay
<1> QED BY <1>1, <1>2, <1>3, <1>4, <1>5 DEF PushInv

(* Subscribe keeps the invariant.                                          *)
LEMMA SubscribeOK ==
    ASSUME PushInv, NEW t \in toggles, Subscribe(t)
    PROVE  PushInv'
<1> DEFINE u == [t EXCEPT !.at = "save", !.of = device']
<1>a. IsToggle(t) /\ t.wasOn \in BOOLEAN /\ t.mine \in BOOLEAN /\ t.alone \in BOOLEAN
      /\ OnItsWay(t.wasOn, t.at, t.of) /\ misshown \in BOOLEAN
    BY ToggleParts DEF PushInv, PushTypeOK
<1>b. toggles' = (toggles \ {t}) \cup {u} /\ t.at = "subscribe"
    BY DEF Subscribe
<1>c. /\ device # NoEndpoint => device' = device
      /\ device = NoEndpoint => device' \in Endpoints \ Known
  <2>1. device # NoEndpoint => device' = device
    BY DEF Subscribe
  <2>2. ASSUME device = NoEndpoint PROVE device' \in Endpoints \ Known
    <3>1. device' = CHOOSE e \in Endpoints \ Known : TRUE
      BY <2>2 DEF Subscribe
    <3>2. PICK e \in Endpoints \ Known : TRUE
      BY <2>2 DEF Subscribe
    <3> QED BY <3>1, <3>2
  <2> QED BY <2>1, <2>2
<1>d. device' \in Endpoints
    BY <1>c DEF PushInv, PushTypeOK
<1>e. Becomes(t, u, "save", device', t.mine)
  <2>1. OnItsWay(t.wasOn, "save", device') /\ "save" \in Phases
    BY <1>a, <1>b, <1>d DEF OnItsWay, Phases
  <2> QED BY <1>a, <1>d, <2>1, StepsOf, Zenon
<1>f. UNCHANGED <<rows, pushPanel, pushState, unsaved, undeleted, misshown>>
    BY DEF Subscribe
<1> HIDE DEF u
<1>1. PushTypeOK'
    BY <1>a, <1>b, <1>c, <1>d, <1>e, <1>f, PushAssumption DEF PushInv, PushTypeOK, Becomes, OnItsWay, Known
<1>2. RowsAreHeld'
    BY <1>a, <1>b, <1>c, <1>d, <1>e, <1>f, PushAssumption DEF PushInv, PushTypeOK, RowsAreHeld, Ends, Becomes, OnItsWay, Known
<1>3. OneAtATime'
    BY <1>a, <1>b, <1>c, <1>d, <1>e, <1>f, PushAssumption DEF PushInv, PushTypeOK, OneAtATime, Becomes, OnItsWay, Known
<1>4. ShownIsSure'
    BY <1>a, <1>b, <1>c, <1>d, <1>e, <1>f, PushAssumption DEF PushInv, PushTypeOK, RowsAreHeld, Ends, OneAtATime, ShownIsSure, AllProgress, Progress, Sure, Becomes, OnItsWay, Known
<1>5. AllProgress'
    BY <1>a, <1>b, <1>c, <1>d, <1>e, <1>f, PushAssumption DEF PushInv, PushTypeOK, OneAtATime, ShownIsSure, AllProgress, Progress, Sure, Becomes, OnItsWay, Known
<1> QED BY <1>1, <1>2, <1>3, <1>4, <1>5 DEF PushInv

(* Find keeps the invariant.                                               *)
LEMMA FindOK ==
    ASSUME PushInv, NEW t \in toggles, Find(t)
    PROVE  PushInv'
<1>a. IsToggle(t) /\ t.wasOn \in BOOLEAN /\ t.mine \in BOOLEAN /\ t.alone \in BOOLEAN
      /\ OnItsWay(t.wasOn, t.at, t.of) /\ misshown \in BOOLEAN
    BY ToggleParts DEF PushInv, PushTypeOK
<1>b. t.at = "find" /\ UNCHANGED <<device, rows, pushPanel, unsaved, undeleted>>
    BY DEF Find
<1>c. CASE device = NoEndpoint
  <2>a. /\ toggles' = toggles \ {t}
        /\ IF t.mine THEN pushState' = "off" /\ misshown' = (~t.alone \/ FALSE)
                     ELSE UNCHANGED <<pushState, misshown>>
    BY <1>a, <1>c, Zenon DEF Find, Show
  <2>1. PushTypeOK'
      BY <1>a, <1>b, <1>c, <2>a, PushAssumption DEF PushInv, PushTypeOK, OnItsWay
  <2>2. RowsAreHeld'
      BY <1>a, <1>b, <1>c, <2>a, PushAssumption DEF PushInv, PushTypeOK, RowsAreHeld, Ends, OnItsWay
  <2>3. OneAtATime'
      BY <1>a, <1>b, <1>c, <2>a, PushAssumption DEF PushInv, PushTypeOK, OneAtATime, OnItsWay
  <2>4. ShownIsSure'
      BY <1>a, <1>b, <1>c, <2>a, PushAssumption DEF PushInv, PushTypeOK, RowsAreHeld, Ends, OneAtATime, ShownIsSure, AllProgress, Progress, Sure, OnItsWay
  <2>5. AllProgress'
      BY <1>a, <1>b, <1>c, <2>a, PushAssumption DEF PushInv, PushTypeOK, OneAtATime, ShownIsSure, AllProgress, Progress, Sure, OnItsWay
  <2> QED BY <2>1, <2>2, <2>3, <2>4, <2>5 DEF PushInv
<1>d. CASE device # NoEndpoint
  <2> DEFINE u == [t EXCEPT !.at = "unsubscribe", !.of = device]
  <2>a. toggles' = (toggles \ {t}) \cup {u} /\ UNCHANGED <<pushState, misshown>>
    BY <1>d DEF Find
  <2>b. Becomes(t, u, "unsubscribe", device, t.mine)
    <3>1. device \in Endpoints
      BY <1>d DEF PushInv, PushTypeOK
    <3>2. OnItsWay(t.wasOn, "unsubscribe", device) /\ "unsubscribe" \in Phases
      BY <1>a, <1>b, <3>1 DEF OnItsWay, Phases
    <3> QED BY <1>a, <3>1, <3>2, StepsOf, Zenon
  <2> HIDE DEF u
  <2>1. PushTypeOK'
      BY <1>a, <1>b, <1>d, <2>a, <2>b, PushAssumption DEF PushInv, PushTypeOK, Becomes, OnItsWay
  <2>2. RowsAreHeld'
      BY <1>a, <1>b, <1>d, <2>a, <2>b, PushAssumption DEF PushInv, PushTypeOK, RowsAreHeld, Ends, Becomes, OnItsWay
  <2>3. OneAtATime'
      BY <1>a, <1>b, <1>d, <2>a, <2>b, PushAssumption DEF PushInv, PushTypeOK, OneAtATime, Becomes, OnItsWay
  <2>4. ShownIsSure'
      BY <1>a, <1>b, <1>d, <2>a, <2>b, PushAssumption DEF PushInv, PushTypeOK, RowsAreHeld, Ends, OneAtATime, ShownIsSure, AllProgress, Progress, Sure, Becomes, OnItsWay
  <2>5. AllProgress'
      BY <1>a, <1>b, <1>d, <2>a, <2>b, PushAssumption DEF PushInv, PushTypeOK, OneAtATime, ShownIsSure, AllProgress, Progress, Sure, Becomes, OnItsWay
  <2> QED BY <2>1, <2>2, <2>3, <2>4, <2>5 DEF PushInv
<1> QED BY <1>c, <1>d

(* Every step keeps the invariant, or changes nothing.                     *)
LEMMA PushStep == PushInv /\ [PushNext]_pushVars => PushInv'
<1> SUFFICES ASSUME PushInv, [PushNext]_pushVars PROVE PushInv'
    OBVIOUS
<1>1. CASE UNCHANGED pushVars
    BY <1>1 DEF pushVars, PushInv, PushTypeOK, RowsAreHeld, Ends, OneAtATime, ShownIsSure,
        AllProgress, Progress, Sure, IsToggle
<1>2. CASE OpenPushPanel \/ ClosePushPanel \/ LookForSubscription \/ TogglePush
    BY <1>2, OpenPushPanelOK, ClosePushPanelOK, LookForSubscriptionOK, TogglePushOK
<1>3. ASSUME NEW t \in toggles, Grant(t) \/ Deny(t) \/ Subscribe(t) \/ SaveRow(t)
      PROVE  PushInv'
    BY <1>3, GrantOK, DenyOK, SubscribeOK, SaveRowOK
<1>4. ASSUME NEW t \in toggles, Find(t) \/ Unsubscribe(t) \/ DeleteRow(t)
      PROVE  PushInv'
    BY <1>4, FindOK, UnsubscribeOK, DeleteRowOK
<1>5. ASSUME NEW t \in toggles, ToggleDone(t) \/ ToggleFails(t) \/ ToggleLost(t)
      PROVE  PushInv'
    BY <1>5, ToggleDoneOK, ToggleFailsOK, ToggleLostOK
<1> QED BY <1>1, <1>2, <1>3, <1>4, <1>5 DEF PushNext

(* Notifications are what the panel says they are: when it says "on", the  *)
(* server has the browser's subscription, or its saving has failed; when   *)
(* it says "off", the server has none but those whose deletion has failed  *)
(* or that were saved too late - for any number of operations at a time,   *)
(* of any number of panels after each other.                               *)
THEOREM PushTrueAlways == PushSpec => []PushTrue
<1>1. PushInv => PushTrue
  <2> SUFFICES ASSUME PushInv, toggles = {}, ~misshown
               PROVE  /\ pushState = "on" => device \in rows \cup unsaved
                      /\ pushState = "off" => rows \subseteq undeleted
    BY DEF PushTrue
  <2>1. Ends("save") = {}
    BY DEF Ends
  <2> QED BY <2>1 DEF PushInv, ShownIsSure, Sure, RowsAreHeld
<1> QED BY PushInitOK, PushStep, <1>1, PTL DEF PushSpec
=============================================================================
