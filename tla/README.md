# Verification of the Community Alerts Platform

TLA+ models of the platform's services and of the browser's dashboard, the TLC
runs that check them on small instances, and TLAPS proofs that hold for every
value of the constants.
Paths are relative to `src/`. `PROJECT.json` lists the components, the runs, the
hazards with the lines where they bite, the findings, and for every definition
the source lines it models.

Contents: [the system](#the-system) · [modules](#modules-and-the-code) ·
[runs](#runs) · [fairness](#fairness) · [proofs](#proofs) ·
[findings](#findings) · [not modelled](#not-modelled) · [plan](#plan)

## The system

Three services share a PostgreSQL database, a Redis and a LavinMQ broker.
The browser talks to the API alone.

| Component | State it keeps | Operations | What makes it correct |
|---|---|---|---|
| Alert store (`AlertService`, `CommentService`, the JPA entities) | one `alerts` row per alert, `alert_confirmations`, `alert_comments` | create, applySeverity, confirm, resolve, comment | one confirmation per account; VERIFIED is earned; counters are backed by rows; what is closed stays closed |
| Expiry sweep (`ExpirySweepService`) | none; one `UPDATE` per tick | expire what is overdue | every overdue alert ends closed |
| Scoring pipeline (`AlertEventPublisher`, ML `consumer.py`, `AlertScoredListener`) | `q.ml.alert-created`, `q.api.alert-scored`, `q.dead-letter` | publish, consume, ack, nack, retry, dead-letter | an accepted alert is scored or dead-lettered; at-least-once costs no more copies than failures |
| Worker handlers (`RabbitConsumerService`, three handlers, `NotificationDispatcher`) | `q.worker.enrichment`, `q.worker.escalation`, `q.worker.danger`, `notifications` | match zones, insert, push, ack, nack | no push twice; no zone forgotten; no message dropped or cycling |
| Watch zones and push subscriptions (`WatchZoneService`, `PushSubscriptionService`) | `watch_zones`, `push_subscriptions` | create, update, delete, claim, subscribe | one owner; subscriptions follow the owner |
| Live feed (`LiveFeedService`, Redis pub/sub, `Dashboard.tsx`) | SSE emitters; the list on each open map; the 30 s nearby cache | publish, fan out, reload | open maps converge to the store |
| Outline of a zone (`zoneShape.ts`) | none: functions on a shape | thin a drawn line, pull points out of a circle, insert, move, remove, validate | what is thinned stays near the line; what is accepted is simple; an edit never tangles |
| Zone editor (`ZoneShapeEditor`, `WatchZonePanel`, the draft in `Dashboard`) | the draft, the mode, the line being drawn; presses in closures on `window`; whether the map pans | press, drag, hold, draw, pin, undo, save, close | a gesture acts on the point it began with; nothing outlives the draft |
| Alert panel (`AlertDetailPanel`, `Presence`) | the thread, the load, the post under way; the dashboard's latest live comment | open, load, post, hear, resolve, close | the thread is the open alert's; only what is known to get lost does |
| Surfaces (`Presence`, `ModalOverlay`, every panel's key listener) | what is asked for, mounted, listening | open, close, Escape, late answers | Escape closes what is on top, and only that |
| Station layer (`StationLayer`) | markers, the key of the bounds they are for, debounce timer, epoch | pan, zoom, fetch, statistics | the map settles on the stations of its view |
| Own zones, settings and notifications (`MyZonesPanel`, `push.ts`, `Dashboard`) | the list of zones; digest and reach as shown; the switch; the browser's subscription | load, create, update, delete, claim, change, turn on and off | what is shown is so, but for named reasons |
| Notices (`Dashboard`, `LiveAnnouncer`, `Toast`) | toast, announcement, highlights, their timers | raise, take back | a toast stands its time, nothing stays |
| Bottom sheet (`useBottomSheet`) | snap, drag, `--sheet-y` | drag, flick, tap, resize | the sheet rests only at a resting place |
| Accounts (`AuthService`, `PasswordResetService`, `ProfileService`) | `users`, `password_reset_tokens` | signup, login, reset, profile | a token serves resets that overlap and none after; only an overlapping change undoes one |
| Throttling (`CredentialThrottle`, `RateLimitFilter`) | counters in Redis | count, refuse, fail open | a window goes over its limit by no more than what overlaps, and what Redis lost |
| Statistics (`StatsAggregator`, `StatsService`) | `stats:7d` | recompute, read, fall back | what is shown catches up within the lifetime |
| Digests (`DigestService`) | none (the time of day) | send at 04:00 UTC | — |
| Geometry (`GeoMath`, `WatchZoneMatcher`, `ZoneGeometry`) | none | inside, distance to edge | the three implementations agree |
| ML model (`severity.py`, `hotspots.py`) | a fitted classifier, a Redis cache | predict, cluster | — |

How they interact:

- *Calls inside a transaction.* `AlertService.create` saves the entity, sends
  `alert.created` and publishes the live event, and commits last
  (`AlertService.java:72-103`): both messages leave before the row exists for
  anybody else.
- *Messages.* `alert.created` goes to the ML service and the worker;
  `alert.scored` goes to the API and to two queues of the worker. All queues are
  durable, all consumers acknowledge by hand, all rejected messages end in
  `q.dead-letter`. (The README's table, `README.md:111-117`, and the comment of
  `RabbitConfig.java:19-25` leave out the worker's danger queue.)
- *Shared state in the browser.* `Dashboard.tsx` holds the state of most panels; a panel that
  unmounts loses its own, while its requests and the closures it left on `window` go on. Events of
  the stream, answers, timers and gestures each change that state from a callback of their own.
- *Shared rows.* The API's transactions, the listener's transactions and the
  worker's sweep write the same `alerts` row. The API's zones are read by the
  worker in the middle of a dispatch.

What is hard: the API's entities have neither `@Version` nor `@DynamicUpdate`,
so a transaction writes every column back from the copy it loaded; messages
overtake commits; redelivery follows every crash or lost connection; a handler
awaits between an INSERT and the push that depends on it; and a handler whose
connection was replaced keeps running. In the browser, requests are answered late, in another
order or never, to a panel that has meanwhile been closed, reopened or pointed at something else; state is shown
ahead of the answer and taken back; a gesture holds what it read at its press; and every surface listens for
the same key. These are the hazards the properties aim at.

## Modules and the code

### AlertRow — one alert's row and the transactions that race on it

| Model | Code |
|---|---|
| `row` | the committed `alerts` row: status, severity, the two counters |
| `confirmations`, `comments` | the committed child rows (comments only counted) |
| `overdue` | `expires_at < now()` |
| `tx[t]` | the transaction of thread `t`: which service method, how far, for whom, and the copy of the row it loaded |
| `BeginX(t)` | the method up to its early returns and exceptions; loads the copy |
| `CheckUnconfirmed`, `InsertConfirmation`, `InsertComment`, `SendCreated` | the statements in between, each seeing what is committed then |
| `Announce` | `publishLive`, before the commit |
| `Commit` | flush and commit: *every* column of the copy (`Written`), unless it equals what was loaded (Hibernate's dirty check) |
| `Sweep` | the worker's single `UPDATE`, which touches the status only |

`InsertConfirmation` waits for an uncommitted row with the same key and fails on
a committed one, as PostgreSQL's unique index does. A transaction may abort at
any step.

`AlertLedger` is what the row and its confirmations promise a reader who sees no
transactions: confirmations only grow, by one account other than the reporter at
a time, a stored alert stays stored, and its status is VERIFIED only on a quorum.
`KeepsLedger` instantiates it with `status <- row.status`,
`confirmers <- Confirmers`, `Quorums <- Enough`.

### AlertPipeline — the score's way from create to row

EXTENDS AlertRow and gives `create` and `score` their surroundings. `ready`
counts the alert's copies in each queue; `scorer[m]` is ML replica m between
taking the message and acknowledging it; `listener[l]` is a listener thread's
attempt at a message and whether the broker still regards it as held. `Fail` is
Spring's retry interceptor: another attempt, then reject without requeue; `NackCreated` is the ML consumer's
`except Exception`, which dead-letters at once.
`BrokerDown` makes ready everything unacknowledged, while listeners (not the ML
replica, whose next channel call fails) go on working. The threads that deliver
scores are `Listeners`, a subset of AlertRow's `Txns`, so their transactions
overlap the reporter's and each other's. Confirmations, comments and resolves
are left out here: an overlapping resolve may write the old severity back over a score
(AlertRow's `Commit`; see the remarks under [findings](#findings)), and in this module nothing else writes severity, so that
`row.severity = verdict` says the score *was applied*.

The model's verdict on a description does not change between deliveries
(`predict` is a function of category and description), so `verdict` is chosen
once; `UNSCORED` stands for abstaining.

### NotificationDispatch — the worker telling zones of one alert

`alert`, `grade` are what the handlers read of the alert; `zones`, `place`,
`subs`, `notes` are the rows of `watch_zones`, `push_subscriptions`,
`notifications`. `queue`, `dead`, `served` follow the messages of the three
queues. `job[h]` is a handler: `match` before its queries, then `loop` over
`todo`; `fresh` is the zone whose notification it has just inserted, `sends` the
pushes still to send. A zone's geometry is abstracted to its *place*: which calls
of `FindMatches` return it and how its edge distance ranks among the zones of its
owner and against the owner's reach. The order of the `foreach` is any order
(the SELECTs have no ORDER BY). `MoveZone` and `DeleteZone` are the API's update
and delete as the worker sees them. A handler whose connection was replaced is
one with `held = FALSE`: it works on and cannot acknowledge. Each `Handlers`
element is a worker replica's loop or such an orphan; the channel's prefetch is
abstracted to "takes one when free". The webhook leaves no state and is left out.

### ZoneOwnership — who owns a zone, and who hears of it

| Model | Code |
|---|---|
| `zones`, `subs` | the committed `watch_zones` and `push_subscriptions` rows: the owner columns `user_id` and `owner_fingerprint`, and a zone's contents as one opaque value |
| `Legacy` | zones from before `V4__watch_zone_ownership.sql`, which have no owner |
| `inserted` | the identity column: a subscription deleted and saved again is another row |
| `tx[t]` | the transaction of a request thread: the operation, for whom, the copies it loaded, the subscriptions its bulk UPDATE has locked |
| `CreateZone` | `WatchZoneService.create`, a lone INSERT |
| `BeginUpdate`, `BeginDelete`, `BeginClaim` | the service method up to its SELECT; `findOwned`'s 404 changes nothing |
| `ClaimSubscriptions` | `claimByFingerprint`, the JPQL UPDATE that runs before the commit and waits for rows another claim has locked |
| `BeginSave`, `BeginUnsubscribe` | `PushSubscriptionService` up to its read |
| `CommitZones`, `CommitDelete`, `CommitInsert`, `CommitReown`, `CommitUnsubscribe` | flush and commit: changed copies are written back whole; a row that has gone fails the transaction |
| `Prune` | the worker's removal of a subscription its push service answers 404 or 410 for |
| `Abort` | any failure, including the stale row, the unique violation and the deadlock |

`creator`, `saver` and `presented` are history variables: whom a zone was created
for, whom a subscription was last saved for, and which account claimed with which
fingerprint. The state properties are stated against them, because the rows alone do not say
how they came by their owner. A subscription's keys are minted with its endpoint, so they
are left out: a repeated save can change the owner only. The fingerprint is whatever
the client's header says; the model lets every request show any.

### LiveFeed — what open maps show of an alert

EXTENDS AlertRow, whose transactions now tell somebody what they do.

| Model | Code |
|---|---|
| `news[m]` | live events on the way to map m (Redis channel, replica, SSE stream) and responses to the requests m sent |
| `load[m][s]` | a run of `loadEverything`: asked and missed the cache, queried, answered |
| `cache` | the `alerts:nearby:...` entry of the maps' grid cell; it has a lifetime of 30 s |
| `swept` | rows an `ExpireOverdueAsync` has returned and the loop has not published yet |
| `shown[m]` | the alert in the dashboard's `alerts` list, or `NoRow` |
| `PublishLive` | `publishLive` of both services, *before* the commit, with the copy of the publisher |
| `Respond`, `RespondClosed` | commit, and the response the dashboard upserts; `resolve`'s early return |
| `SweepOnce`, `PublishSwept` | the worker's `UPDATE`, then one publication per returned row |
| `Hear`, `Miss` | the event handler's `upsertAlert` or comment counter; an event lost with its stream |
| `AskHit`, `AskMiss`, `Query`, `Fill` | `findNearby`, its cache read, its SELECT, its cache write |
| `Receive`, `Lose` | `setAlerts(nearby.value)`; a failed request, which leaves the list alone |
| `Write` | AlertRow's other steps |

`Publish` reaches any set of maps: whether a stream is down, a replica lost Redis or Redis
refused the message makes no difference to what a map shows, so none of them has a variable.
News is a set because the listener container hands every message to a thread of its own: events
arrive in any order, and two equal ones in flight count as one. A map
is followed from its last change of centre, since a change abandons the loads under
way (`cancelled`). `Slots` are the reloads one map may have under way. Left out: the 500-row
limit, the highlight and announcement of an event, and the detail panel's thread.

### ShapeEdits, ZoneShape — the outline of a hand-shaped zone

`ShapeEdits` is the data of `lib/types.ts` with the edits of `zoneShape.ts` that do not look at
coordinates: `InsertPointAt`, `MoveHandle`, `RemoveHandle`, `JoinPieces`, `PenDownAction`. Both modules below
use it. `ZoneShape` adds coordinates, as whole numbers.

| Model | Code |
|---|---|
| `shape` | the draft's shape, going through the edits one after the other |
| `line`, `thin` | the argument of `freehandShape`, and `simplify`'s stack, kept points and tolerance; one iteration of its loop is a step |
| `ThinAgain` | the doubling of the tolerance while more than `MaxPoints` points are kept |
| `Stretch`, `PulledRing` | one pull of `pulledRing` and the arc to the next; a pull is its bearing and the half-angle of its cone |
| `HasCrossingEdges`, `ValidateOutline` | the same functions; a distance is compared as a square |
| `ContainsPoint` | the worker's ray crossing (`GeoMath.ContainsPoint`), which matches alerts against what the browser accepted |
| `NearestSegment` | where a grabbed point goes; fractions are compared by cross-multiplication |

The projection to metres, the sphere and rounding are left out: the models say what the algorithms do with exact
coordinates. `Simplified` (by recursion on the stretch), `Meet` (by boxes and sides), `Winding` and
`InBand` are independent definitions the code's are compared with. `InsertPull` takes the segment that is nearest to a
press on the edge to be the one whose bearings hold it, which fails only so near a pull's point that its handle takes the press.

### ZoneEditor — a zone being shaped

| Model | Code |
|---|---|
| `draft`, `saved`, `mode`, `penDown`, `pieces`, `stray` | `zoneDraft`, `editingZone`, `zoneMode`, `penDown`, `freehandPieces`, `startedAwayFromEnd` of the dashboard |
| `drag` | the closure of `drag()`: the draft and shape at the press, the index, `moved`, `held`, `created`, `wasDraggable` |
| `hold` | the 600 ms timer of a long press |
| `stroke`, `pin` | the closures of a line being drawn and of the pin |
| `panning`, `restore` | `map.dragging.enabled()`, and what the effect of "drawing" will put back |
| `Settle` | what the render after a change of the draft does: an editor that unmounts ends its drag, the effect of "drawing" runs or is cleaned up |
| `GrabEdge`, `GrabHandle`, `DragTo`, `LongPress`, `Release`, `DoubleClick` | the presses on the edge and on handles |
| `PenStart`, `PenStray`, `PenMove`, `PenUp`, `PenFinish`, `FinishFreehand` | drawing; a finished line is any outline `freehandShape` can return |
| the other `Panel` actions | map clicks and the key "n", the buttons and the slider of `WatchZonePanel`; `CloseZone` is also the answer to a save, which may be late |

A handler and its render are one step, for React flushes both before the next press, click or
key. Two fingers may be down: the second press ends the drag of the first.

### AlertPanel — an alert's thread

`thread`, `closed` are the server's; `news` the live events on their way; `detail`, `listed`, `slot` the
dashboard's `detailAlertId`, `alerts` and `liveComment` (with whether the panel has rendered it yet);
`panel`, `shown`, `loading`, `load`, `posts` the panel's. `Render` is what a new `detailAlert`
causes: one panel instance serves every alert it is pointed at until it unmounts, 200 ms after it was
closed. `gaps` is a history variable: the comments the thread may miss, each put there by one of four
events.

### Surfaces — what Escape closes

`asked` are the surfaces the state asks for, `mounted` those in the document (the leaving ones included),
`heard` the window's listeners in the order the browser calls them, `due` whether effects of
the last render are still to run. `Escape` hands the key to the listeners one after the other:
`Round[n]` is what the first n of them have made of it; after each, React renders, so that the listeners of what was closed are gone, those registered anew are not
called for this key, and `InWay` (the `querySelector` of `OPEN_MODAL` and `OPEN_ZONE_PANEL`) sees the new document. `Stable`
are the surfaces whose `onClose` is memoized; the others listen anew with every render and so move to the
end of the order.

### Stations, AccountSettings, ZoneList, PushToggle — panels that wait for answers

| Module | State | What goes wrong in it |
|---|---|---|
| `Stations` | `lastKey`, `markers`, the debounce `timer`, `fetches` with whether their epoch is current; `stats`, `asks` | pans within the debounce, zooms past the gate, late and failed fetches |
| `AccountSettings` | the account's `profile` row on the server; `showing`, `busy`, `profileLoad`, `changes` of the panel; the dashboard's `session` and the `stored` one | two changes write the whole row back; an answer is lost; the load is late; another tab signs in |
| `ZoneList` | the `server`'s zones; `list`, `loads`, `writes`, `claim` | loads overtake loads and writes; an optimistic deletion fails |
| `PushToggle` | the browser's subscription `device`, the server's `rows`, `toggles` under way, `pushState` | a step of several fails; steps go on in a closed panel and overlap those of the next |

Each has a history variable (`doubted`, `wrong`, `unsaved`/`undeleted`/`misshown`; in `Stations` the
code's own failure) that names the reasons for which what is shown may be wrong, and the property says that nothing else
makes it wrong. Every reason is needed: without any one of them TLC finds the property violated.

### Notices, BottomSheet — what stands on the screen, for how long and where

`Notices`: `timers` are the `setTimeout`s still to fire, `raised` the time since each notice was last raised; time
passes in ticks. Timers of one kind with the same time left count as one, which fires twice to the
same effect. `BottomSheet`: `snap`, `dragging`, `grip` (`dragRef`) and `offset` (`--sheet-y`) of the
hook, the `viewport`, whether the media query matches (`narrow`) and whether React has heard of it (`isSheet`),
and the fingers whose pointer the handle captured.

### Accounts, Throttle, StatsSnapshot — what the services keep besides alerts and zones

`Accounts`: `users` and `tokens` are committed rows, `request` the transactions: each reads rows one after the
other and writes them whole at its commit. `chosen`, `uses`, `takenBack` are history variables: the password last chosen,
the resets a token was good for, the accounts whose password a profile change put back.

`Throttle`: `counts` are the counters in Redis, a key being a principal in one window; `signIn[t]` is how far
the thread is in `CredentialThrottle.guard`: between the two checks, at the password, between the two increments. `LimitWrite`
is the filter, which adds first. `used` and `missed` are history variables: what a window has let through, and
how much of it Redis did not count, forgot or was not there to refuse.

`StatsSnapshot`: `snapshot` is the key `stats:7d`, `work[c]` a computation: the seven days are counted back when it starts, and it is
stamped then by the worker, but after its queries by the API. The counts are abstracted to whether they are the `current` ones; `quiet` is
the time since they last changed. An alert that is reported or scored (`Change`) dates the computations that have begun to query;
one that leaves the seven days (`Leave`) those as well that have counted them back already.

`SeqFolds` has the two recursions along a sequence that `Surfaces` and `ZoneShape` use: the members that are in a set, and the sum.
`MCAlertPipeline`, `MCNotificationDispatch`, `MCZoneOwnership`, `MCZoneShape` and
`MCZoneEditor` add the symmetry sets, small values and bounds the configurations use (no symmetry where a run checks liveness).
`MCAnswers`, `MCScreen` and `MCServer` join modules that share no variable and no action: `part` chooses one, which moves while the
others stand still. Definitions named `Faulty...` are
plausible slips, one per property; with one in place of the definition it
follows, TLC finds that property violated.

## Runs

| Run | Instance | Checks |
|---|---|---|
| `alert_row` | 3 accounts and devices, 2 transactions, threshold 2, 1 comment; 403 k states | `OneConfirmationPerUser`; `CountsBacked`; `SettledForGood`; `KeepsLedger`; `OverdueCloses` |
| `pipeline` | 2 ML replicas, 2 listeners, 2 attempts, 2 faults, 1 outage; 128 k states | `NothingLost`; `CopiesBounded`; `EventuallyScored`; `EventuallyDrained` |
| `dispatch` | 2 handlers, 2 zones of one account, 1 device, 1 touched zone, 1 fault; 2.7 M states | `AtMostOncePush`; `ServedMeansNotified`; `NothingDropped`; `SettledUserHearsOnce` |
| `dispatch_live` | the same with 1 zone | `Drained` |
| `zone_ownership` | 2 accounts, 2 fingerprints, a legacy and a new zone, 1 endpoint, 2 transactions, 2 inserts; 706 k states | `RightfulOwners` |
| `live_feed` | the reporter with 2 transactions, 1 comment, 1 map with 1 reload at a time, 2 messages on their way; 409 k states | `GoneForGood`; `MapsConverge` |
| `zone_shape` | lines of up to 5 points on a 3 × 2 grid, outlines of 3 to 5 points, up to 3 pulls of 3 widths on a circle of 8 bearings; 94 k states | `WithinTolerance`; `ThinningEnds`; `AcceptedIsSimple`; `GrabKeepsArea`; `GoesRoundOnce`; `EditsKeepOrder` |
| `zone_editor` | 2 places, 2 radii, 2 pulls, outlines of 3 or 4 points, lines of up to 2 pieces of 3 points; 308 k states | `HoldIsFresh`; `CircleMatches`; `NothingOutlives`; `DragMovesOnlyNew` |
| `late_answers` | 2 alerts, 2 comments; 2 views; 2 accounts with 2 values of each setting; 2 zones, one of them to be claimed, 2 loads; 3 endpoints, 2 toggles; 2.2 M states | `ThreadIsOwn`; `OnlyKnownGaps`; `StationsSettled`; `SettingsTrue`; `ListIsTrue`; `PushTrue` |
| `screen` | all 8 surfaces, 4 of them at a time, 1 request on its way; 2 texts, 2 alerts, toasts of 2 and announcements of 3 ticks; viewports of 25 and 50 units, 2 fingers, 5 places; 536 k states | `TopmostOnly`; `EscapeActs`; `NoticesEnd`; `SheetSettles` |
| `server_state` | 1 account, 2 passwords, 2 settings, 2 tokens, 2 requests; 3 sign-ins to 2 accounts from 1 address, limits of 1 and 2; 2 workers and 1 request, a lifetime of 2 ticks; 213 k states | `ResetsHold`; `WindowsHold`; `StatsCatchUp` |
| `resolved_stays` | as `alert_row`, with a score | violates `ResolvedStays`: [findings](#findings) |

Why the bounds are enough to be interesting. *AlertRow*: two overlapping
transactions already produce every lost update (a third can only overwrite the
overwriter), two non-reporting accounts with threshold 2 make verification need
both, and each account has a second device to try. `Scores = {}`: a score writes the row in the way any
stale copy does; `pipeline` and `resolved_stays` have it. *Pipeline*: `MaxAttempts = 2`
has a retry and a last failure; two faults and an outage allow a duplicate to be
duplicated again and to race its original on the other listener. `Scores` is a
singleton since one alert has one verdict. *Dispatch*: one fault plus one
`alert.scored` already gives a redelivery to one handler while the other, orphaned,
is still in its loop; two zones of one account let the nearest change; the four
places are inside, inside only when widened (and farther than the owner's reach), and two
outside but within reach, one nearer than the other, so each condition of the three handlers is both met and missed.
*ZoneOwnership*: two accounts and two fingerprints tell the right claimer from another;
two transactions make every pair of operations overlap on the one zone and the one
subscription; the second insert lets a transaction hold a subscription that was deleted and
saved again; the legacy zone is what an over-eager query would hand out. *LiveFeed*: maps do not
influence each other except through the one cache, which a map fills for itself as well; two
messages on their way arrive in either order; two transactions overlap, so that events and commits
disagree; the reporter alone can create, comment and resolve, and the sweep expires. `Threshold = 1` and
`Scores = {}` because confirm and score would write the row in no new way.

*ZoneShape*: `MaxPoints = 4` (500 in the code) lets a line of five points be thinned again, past the
least number of points too, and an outline grow to one point too many; the grid has collinear, touching, crossing and
folded outlines; cones of 0, 1 and 2 eighths are a pull on the circle, a narrow and a wide one, and three of
them overlap, nest and meet. *ZoneEditor*: an outline of four points can lose one and then none; two pieces meet at one
joint; two places tell a moved point from one that stayed. `Simple` keeps to one moved point, none while a line is drawn,
and leaves the pin alone while anything else is pressed. *Surfaces*: `Few` allows four surfaces, asked for or
leaving, which has every pair of panels under two dialogs, and one request, since an answer's
effect does not depend on the others'. *MCAnswers*: two of everything that can overtake one another; `Few` holds posts and
events to two together, list requests to three and changes to one while the settings load; `MaxChanges` is one per
setting, since a control is disabled while its change is on its way; a third endpoint is one that is neither the
browser's nor the one being deleted. *MCScreen*: `ToastTime < LiveTime` as in the code; two viewports of
different heights, in one of which "half" lies below "peek"; the places are above, between and below the resting places. *MCServer*: two requests overlap in
every way one reset and one profile change can, and a second token lets a later reset set right what an overlap undid; three sign-ins
go over a limit of one by two, two accounts share the address's counter, and Redis fails or forgets twice; a window sees five
failures or five writes; two computations of the worker overlap with one of the API while the clock runs for two lifetimes. No bound limits a proof.

A state of a CONSTRAINT's complement is checked against the invariants and not explored further.
Symmetry is used where a run has invariants only, over model values the module treats alike.

Assumptions about what is not in the repository: React 18.3.1 flushes a render caused by a discrete event, and
its effects, before the next listener is called, and defers the effects of other renders; between two keys or clicks
of the user the browser shows what the first opened (`Seen`); one dashboard is open in the tab; in `ZoneList` the session stays; in `PushToggle` the
browser supports push; the services share one clock in `StatsSnapshot`; in `BottomSheet` lengths are whole units and viewport heights multiples of 25 of them,
so that percentages are exact.

`CHECK_DEADLOCK FALSE`: the pipeline and the dispatch follow one alert, and stop
when its messages are handled and the bounded failures are spent; a line that `freehandShape` refuses ends `ZoneShape`.
In the others somebody can always begin something.

## Fairness

- AlertRow: `WF(Sweep)` — `ExpirySweepService` ticks for ever, every hour
  (`ExpirySweepService.cs:22-30`; the README's "every 5 minutes", `README.md:83`, is out
  of date), catching every exception. `WF(Serve(t))` per thread — a request thread
  goes on with its statements. Nobody has to send a request; nothing has to abort.
- AlertPipeline: `WF(BrokerUp)` — outages end, both services reconnect in a loop;
  `WF(Score(m))`, `WF(Listen(l))` — a live consumer goes on. No fairness on the
  reporter's thread (so `EventuallyScored` asks for a stored row), on the sweep, or
  on any failure.
- LiveFeed: `WF(Forget)` — Redis drops the cache entry when its 30 s are over; `WF(Reload(m, s))` —
  the minute's interval fires again and again (`Dashboard.tsx:261`) and the API goes on with what it
  was asked; `SF(Receive(m, s))` — requests may fail any number of times, but not all of them for
  ever. Nothing is assumed of the stream: no event has to arrive. `MapsConverge` has the
  premise that from some point on no transaction runs.
- ZoneShape: `WF(Thin)` — `simplify` and the loop round it are straight-line code that runs to its end.
- ZoneOwnership, ZoneEditor, and the parts of MCAnswers, MCScreen and MCServer: none; they have no
  liveness property. Nothing obliges a request to be answered.
- NotificationDispatch: `WF(Run(h))` per handler. None on users, the API's commit or
  the ML service.

## Proofs

`tlapm` checks every theorem below, for any accounts, devices, threads, replicas, limits, lifetime,
handlers, zones, threshold and numbers of faults, alerts and comments, views, settings, subscriptions, notices, viewports,
and shapes of any length. Where a theorem's property is also
checked by a run, `PROJECT.json` names it; the type invariants, `VerifiedIsEarned`,
`OneOwnerEach`, `OnlyHoldersChange` and `DeletedStays` hold by proof alone.

**Alert_proofs**, one row. The invariants of AlertRow are not inductive: a commit
writes an old copy, so nothing about the new row follows from the old one.
`IInv` adds that every copy held by a transaction is itself backed
(`CopyOK`: counters no larger than the rows committed *now*, VERIFIED only at the
threshold), that at most one transaction creates, that uncommitted
confirmations belong to different accounts that have no committed one
(`InsertsApart`, `TxOK`), and that the reporter never confirms. Copies stay backed because child
rows are never deleted; a commit's `count + 1` is backed because the commit adds the
row in the same step. Theorems: `TypeCorrect`, `Uniqueness`, `Backing`,
`Verification`, `Settling` (an action property: a settled alert only has copies that
are closed, and no method opens a closed copy), `Refinement` (AlertRow implements
AlertLedger: create maps to `File`, a committing confirm to `Vouch`, all else to `Move`
or a stutter).

*Pipeline.* `PipeInv` adds to `NothingLost` that only listeners run
`score` and with the verdict, that a listener with a transaction has a message in hand,
that nothing is downstream of an abstention, and that no copy knows of a score the row
has lost — without it the dirty check could skip the UPDATE and the ack would
still follow. Theorems: `PipeTypeCorrect`; `PipeRefinesRow` (`PipeSpec => Spec`: with
the queues forgotten the pipeline is a run of AlertRow, so AlertRow's theorems hold of
it); `Delivery` (`NothingLost` whatever fails).
`CopiesBoundedAlways` counts the copies of the alert: `CopiesInv` says that they are at most `Due`, the accepted send, one
per crash and one per replica and outage, and, what keeps the send from being counted twice, that a create that has yet to
send finds the alert unsent and is the only one (`CreatesOnce`). Sets of replicas and listeners are counted by `OneChanges`,
one member at a time; each kind of step then says by how much it moves each counter, and `StillBounded` adds that up.

*Live feed.* `FeedWatches` (`LiveSpec => Spec`) carries AlertRow's theorems over.
`LiveInv` is AlertRow's `IInv`, the types, and that what a sweep has returned is closed.
`GoneStays` takes `GoneForGood` from AlertRow's `Settling`: while the alert is settled every copy a
transaction can publish is closed, a query finds nothing, and what was on its way says nothing else.
`LiveTypeCorrect` for the types.

**NotificationDispatch_proofs.** Five invariants, each on top of the types.
`PushInv`: the handler that tells a zone has inserted its row, the row outlives everything
but the zone, so no other handler tells that zone for that queue and nothing was sent before
(`PushedOnce`). `ServeInv`: a zone that stayed put is in every match and stays in `todo`
until its row exists (`ServedNotifies`). `DropInv`: a free handler holds nothing
(`MessagesKept`). `HearInv`: of a user whose zones stayed put, every note and every zone still in `todo` is rightly so —
an escalation's hears the escalation, and a danger's user has no zone that does and none that is nearer — because the danger handler leaves
out a user with any such zone (`Warned`) and none has moved or gone since (`HeardOnce`, which the order of the two queues does not
enter). `DispatchTypeCorrect` for the types.

**Server_proofs**, accounts. `ResetsHold` counts how often a token was used, and nothing in it says when it may be used again.
`AccountsInv` adds that uses and resets under way with a token never exceed the number of threads and that an unused token
has not been used at all, so that whoever finds it unused still has room (`Spent`); that the rows a token or a
request refers to stay (`TokenOK`, `RequestOK`), since nothing deletes accounts; and that a profile change writes the
password it read, so that its commit loses a reset only if one came in between. `ResetsHoldAlways` follows (`AccountsInvariant`).

*Throttle.* Of a key, `Holders` are the threads past its limit check that have not failed, `Owers` those that have
failed and not counted it. `ThrottleInv`: the failures of a window are the counter, the owers and what was missed,
within the misses (`FailuresOK`), and failures plus holders stay within the limit, the other threads and the misses. A
thread that passes the check is neither a holder nor an ower, so there are at most N − 1 of them (`RoomForOne`);
`KeyStep` then gives the four ways a thread's step can touch a key. `WindowsHoldAlways` follows, with the writes, which are
counted first (`WritesOK`).

*Statistics snapshot.* `StatsInv` carries the bound of `StatsCatchUp` back through a computation: while its
queries run, what is out of date has been so no longer than they have; once stamped, no longer than the age of
the stamp and their time; and the snapshot inherits that whichever write came last. `CatchesUp` follows.

*Zone ownership.* As in AlertRow, a commit writes an old copy. `ZInv` adds to the
types that every loaded copy is rightly owned with respect to the zone's creator, however old
it is (`CopiesOK`: the creator never changes and `presented` only grows), that a claim's copies are
anonymous and its pair is on record (`RequestOK`), that what a bulk UPDATE has locked is still
there and still has the claimer's fingerprint, and that no two transactions have locked the same row (`TxnsOK`).
Theorems: `ZoneTypeCorrect`; `EitherOr` (`OneOwnerEach`); `RightfulAlways`;
`HoldersOnly` and `DeletedForGood` (action properties).

**Dashboard_proofs** holds the parts of the dashboard that wait for answers and timers, each by an inductive invariant of its own.

- *Alert panel* (`PanelInv`). `OnlyKnownGaps` speaks of a thread that has loaded; what makes it inductive is the same for an
  answer under way: what the thread has and the answer does not is in the news, in the slot or in the gaps (`AllAccounted`).
  `OwnOnly` does this for `ThreadIsOwn`, with every answered post recorded in `own`, and `PanelIsThere` ties loads and awaited posts
  to the alert on screen. Theorems `PanelInvariant`, `ThreadIsOwnAlways`, `OnlyKnownGapsAlways`.
- *Stations* (`StationsInv`). A fetch or timer whose epoch is current is of the view that is shown (`OfThisView`), and the
  last key is that of the markers, so that whoever skips the fetch because of the key already shows its answer
  (`LayerInv`). `StationsSettledAlways`.
- *Settings* (`SettingsInv`). What a change would take back, and what a load has found and no change has made late, are the
  account's (`TakesBack`, `FoundIsStored`); a change that nobody awaits any more has put its setting in doubt (`OrphansDoubted`).
  `SettingsTrueAlways`.
- *List of zones* (`ListInv`). While nothing is on its way that replaces the list, every zone is in it as it is stored, or
  as it was before a write whose answer is awaited (`Followed`); a write that has been carried out and not been passed is what the server
  has (`WritesInv`), and an answer that is not late is the server's state (`AnswersInv`). `ListIsTrueAlways`.
- *Push switch* (`PushInv`). Every row is the browser's, or being deleted, or its deletion failed, and the other way round
  (`RowsAreHeld`); an operation that was started alone and is still awaited is the only one (`OneAtATime`), and how far it is says whether the browser has a
  subscription (`Progress`). `PushTrueAlways`.

**Screen_proofs**, of what stands on the screen beside the panels' content.

- *Surfaces* (`SurfacesInv`). What Escape closes is a recursion along the listeners (`Round`): `RoundEnds` says, by
  induction on how many have been called, that either all of them have left the key alone or one has taken it, what
  has closed since is what `TopmostOnly` allows, and only panels that keep their listeners are still to be called.
  What it needs of the listeners when the key comes is the invariant: those that listen are those that are shown
  once the effects have run (`ListenersAre`), and no dialog's listener comes before that of a panel that keeps its
  own (`DialogsLast`), since a panel with a stable `onClose` was on the screen before the dialog or came with it
  (`StableFirst`). `ListenersInvariant`, `EscapeClosesTopmost`, `EscapeNeverLost`.
- *Notices* (`NoticesInv`). What is up has a timer that started when it was last raised and runs as long as its life
  (`HasTimer`); a toast's timers are that one only (`ToastsOnly`). `NoticesEndAlways`.
- *Bottom sheet* (`SheetInv`). The property is inductive with the types; that `Nearest`'s choice exists, with the order breaking
  ties, is `NearestRests`. `SheetSettlesAlways`.

**ZoneEditor_proofs.** `EditorInv` adds to the types that a held press is the drag's, unmoved, and that the draft still has
the shape the drag began with or one without handles (`HeldShape`); that the map pans, or "drawing" or the drag
under way will restore it (`PansAgain`); that the draft, the drag's base and the pin's draft all have
their pulled shapes round their own circles, since each of them may be brought back (`AllLie`); and that
a drag that made its point holds exactly the shape with the point put in (`DragIsNew`). Theorems `EditorInvariant`,
`HoldIsFreshAlways`, `NothingOutlivesAlways`, `CircleMatchesAlways`, and the action property
`DragMovesOnlyNewAlways`. The last rests on lemmas about sequences of any length: what `InsertAt` and `RemoveAt` do to
them, the count of handles up to a point (`CountIs`, `CountGrows`), that the index of a handle determines its place (`PositionIs`;
`PositionExists` takes the place at which so many are counted, `CountedMember`), and from these
`TakenBack`: insert, move, remove is the identity. `Handles` is the set of the handles' positions and not their sequence for the
sake of these proofs; the places are in the shape.

**ZoneShape_proofs.** `ShapeInv` (`ShapeInvariant`) is the types, that the loop's stack is empty when it is done,
and `StackOK`: what is kept so far, together with what the recursion keeps of the stretches on the stack (`Part`),
is what it keeps of the whole line; no stretch is on it twice; and two neighbours among the kept points whose
stretch is not on the stack have no point between them beyond the tolerance. Hence `WithinToleranceAlways`: neither
the order in which the loop takes stretches nor how often the tolerance was doubled matters.

`GoesRoundOnceAlways` and `EditsKeepOrderAlways` rest on one equivalence (`InOrderIsGoing`, from `GoingWinds` and
`WindsGoing`): pulls are in order if and only if the turn from the first to each grows along them (`Going`), for
then, and only then, the turns between neighbours add up to one (`SumTo`). The outline drawn from such pulls grows
in the same way (`StretchRises` for one pull's stretch, `RingGoes` for all), and so do the pulls with one put into
the gap that `insertPointAt` finds (`GapHolds`, `InsertGoes`) and with one taken out (`RemoveGoes`).

`GrabKeepsAreaAlways`: the nearest segment of a place on an edge is at no distance (`OnItIsNear`) and so in line
with it (`NearIsInLine`), and a corner in line with an edge divides its term of the area into two with the same sum
(`CrossDivides`, `InsertKeepsSum`).

`AcceptedIsSimpleAlways`: that the two tests for meeting segments agree is `MeetIsIntersect` (where a side is zero
the end lies on the other's line, `InOneLine`, `SplitIsOn`); that the two rays agree is that an edge crosses exactly
one of them just when one of its ends is in the quadrant between them (`RaysOfEdge`), which round a closed outline
happens an even number of times (`OddToggles`, `OddTogether`, `EitherRay`).

**DataLemmas** holds what those proofs need of numbers, sequences and recursive functions. The library's induction
takes a predicate as a parameter, which the provers cannot instantiate; here it is stated of a set, the set of the
numbers for which something holds: `LeastOf` (a non-empty set of naturals has a least member, by the library's well-foundedness of `<`), `CountUp` (a set with
0 that is closed under successor has them all), and from these `RecursionExists` (a function given by its first
value and its step exists), with which a recursive definition of a model may be unfolded. On them rest `ThoseIs` and
`SumIs` (the two recursions of `SeqFolds`), `SumTo`, `Climbing`, `FlattenIs` and `FirstLeast`; `InsertAtIs` and
`RemoveAtIs` say what the community modules' operators do to a sequence.

Assumptions: the named ASSUMEs of the modules only; TLC evaluates them in every run. `RowAssumption`,
`PipelineAssumption`, `DispatchAssumption`, `ZoneAssumption`, `LiveAssumption`, `SurfacesAssumption`, `AccountsAssumption`, `ThrottleAssumption` and
`StatsAssumption` say that thresholds, limits and bounds are numbers and that threads are finitely many. `PanelAssumption`,
`StationsAssumption`, `SettingsAssumption`, `ListAssumption`, `PushAssumption` and `NoticesAssumption` say that "none" and "absent" are none of
the values they stand beside (an alert's id is never the word "toast"), and that notices live for a positive time. `SheetAssumption`:
heights are numbers that the percentages divide. `EditorAssumption`, `MinPointsAssumption`: radii and the slider's step are positive, a new
zone's radius is on the slider, and an outline needs a point. `ShapeAssumption`: coordinates are whole numbers, the tolerance and the limits
are not negative, an arc's step is shorter than a turn, and a cone is narrower than half the circle to either side.

Model-checked only: the liveness properties `OverdueCloses`, `EventuallyScored`, `EventuallyDrained`, `Drained`,
`MapsConverge` and `ThinningEnds`. They rest on fairness, a statement about ENABLED, which is beyond the prover.
Every other property of a passing run is the statement of a theorem.

## Findings

`resolved_stays`: `AlertService.java:151` promises the reporter an early close ("reporter-only early
close"), and a score, confirm or comment that overlaps the resolve writes ACTIVE back over it. TLC finds
the resolve undone.

Remarks that have no run of their own, by module.

*Rows and messages.* Two overlapping confirms both write `count + 1` from the same copy, so that an alert with three
unique confirmers may stay ACTIVE (`README.md:74`). A redelivered danger warning chooses the nearest zone afresh: after one of
the user's zones has moved, or when two are equally near, it may warn for another and push again, although "a redelivery inserts nothing so
never pushes twice" (`NotificationDispatcher.cs:93-94`); `SettledUserHearsOnce` shows that there is no third way. Subscriptions are claimed in one UPDATE and
zones in whole-row writes at commit: an anonymous save or an edit that overlaps the claim puts the old
owner back on one of the two (`WatchZoneService.java:139-140` says "so claimed zones keep notifying the device that
created them"). The answer of a reload replaces the list, however old, and brings back a closed alert although "closed alerts leave the map
and feed immediately" (`Dashboard.tsx:195`). An alert whose `alert.created` the broker refuses stays UNSCORED for
good, since nothing sends the event again, whereas `AlertEventPublisher.java:30-31` says "until the
pipeline is restored" (`Report` with `sent = "refused"`, which `EventuallyScored` excludes). A danger
message that outruns the create's commit finds no alert and is acknowledged
(`OngoingDangerHandler.cs:29`), so nobody is warned of that incident. A resolve that overlaps a score writes UNSCORED back over it,
and no second score comes, though scores are "applied back onto stored alerts"
(`AlertScoredListener.java:15`). The comment
"EscalationHandler has already notified the zones it matches" (`OngoingDanger.cs:57-58`)
assumes an order between two independent queues, and the danger queue may be first;
`SettledUserHearsOnce` shows that a user whose zones stay put is all the same not told by both queues. `AlertEventPublisher.java:28-29` says the alert is
"already persisted and on the live feed when this runs"; it runs inside the create
transaction, before both (`SendCreated` precedes `Announce` and `Commit`). And
`README.md:117` calls the contents of `q.dead-letter` poison messages; a well-formed
score that outruns the create's commit three times ends there too, which is why
`NothingLost` and `EventuallyScored` count dead-lettering as an outcome.

*Accounts, limits, statistics.* Resets that overlap all find a token unused, which is "single-use"
(`PasswordResetToken.java:14`) otherwise: `ResetsHold` allows as many as there are threads. A profile change that overlaps
a reset puts the old password back, a reset that overlaps a profile change the old settings. `AuthService.signup`
catches the violation of the e-mail's uniqueness round `save` (101–106), but the row, whose id is assigned, is merged and inserted at the commit, outside
the `try`: the second of two is answered with the generic error. Sign-ins under way together
may each fail once more than the limit (`CredentialThrottle.java:68`). The API's snapshot bears the time after its queries
(`StatsService.java:110`), so that "never older than its configured lifetime" (26–27) holds up to the time they took. Digests are sent at 04:00 UTC
by each of the worker's replicas, of which there may be two (`container_apps.tf:215`), and by none that was down then.

*Outlines* (`zoneShape.ts`). Two pulls at one bearing make the outline go round twice (line 99, where equal bearings count as
a full turn), which `InOrder` excludes. Doubling the tolerance may jump from more than 500 points to fewer than three, so that a
long line is refused as too short (302–305). Neighbouring edges are not compared (492), so that an
outline that doubles back on itself at a corner is accepted; `AcceptedIsSimple` says so.

*Zone editor.* Switching to "draw" in the middle of a drag lets the end of the drag switch panning on again while a line is
drawn, against the comment at `ZoneShapeEditor.tsx:229-231` (hence the `~drag.on /\ ~Drawing` of
`NothingOutlives`). A hold of 600 ms on a handle of a shape that "Finish" replaces meanwhile may raise a
RangeError. A second finger ends the press that created a point without taking the point back, against 346–347. "Undo" and "Clear"
during a stroke are overwritten by its next move (264, 275), and edits during a drag or while the pin is held by theirs (341,
464). Edits made after Save and before its answer are discarded, and the answer closes whichever draft is open
(`Dashboard.tsx:388-400`). `handleSwitchToZone` keeps `editingZone` (360–365): from a report form that is open beside an edit, the
new circle is saved over the edited zone.
In pull mode an unfinished line is hidden and Save discards it (`zoneShape.ts:367`). A panel reopened within the 200 ms of its exit
keeps its old state (`Presence`). A create whose answer is lost and that is sent again makes two zones.

*Alert panel.* A live comment that arrives while the thread loads is dropped (76), as is the first of two between renders
(`Dashboard.tsx:216`), and a load that fails reads "No updates yet" (63): these are the named gaps. The answer to a post is appended to the thread that
is shown by then (93), which is why `ThreadIsOwn` exempts one's own comments. The answer to a resolve closes whichever alert is open (`Dashboard.tsx:489`), and
an alert that comes back to the list reopens its panel (520).

*Surfaces.* With a report form and a zone editor both open one Escape closes both; neither lies above the
other. "?" opens the shortcuts under the sign-in dialog. Late answers to a create or a claim close the form that
is open by then, and the offer to claim may appear after signing out. The form's severity preview is not cancelled
(`AlertForm.tsx:49-61`).

*Panels that wait.* Settings shown are not reset when the session changes, against `MyZonesPanel.tsx:54`; requests go out in the stored session's
name; digest and reach have separate busy flags, and their whole-row writes undo one another. The answer to a create that a load has
overtaken lists the zone twice (`Dashboard.tsx:390`); of overlapping loads the last answer wins (373–376), and a failed one shows no
zones; a claim looks at the list as it was when its button was pressed (465). A subscription that could not be saved counts as on in the next
panel, with no row on the server; one whose deletion failed stays there, and the panel says "on", until a push to it is refused.

*Notices and sheet.* The timers of announcements are not restarted as the toast's is (165–166): an announcement is cut
short by an older one's timer, and the same text within six seconds is not spoken again, although "two
identical alerts in a row still read as two events" (132). Every event of an alert, its closing included, is announced as reported
nearby. On viewports less than about 430 px high "half" lies below "peek": stepping up lowers the sheet (`useBottomSheet.ts:149`), and
a slow drop never rests on "half". A second finger restarts the drag from the resting place, and a flick steps from
the last resting place, even against the travel.

## Not modelled

- Sign-in and its signed session, which keep no state on the server; digests, which keep none either, so that there is
  nothing their repetition or absence would contradict.
- Floating-point geometry: `GeoMath`'s distances, `ZoneGeometry`'s projection and the projection in `zoneShape.ts` are
  numeric code, of which the models keep what exact coordinates give. The classifier and DBSCAN are library code.
- `toggleNotifications` of a single zone (`MyZonesPanel.tsx:167-189`), an optimistic change like the two of
  `AccountSettings`.
- Rendering: the filter, the feed, the statistics panel, the map's pins and clusters, focus capture, styles.
- Terraform, CI, and the SAPS importer (one pass over a file, no concurrency, no shared state).

`PROJECT.json` gives the status of each component.

## Plan

Done, with proofs: `AlertRow` with `AlertLedger`; `AlertPipeline`; `NotificationDispatch`; `ZoneOwnership`; `LiveFeed`; `Accounts`,
`Throttle`, `StatsSnapshot`; `AlertPanel`; `Stations`, `AccountSettings`, `ZoneList`, `PushToggle`; `Notices`, `BottomSheet`;
`ZoneEditor` and `ZoneShape` with `ShapeEdits`; `Surfaces`. Left: `MyZonesPanel.toggleNotifications`, beside `AccountSettings`.
