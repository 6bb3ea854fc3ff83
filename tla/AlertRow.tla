------------------------------ MODULE AlertRow ------------------------------
(***************************************************************************)
(* One row of the alerts table, its alert_confirmations and alert_comments *)
(* rows, and the transactions that race to write them.                     *)
(*                                                                         *)
(* Every write of the API is a JPA transaction at READ COMMITTED that      *)
(* loads the whole entity, works on its own copy, publishes the copy on    *)
(* the live feed and, at commit, writes every column back: the entity has  *)
(* neither @Version nor @DynamicUpdate.  Two transactions that overlap     *)
(* therefore overwrite each other.  The worker's sweep is a single UPDATE  *)
(* statement and touches only the status.                                  *)
(*                                                                         *)
(* The module follows a single alert: no statement of these services reads *)
(* one alert to write another.                                             *)
(***************************************************************************)
EXTENDS Naturals, FiniteSets

CONSTANTS
    Users,           \* accounts
    Reporter,        \* the account that files the alert
    Devices,         \* client fingerprints
    ReporterDevice,  \* the fingerprint the alert is filed from
    Txns,            \* request and listener threads, one transaction each
    Scores,          \* severities the ML service may send for this alert
    Threshold,       \* app.alerts.verify-threshold
    MaxComments      \* bound on the number of comments written

ASSUME RowAssumption ==
    /\ Reporter \in Users
    /\ ReporterDevice \in Devices
    /\ "UNSCORED" \notin Scores
    /\ Threshold \in Nat \ {0}
    /\ MaxComments \in Nat

VARIABLES
    row,            \* the committed alerts row
    confirmations,  \* the committed alert_confirmations rows
    comments,       \* how many alert_comments rows are committed
    overdue,        \* expires_at < now()
    tx              \* tx[t]: the transaction thread t is running

vars == <<row, confirmations, comments, overdue, tx>>
-----------------------------------------------------------------------------
OpenStatuses == {"ACTIVE", "VERIFIED"}
ClosedStatuses == {"RESOLVED", "EXPIRED"}

Row == [status: OpenStatuses \cup ClosedStatuses \cup {"ABSENT"},
        severity: Scores \cup {"UNSCORED"},
        confirmationCount: Nat,
        commentCount: Nat]

NoRow == [status |-> "ABSENT", severity |-> "UNSCORED",
          confirmationCount |-> 0, commentCount |-> 0]
NewRow == [NoRow EXCEPT !.status = "ACTIVE"]

Exists == row.status # "ABSENT"

Ops == {"none", "create", "score", "confirm", "resolve", "comment"}

(* "loaded": the entity is in memory.  "checked": confirm has found no      *)
(* earlier confirmation.  "stored": the first effect outside the entity is *)
(* done (a child row inserted, alert.created sent).  "announced": the live *)
(* event is out and the commit is next.                                    *)
Phases == {"idle", "loaded", "checked", "stored", "announced"}

Transaction == [op: Ops, phase: Phases, user: Users, device: Devices,
                score: Scores \cup {"UNSCORED"}, read: Row]

Idle == [op |-> "none", phase |-> "idle", user |-> Reporter,
         device |-> ReporterDevice, score |-> "UNSCORED", read |-> NoRow]

Running(t) == tx[t].phase # "idle"
In(t, op, phase) == tx[t].op = op /\ tx[t].phase = phase

(* t holds an uncommitted confirmation row.                                *)
HoldsInsert(t) == tx[t].op = "confirm" /\ tx[t].phase \in {"stored", "announced"}

Confirmers == {c.user : c \in confirmations}

(* Faults.  Definitions named Faulty... are not the code: each is a         *)
(* plausible slip in the definition that follows it, put in its place to   *)
(* see that the properties notice.                                         *)

(* Fault: any unverified status flips, a closed one too.                   *)
FaultyConfirmedAnyStatus(r) ==
    LET n == r.confirmationCount + 1
    IN [r EXCEPT !.confirmationCount = n,
                 !.status = IF n >= Threshold THEN "VERIFIED" ELSE @]

(* Fault: off by one.                                                      *)
FaultyConfirmedEarly(r) ==
    LET n == r.confirmationCount + 1
    IN [r EXCEPT !.confirmationCount = n,
                 !.status = IF r.status = "ACTIVE" /\ n + 1 >= Threshold
                            THEN "VERIFIED" ELSE @]

(* The entity as confirm leaves it.                                        *)
Confirmed(r) ==
    LET n == r.confirmationCount + 1
    IN [r EXCEPT !.confirmationCount = n,
                 !.status = IF r.status = "ACTIVE" /\ n >= Threshold
                            THEN "VERIFIED" ELSE r.status]

(* The columns transaction x sends back at commit.                         *)
Written(x) ==
    CASE x.op = "create"  -> NewRow
      [] x.op = "score"   -> [x.read EXCEPT !.severity = x.score]
      [] x.op = "confirm" -> Confirmed(x.read)
      [] x.op = "resolve" -> [x.read EXCEPT !.status = "RESOLVED"]
      [] x.op = "comment" -> [x.read EXCEPT !.commentCount = @ + 1]
      [] OTHER            -> x.read
-----------------------------------------------------------------------------
Init ==
    /\ row = NoRow
    /\ confirmations = {}
    /\ comments = 0
    /\ overdue = FALSE
    /\ tx = [t \in Txns |-> Idle]

Begin(t, op, user, device, score) ==
    /\ ~Running(t)
    /\ tx' = [tx EXCEPT ![t] = [op |-> op, phase |-> "loaded", user |-> user,
                                device |-> device, score |-> score, read |-> row]]
    /\ UNCHANGED <<row, confirmations, comments, overdue>>

Step(t, phase) ==
    /\ tx' = [tx EXCEPT ![t].phase = phase]
    /\ UNCHANGED <<row, confirmations, comments, overdue>>

Rollback(t) ==
    /\ tx' = [tx EXCEPT ![t] = Idle]
    /\ UNCHANGED <<row, confirmations, comments, overdue>>

(* AlertService.create: the entity is built and handed to save, which      *)
(* defers the INSERT of an assigned id to the commit.  One alert id has    *)
(* one create.                                                             *)
BeginCreate(t) ==
    /\ ~Exists
    /\ \A s \in Txns : tx[s].op # "create"
    /\ Begin(t, "create", Reporter, ReporterDevice, "UNSCORED")

(* publishAlertCreated, inside the transaction.                            *)
SendCreated(t) == In(t, "create", "loaded") /\ Step(t, "stored")

(* AlertService.applySeverity; a missing row is a NotFoundException.        *)
BeginScore(t, s) ==
    /\ Exists
    /\ Begin(t, "score", Reporter, ReporterDevice, s)

(* AlertService.confirm, up to the own-report test.                        *)
BeginConfirm(t, u, d) ==
    /\ Exists
    /\ u # Reporter /\ d # ReporterDevice
    /\ Begin(t, "confirm", u, d, "UNSCORED")

(* existsByAlertIdAndUserId: a statement of its own, so it sees whatever   *)
(* has been committed by now.                                              *)
CheckUnconfirmed(t) ==
    /\ In(t, "confirm", "loaded")
    /\ IF tx[t].user \in Confirmers THEN Rollback(t) ELSE Step(t, "checked")

(* Fault: the unique index is missing.                                     *)
FaultyInsertConfirmation(t) == In(t, "confirm", "checked") /\ Step(t, "stored")

(* The INSERT under uq_confirmation_user: it waits for an uncommitted row  *)
(* of the same key, and fails on a committed one.                          *)
InsertConfirmation(t) ==
    /\ In(t, "confirm", "checked")
    /\ \A s \in Txns \ {t} : HoldsInsert(s) => tx[s].user # tx[t].user
    /\ IF tx[t].user \in Confirmers THEN Rollback(t) ELSE Step(t, "stored")

(* AlertService.resolve: only the reporter, and a closed alert returns     *)
(* early.                                                                  *)
BeginResolve(t, u) ==
    /\ Exists
    /\ u = Reporter
    /\ row.status \in OpenStatuses
    /\ Begin(t, "resolve", u, ReporterDevice, "UNSCORED")

(* CommentService.add.                                                     *)
BeginComment(t, u) ==
    /\ Exists
    /\ comments + Cardinality({s \in Txns : tx[s].op = "comment"}) < MaxComments
    /\ Begin(t, "comment", u, ReporterDevice, "UNSCORED")

InsertComment(t) == In(t, "comment", "loaded") /\ Step(t, "stored")

(* publishLive: after every other effect and before the commit.            *)
Announce(t) ==
    /\ \/ tx[t].op \in {"create", "confirm", "comment"} /\ tx[t].phase = "stored"
       \/ tx[t].op \in {"score", "resolve"} /\ tx[t].phase = "loaded"
    /\ Step(t, "announced")

(* The flush and commit: Hibernate's dirty check skips the UPDATE of an    *)
(* entity that still equals what was loaded.                               *)
Commit(t) ==
    LET x == tx[t]
    IN /\ x.phase = "announced"
       /\ row' = IF Written(x) = x.read THEN row ELSE Written(x)
       /\ confirmations' =
            IF x.op = "confirm"
            THEN confirmations \cup {[user |-> x.user, device |-> x.device]}
            ELSE confirmations
       /\ comments' = IF x.op = "comment" THEN comments + 1 ELSE comments
       /\ tx' = [tx EXCEPT ![t] = Idle]
       /\ UNCHANGED overdue

(* Fault: the entity's UPDATE commits on its own, outside the transaction. *)
FaultyAbort(t) ==
    /\ Running(t)
    /\ row' = IF tx[t].phase = "announced" THEN Written(tx[t]) ELSE row
    /\ tx' = [tx EXCEPT ![t] = Idle]
    /\ UNCHANGED <<confirmations, comments, overdue>>

(* The process dies, the connection drops or the commit fails.             *)
Abort(t) == Running(t) /\ Rollback(t)

(* expires_at passes.                                                      *)
Lapse ==
    /\ Exists
    /\ ~overdue
    /\ overdue' = TRUE
    /\ UNCHANGED <<row, confirmations, comments, tx>>

(* Fault: verified alerts are forgotten.                                   *)
FaultySweep ==
    /\ overdue
    /\ row.status = "ACTIVE"
    /\ row' = [row EXCEPT !.status = "EXPIRED"]
    /\ UNCHANGED <<confirmations, comments, overdue, tx>>

(* ExpireOverdueAsync: UPDATE ... WHERE status IN ('ACTIVE','VERIFIED') AND *)
(* expires_at < now(), one statement.                                      *)
Sweep ==
    /\ overdue
    /\ row.status \in OpenStatuses
    /\ row' = [row EXCEPT !.status = "EXPIRED"]
    /\ UNCHANGED <<confirmations, comments, overdue, tx>>

Serve(t) ==
    \/ SendCreated(t)
    \/ CheckUnconfirmed(t)
    \/ InsertConfirmation(t)
    \/ InsertComment(t)
    \/ Announce(t)
    \/ Commit(t)

Request(t) ==
    \/ BeginCreate(t)
    \/ \E s \in Scores : BeginScore(t, s)
    \/ \E u \in Users, d \in Devices : BeginConfirm(t, u, d)
    \/ \E u \in Users : BeginResolve(t, u)
    \/ \E u \in Users : BeginComment(t, u)

Next ==
    \/ \E t \in Txns : Request(t) \/ Serve(t) \/ Abort(t)
    \/ Lapse
    \/ Sweep

Spec == Init /\ [][Next]_vars

(* A thread carries its transaction on, and the sweep's timer keeps        *)
(* ticking; nobody has to send a request and nothing has to crash.         *)
Fairness == WF_vars(Sweep) /\ \A t \in Txns : WF_vars(Serve(t))
FairSpec == Spec /\ Fairness
-----------------------------------------------------------------------------
(* Every variable keeps its type.                                          *)
TypeOK ==
    /\ row \in Row
    /\ confirmations \subseteq [user: Users, device: Devices]
    /\ comments \in Nat
    /\ overdue \in BOOLEAN
    /\ tx \in [Txns -> Transaction]

(* uq_confirmation_user against the check-then-insert race of confirm: an  *)
(* account is recorded once, whatever devices it confirms from at once.    *)
OneConfirmationPerUser ==
    \A c, d \in confirmations : c.user = d.user => c = d

(* confirm's whole-row write never over-verifies: a VERIFIED alert has at  *)
(* least Threshold committed confirmations from distinct accounts other    *)
(* than the reporter's, whatever stale copies were written over it.        *)
VerifiedIsEarned ==
    row.status = "VERIFIED" => Cardinality(Confirmers \ {Reporter}) >= Threshold

(* The stored counters never exceed the rows they count.                   *)
CountsBacked ==
    /\ row.confirmationCount <= Cardinality(Confirmers)
    /\ row.commentCount <= comments

(* A closed alert that no running transaction has read open.               *)
Settled ==
    /\ row.status \in ClosedStatuses
    /\ \A t \in Txns : Running(t) => tx[t].read.status \in ClosedStatuses

(* Once a closed alert has outlived the transactions that read it open, no *)
(* later confirm, comment, score or resolve opens it again.                *)
SettledForGood == [][Settled => Settled']_vars

(* The row and its confirmations, read without the transactions, keep the  *)
(* promise of AlertLedger.                                                 *)
Enough == {C \in SUBSET Users : Cardinality(C) >= Threshold}
Ledger == INSTANCE AlertLedger
            WITH status <- row.status, confirmers <- Confirmers, Quorums <- Enough
KeepsLedger == Ledger!Spec

(* Whatever the overlapping writers undo, repeated sweeps end with every   *)
(* overdue alert closed for good.                                          *)
OverdueCloses == overdue ~> [](row.status \in ClosedStatuses)
-----------------------------------------------------------------------------
(* AlertService.java:151 "Reporter-only early close": a resolved alert     *)
(* stays resolved.                                                         *)
ResolvedStays == [][row.status = "RESOLVED" => row'.status = "RESOLVED"]_vars
=============================================================================
