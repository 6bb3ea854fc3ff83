--------------------------- MODULE Alert_proofs -----------------------------
(***************************************************************************)
(* Proofs about an alert: its row (AlertRow), the pipeline that scores it  *)
(* (AlertPipeline) and the maps that show it (LiveFeed).  Pipeline and     *)
(* feed are ways of running AlertRow, so what is proved of the row's       *)
(* transitions holds of theirs, and each adds an invariant of its own.     *)
(***************************************************************************)
EXTENDS AlertPipeline, LiveFeed, FiniteSetTheorems, TLAPS

-----------------------------------------------------------------------------
(***************************************************************************)
(* Proofs about AlertRow for any accounts, devices, threads, scores,       *)
(* threshold and number of comments.  The invariants of AlertRow are not   *)
(* inductive: what keeps them is that every copy of the row a transaction  *)
(* holds is itself backed by committed confirmations (CopyOK), and that an *)
(* uncommitted confirmation keeps its account to itself (InsertsApart).    *)
(***************************************************************************)

CopyOK(r) ==
    /\ r.confirmationCount <= Cardinality(Confirmers)
    /\ r.commentCount <= comments
    /\ r.status = "VERIFIED" => r.confirmationCount >= Threshold

TxOK(t) ==
    /\ CopyOK(tx[t].read)
    /\ tx[t].op = "none" <=> tx[t].phase = "idle"
    /\ tx[t].op = "create" => ~Exists
    /\ tx[t].op \notin {"none", "create"} => Exists /\ tx[t].read.status # "ABSENT"
    /\ tx[t].op = "confirm" => tx[t].user # Reporter
    /\ HoldsInsert(t) => tx[t].user \notin Confirmers

InsertsApart ==
    \A s, t \in Txns :
        s # t /\ HoldsInsert(s) /\ HoldsInsert(t) => tx[s].user # tx[t].user

OneCreate ==
    \A s, t \in Txns : tx[s].op = "create" /\ tx[t].op = "create" => s = t

IInv ==
    /\ TypeOK
    /\ OneConfirmationPerUser
    /\ Reporter \notin Confirmers
    /\ IsFiniteSet(Confirmers)
    /\ CopyOK(row)
    /\ \A t \in Txns : TxOK(t)
    /\ InsertsApart
    /\ OneCreate
-----------------------------------------------------------------------------
(* What a transaction writes back is a well-typed row.                     *)
LEMMA WrittenType ==
    ASSUME TypeOK, NEW t \in Txns
    PROVE  Written(tx[t]) \in Row
<1>1. tx[t] \in Transaction /\ tx[t].read \in Row
  BY DEF TypeOK, Transaction
<1>2. tx[t].op \in Ops /\ tx[t].score \in Scores \cup {"UNSCORED"}
  BY <1>1 DEF Transaction
<1>3. NewRow \in Row
  BY DEF NewRow, NoRow, Row, OpenStatuses
<1>4. ASSUME NEW r \in Row
      PROVE  Confirmed(r) \in Row
  <2>1. r.confirmationCount + 1 \in Nat
    BY DEF Row
  <2>2. QED
    BY <2>1, RowAssumption DEF Confirmed, Row, OpenStatuses
<1>5. QED
  BY <1>1, <1>2, <1>3, <1>4 DEF Written, Ops, Row, ClosedStatuses, OpenStatuses

(* The model starts in the invariant.                                      *)
LEMMA InitIInv == Init => IInv
<1> SUFFICES ASSUME Init PROVE IInv
  OBVIOUS
<1>1. Confirmers = {}
  BY DEF Init, Confirmers
<1>2. IsFiniteSet(Confirmers) /\ Cardinality(Confirmers) = 0
  BY <1>1, FS_EmptySet
<1>3. NoRow \in Row
  BY DEF NoRow, Row
<1>4. TypeOK
  BY <1>3, RowAssumption DEF Init, TypeOK, Transaction, Idle, Ops, Phases
<1>5. CopyOK(NoRow)
  BY <1>2 DEF CopyOK, NoRow, Init
<1>6. CopyOK(row) /\ \A t \in Txns : TxOK(t)
  BY <1>5 DEF Init, TxOK, Idle, HoldsInsert
<1>7. OneConfirmationPerUser /\ InsertsApart /\ OneCreate
  BY DEF Init, OneConfirmationPerUser, InsertsApart, OneCreate, HoldsInsert, Idle
<1>8. QED
  BY <1>1, <1>2, <1>4, <1>6, <1>7 DEF IInv

(* A thread starts a transaction on the row as it is committed now.        *)
LEMMA BeginIInv ==
    ASSUME IInv, NEW t \in Txns, NEW op \in Ops \ {"none"},
           NEW u \in Users, NEW d \in Devices, NEW s \in Scores \cup {"UNSCORED"},
           Begin(t, op, u, d, s),
           op = "create" => ~Exists /\ \A r \in Txns : tx[r].op # "create",
           op # "create" => Exists,
           op = "confirm" => u # Reporter
    PROVE  IInv'
<1>1. /\ UNCHANGED <<row, confirmations, comments, overdue>>
      /\ Confirmers' = Confirmers
      /\ Exists' = Exists
  BY DEF Begin, Confirmers, Exists
<1>2. /\ tx'[t] = [op |-> op, phase |-> "loaded", user |-> u,
                   device |-> d, score |-> s, read |-> row]
      /\ \A r \in Txns \ {t} : tx'[r] = tx[r]
      /\ ~HoldsInsert(t)'
      /\ \A r \in Txns \ {t} : HoldsInsert(r)' = HoldsInsert(r)
  BY DEF Begin, IInv, TypeOK, HoldsInsert
<1>3. TypeOK'
  BY <1>1 DEF Begin, IInv, TypeOK, Transaction, Phases
<1>4. CopyOK(row)' /\ \A r \in Txns : r # t => TxOK(r)'
  BY <1>1, <1>2 DEF IInv, CopyOK, TxOK
<1>5. TxOK(t)'
  BY <1>1, <1>2 DEF IInv, CopyOK, TxOK, Exists
<1>6. OneConfirmationPerUser' /\ InsertsApart' /\ OneCreate'
  BY <1>1, <1>2 DEF IInv, OneConfirmationPerUser, InsertsApart, OneCreate
<1>7. QED
  BY <1>1, <1>3, <1>4, <1>5, <1>6 DEF IInv

(* A running transaction moves to its next phase.                          *)
LEMMA StepIInv ==
    ASSUME IInv, NEW t \in Txns, NEW phase \in {"checked", "stored", "announced"},
           Running(t), Step(t, phase),
           (tx[t].op = "confirm" /\ phase \in {"stored", "announced"}) =>
               \/ HoldsInsert(t)
               \/ /\ tx[t].user \notin Confirmers
                  /\ \A s \in Txns \ {t} : HoldsInsert(s) => tx[s].user # tx[t].user
    PROVE  IInv'
<1>1. /\ UNCHANGED <<row, confirmations, comments, overdue>>
      /\ Confirmers' = Confirmers
      /\ Exists' = Exists
  BY DEF Step, Confirmers, Exists
<1>2. /\ tx'[t] = [tx[t] EXCEPT !.phase = phase]
      /\ \A r \in Txns \ {t} : tx'[r] = tx[r]
  BY DEF Step, IInv, TypeOK
<1>3. /\ tx[t] \in Transaction
      /\ tx'[t].op = tx[t].op /\ tx'[t].user = tx[t].user
      /\ tx'[t].read = tx[t].read /\ tx'[t].phase = phase
  BY <1>2 DEF IInv, TypeOK, Transaction
<1>4. TypeOK'
  BY <1>1, <1>2, <1>3 DEF Step, IInv, TypeOK, Transaction, Phases
<1>5. \A r \in Txns \ {t} : HoldsInsert(r)' = HoldsInsert(r)
  BY <1>2 DEF HoldsInsert
<1>6. HoldsInsert(t)' =>
        /\ tx[t].user \notin Confirmers
        /\ \A s \in Txns \ {t} : HoldsInsert(s) => tx[s].user # tx[t].user
  BY <1>3 DEF HoldsInsert, IInv, TxOK, InsertsApart
<1>7. CopyOK(row)' /\ \A r \in Txns : r # t => TxOK(r)'
  BY <1>1, <1>2, <1>5 DEF IInv, CopyOK, TxOK
<1>8. TxOK(t)'
  BY <1>1, <1>3, <1>6 DEF IInv, CopyOK, TxOK, Exists, Running
<1>9. InsertsApart'
  <2>1. SUFFICES ASSUME NEW r \in Txns, NEW s \in Txns, r # s,
                        HoldsInsert(r)', HoldsInsert(s)'
                 PROVE  tx'[r].user # tx'[s].user
    BY DEF InsertsApart
  <2>2. CASE r # t /\ s # t
    BY <1>2, <1>5, <2>1, <2>2 DEF IInv, InsertsApart
  <2>3. CASE r = t \/ s = t
    BY <1>2, <1>3, <1>5, <1>6, <2>1, <2>3
  <2>4. QED
    BY <2>2, <2>3
<1>10. OneConfirmationPerUser'
  BY <1>1 DEF IInv, OneConfirmationPerUser
<1>11. OneCreate'
  <2>1. \A r \in Txns : tx'[r].op = tx[r].op
    BY <1>2, <1>3
  <2>2. QED
    BY <2>1 DEF IInv, OneCreate
<1>12. QED
  BY <1>1, <1>4, <1>7, <1>8, <1>9, <1>10, <1>11 DEF IInv

(* A transaction ends and leaves nothing.                                  *)
LEMMA RollbackIInv ==
    ASSUME IInv, NEW t \in Txns, Rollback(t)
    PROVE  IInv'
<1>1. /\ UNCHANGED <<row, confirmations, comments, overdue>>
      /\ Confirmers' = Confirmers
      /\ Exists' = Exists
  BY DEF Rollback, Confirmers, Exists
<1>2. /\ tx'[t] = Idle
      /\ \A r \in Txns \ {t} : tx'[r] = tx[r]
      /\ ~HoldsInsert(t)'
      /\ \A r \in Txns \ {t} : HoldsInsert(r)' = HoldsInsert(r)
  BY DEF Rollback, IInv, TypeOK, HoldsInsert, Idle
<1>3. Idle \in Transaction
  BY RowAssumption DEF Idle, Transaction, Ops, Phases, NoRow, Row
<1>4. TypeOK'
  BY <1>1, <1>3 DEF Rollback, IInv, TypeOK
<1>5. CopyOK(row)' /\ \A r \in Txns : r # t => TxOK(r)'
  BY <1>1, <1>2 DEF IInv, CopyOK, TxOK
<1>6. CopyOK(NoRow)'
  <2>1. Cardinality(Confirmers) \in Nat
    BY FS_CardinalityType DEF IInv
  <2>2. QED
    BY <1>1, <2>1 DEF CopyOK, NoRow, IInv, TypeOK
<1>7. TxOK(t)'
  BY <1>2, <1>6 DEF TxOK, Idle
<1>8. OneConfirmationPerUser' /\ InsertsApart' /\ OneCreate'
  BY <1>1, <1>2 DEF IInv, OneConfirmationPerUser, InsertsApart, OneCreate, Idle
<1>9. QED
  BY <1>1, <1>4, <1>5, <1>7, <1>8 DEF IInv

(* A commit adds at most one account to the confirmers, an account that    *)
(* was not among them.                                                     *)
LEMMA CommitConfirmers ==
    ASSUME IInv, NEW t \in Txns, Commit(t)
    PROVE  /\ IsFiniteSet(Confirmers')
           /\ Cardinality(Confirmers) \in Nat
           /\ Cardinality(Confirmers') \in Nat
           /\ tx[t].op = "confirm" =>
                /\ tx[t].user \notin Confirmers
                /\ Confirmers' = Confirmers \cup {tx[t].user}
                /\ Cardinality(Confirmers') = Cardinality(Confirmers) + 1
           /\ tx[t].op # "confirm" =>
                /\ confirmations' = confirmations
                /\ Confirmers' = Confirmers
<1>1. IsFiniteSet(Confirmers) /\ Cardinality(Confirmers) \in Nat
  BY FS_CardinalityType DEF IInv
<1>2. CASE tx[t].op = "confirm"
  <2>1. tx[t].user \notin Confirmers
    BY <1>2 DEF Commit, IInv, TxOK, HoldsInsert
  <2>2. PICK c : /\ c.user = tx[t].user
                 /\ confirmations' = confirmations \cup {c}
    BY <1>2 DEF Commit
  <2>3. Confirmers' = Confirmers \cup {tx[t].user}
    BY <2>2 DEF Confirmers
  <2>4. /\ IsFiniteSet(Confirmers')
        /\ Cardinality(Confirmers') = Cardinality(Confirmers) + 1
    BY <1>1, <2>1, <2>3, FS_AddElement
  <2>5. QED
    BY <1>1, <1>2, <2>1, <2>3, <2>4
<1>3. CASE tx[t].op # "confirm"
  <2>1. confirmations' = confirmations
    BY <1>3 DEF Commit
  <2>2. QED
    BY <1>1, <1>3, <2>1 DEF Confirmers
<1>4. QED
  BY <1>2, <1>3

(* What a commit writes is backed by the confirmations and comments that   *)
(* are committed with it, and so is every copy still held.                 *)
LEMMA CommitCopies ==
    ASSUME IInv, NEW t \in Txns, Commit(t)
    PROVE  \A r \in Row : CopyOK(r) \/ r = Written(tx[t]) => (CopyOK(r))'
<1>1. /\ tx[t] \in Transaction /\ tx[t].read \in Row /\ comments \in Nat
      /\ Threshold \in Nat
  BY RowAssumption DEF IInv, TypeOK, Transaction
<1>2. comments' \in Nat /\ comments <= comments'
  BY <1>1 DEF Commit
<1>3. /\ Cardinality(Confirmers) \in Nat /\ Cardinality(Confirmers') \in Nat
      /\ Cardinality(Confirmers) <= Cardinality(Confirmers')
  BY CommitConfirmers
<1>4. ASSUME NEW r \in Row, CopyOK(r)
      PROVE  /\ r.confirmationCount <= Cardinality(Confirmers')
             /\ r.commentCount <= comments'
             /\ r.status = "VERIFIED" => r.confirmationCount >= Threshold
  BY <1>1, <1>2, <1>3, <1>4 DEF CopyOK, Row
<1>5. CopyOK(tx[t].read)
  BY DEF IInv, TxOK
<1>6. ASSUME NEW w \in Row, w = Written(tx[t])
      PROVE  /\ w.confirmationCount <= Cardinality(Confirmers')
             /\ w.commentCount <= comments'
             /\ w.status = "VERIFIED" => w.confirmationCount >= Threshold
  <2>1. tx[t].op \in Ops
    BY <1>1 DEF Transaction
  <2>2. CASE tx[t].op = "create"
    BY <1>2, <1>3, <1>6, <2>2 DEF Written, NewRow, NoRow
  <2>3. CASE tx[t].op = "score"
    BY <1>1, <1>4, <1>5, <1>6, <2>3 DEF Written, Row
  <2>4. CASE tx[t].op = "confirm"
    <3>1. Cardinality(Confirmers') = Cardinality(Confirmers) + 1
      BY <2>4, CommitConfirmers
    <3>2. w = Confirmed(tx[t].read)
      BY <1>6, <2>4 DEF Written
    <3>3. /\ w.confirmationCount = tx[t].read.confirmationCount + 1
          /\ w.commentCount = tx[t].read.commentCount
          /\ w.status = "VERIFIED" =>
               \/ tx[t].read.status = "VERIFIED"
               \/ w.confirmationCount >= Threshold
      BY <1>1, <3>2 DEF Confirmed, Row
    <3>4. QED
      BY <1>1, <1>2, <1>3, <1>5, <3>1, <3>3 DEF CopyOK, Row
  <2>5. CASE tx[t].op = "resolve"
    BY <1>1, <1>4, <1>5, <1>6, <2>5 DEF Written, Row
  <2>6. CASE tx[t].op = "comment"
    <3>1. comments' = comments + 1
      BY <2>6 DEF Commit
    <3>2. QED
      BY <1>1, <1>3, <1>5, <1>6, <2>6, <3>1 DEF Written, Row, CopyOK
  <2>7. CASE tx[t].op = "none"
    BY <1>4, <1>5, <1>1, <1>6, <2>7 DEF Written
  <2>8. QED
    BY <2>1, <2>2, <2>3, <2>4, <2>5, <2>6, <2>7 DEF Ops
<1>7. QED
  BY <1>4, <1>6 DEF CopyOK

(* What a commit does to the transactions: t is idle, the others keep what *)
(* they hold, and a commit other than a create's finds and leaves the row. *)
LEMMA CommitExists ==
    ASSUME IInv, NEW t \in Txns, Commit(t)
    PROVE  /\ tx' = [tx EXCEPT ![t] = Idle]
           /\ row' = row \/ row' = Written(tx[t])
           /\ row' \in Row
           /\ tx[t].op \in Ops \ {"none"}
           /\ tx[t].op # "create" => Exists /\ Exists'
           /\ tx[t].op = "create" =>
                ~Exists /\ \A r \in Txns \ {t} : tx[r].op = "none"
<1>1. /\ tx[t] \in Transaction /\ tx[t].read \in Row /\ row \in Row
      /\ tx[t].op \in Ops
  BY DEF IInv, TypeOK, Transaction
<1>2. /\ tx' = [tx EXCEPT ![t] = Idle]
      /\ row' = row \/ row' = Written(tx[t])
      /\ tx[t].phase = "announced"
  BY DEF Commit
<1>3. row' \in Row
  BY <1>1, <1>2, WrittenType DEF IInv
<1>4. tx[t].op # "none"
  BY <1>2 DEF IInv, TxOK
<1>5. ASSUME tx[t].op # "create"
      PROVE  Exists /\ Exists'
  <2>1. row.status # "ABSENT" /\ tx[t].read.status # "ABSENT"
    BY <1>4, <1>5 DEF IInv, TxOK, Exists
  <2>2. Confirmed(tx[t].read).status # "ABSENT"
    BY <1>1, <2>1 DEF Confirmed, Row
  <2>3. Written(tx[t]).status # "ABSENT"
    BY <1>1, <1>4, <1>5, <2>1, <2>2 DEF Written, Ops, Row
  <2>4. QED
    BY <1>2, <2>1, <2>3 DEF Exists
<1>6. ASSUME tx[t].op = "create"
      PROVE  ~Exists /\ \A r \in Txns \ {t} : tx[r].op = "none"
  <2>1. ~Exists
    BY <1>6 DEF IInv, TxOK
  <2>2. \A r \in Txns \ {t} : tx[r].op # "create"
    BY <1>6 DEF IInv, OneCreate
  <2>3. QED
    BY <2>1, <2>2 DEF IInv, TxOK
<1>7. QED
  BY <1>1, <1>2, <1>3, <1>4, <1>5, <1>6

(* A commit keeps the invariant.                                           *)
LEMMA CommitIInv ==
    ASSUME IInv, NEW t \in Txns, Commit(t)
    PROVE  IInv'
<1>1. /\ tx'[t] = Idle
      /\ \A r \in Txns \ {t} : tx'[r] = tx[r]
      /\ ~HoldsInsert(t)'
      /\ \A r \in Txns \ {t} : HoldsInsert(r)' = HoldsInsert(r)
  BY CommitExists DEF IInv, TypeOK, HoldsInsert, Idle
<1>2. TypeOK'
  <2>1. Idle \in Transaction
    BY RowAssumption DEF Idle, Transaction, Ops, Phases, NoRow, Row
  <2>2. tx' \in [Txns -> Transaction] /\ row' \in Row
    BY <2>1, CommitExists DEF IInv, TypeOK
  <2>3. [user |-> tx[t].user, device |-> tx[t].device] \in [user: Users, device: Devices]
    BY DEF IInv, TypeOK, Transaction
  <2>4. QED
    BY <2>2, <2>3 DEF Commit, IInv, TypeOK
<1>3. OneConfirmationPerUser'
  <2>1. CASE tx[t].op = "confirm"
    <3>1. PICK c : c.user = tx[t].user /\ confirmations' = confirmations \cup {c}
      BY <2>1 DEF Commit
    <3>2. \A d \in confirmations : d.user # c.user
      BY <2>1, <3>1, CommitConfirmers DEF Confirmers
    <3>3. QED
      BY <3>1, <3>2 DEF IInv, OneConfirmationPerUser
  <2>2. CASE tx[t].op # "confirm"
    BY <2>2, CommitConfirmers DEF IInv, OneConfirmationPerUser
  <2>3. QED
    BY <2>1, <2>2
<1>4. (Reporter \notin Confirmers /\ IsFiniteSet(Confirmers))'
  <2>1. tx[t].op = "confirm" => tx[t].user # Reporter
    BY DEF IInv, TxOK
  <2>2. QED
    BY <2>1, CommitConfirmers DEF IInv
<1>5. CopyOK(row)'
  <2>1. \A r \in Row : CopyOK(r) \/ r = Written(tx[t]) => (CopyOK(r))'
    BY CommitCopies
  <2>2. CopyOK(row) /\ row \in Row
    BY DEF IInv, TypeOK
  <2>3. \A r \in Row : r = row' => CopyOK(r)'
    BY <2>1, <2>2, CommitExists
  <2>4. QED
    BY <2>3, CommitExists DEF CopyOK
<1>6. TxOK(t)'
  <2>1. NoRow \in Row
    BY DEF NoRow, Row
  <2>2. Cardinality(Confirmers') \in Nat /\ comments' \in Nat
    BY <1>2, CommitConfirmers DEF TypeOK
  <2>3. CopyOK(NoRow)'
    BY <2>2 DEF CopyOK, NoRow
  <2>4. QED
    BY <1>1, <2>3 DEF TxOK, Idle
<1>7. ASSUME NEW r \in Txns \ {t}
      PROVE  TxOK(r)'
  <2>1. TxOK(r) /\ tx'[r] = tx[r] /\ tx[r].read \in Row
    BY <1>1 DEF IInv, TypeOK, Transaction
  <2>2. CopyOK(tx[r].read)'
    <3>1. \A w \in Row : w = tx[r].read => CopyOK(w)'
      BY <2>1, CommitCopies DEF TxOK
    <3>2. QED
      BY <2>1, <3>1 DEF CopyOK
  <2>3. ASSUME HoldsInsert(r)
        PROVE  tx[r].user \notin Confirmers'
    <3>1. tx[r].user \notin Confirmers
      BY <2>1, <2>3 DEF TxOK
    <3>2. tx[t].op = "confirm" => HoldsInsert(t)
      BY DEF Commit, HoldsInsert
    <3>3. tx[t].op = "confirm" => tx[r].user # tx[t].user
      BY <2>3, <3>2 DEF IInv, InsertsApart
    <3>4. QED
      BY <3>1, <3>3, CommitConfirmers
  <2>4. CASE tx[t].op = "create"
    BY <1>1, <2>1, <2>2, <2>3, <2>4, CommitExists DEF TxOK
  <2>5. CASE tx[t].op # "create"
    BY <1>1, <2>1, <2>2, <2>3, <2>5, CommitExists DEF TxOK
  <2>6. QED
    BY <2>4, <2>5
<1>8. InsertsApart'
  BY <1>1 DEF IInv, InsertsApart
<1>9. OneCreate'
  BY <1>1 DEF IInv, OneCreate, Idle
<1>10. QED
  BY <1>2, <1>3, <1>4, <1>5, <1>6, <1>7, <1>8, <1>9 DEF IInv

(* Time passing and the sweep keep the invariant: neither touches a        *)
(* confirmation, a counter or a transaction.                               *)
LEMMA SweepIInv ==
    ASSUME IInv, Sweep
    PROVE  IInv'
<1>1. /\ UNCHANGED <<confirmations, comments, overdue, tx>>
      /\ Confirmers' = Confirmers
      /\ row' = [row EXCEPT !.status = "EXPIRED"]
      /\ row \in Row
  BY DEF Sweep, Confirmers, IInv, TypeOK
<1>2. TypeOK'
  BY <1>1 DEF IInv, TypeOK, Row, ClosedStatuses
<1>3. Exists /\ Exists'
  BY <1>1 DEF Sweep, Exists, OpenStatuses, Row
<1>4. CopyOK(row)'
  BY <1>1 DEF IInv, CopyOK, Row
<1>5. ASSUME NEW t \in Txns
      PROVE  TxOK(t)' /\ HoldsInsert(t)' = HoldsInsert(t)
  <2>1. TxOK(t)
    BY DEF IInv
  <2>2. QED
    BY <1>1, <1>3, <2>1 DEF TxOK, CopyOK, HoldsInsert
<1>6. OneConfirmationPerUser' /\ InsertsApart' /\ OneCreate'
  BY <1>1, <1>5 DEF IInv, OneConfirmationPerUser, InsertsApart, OneCreate
<1>7. QED
  BY <1>1, <1>2, <1>4, <1>5, <1>6 DEF IInv

(* Only the passing of the expiry time.                                    *)
LEMMA StutterIInv ==
    ASSUME IInv, UNCHANGED <<row, confirmations, comments, tx>>, overdue' \in BOOLEAN
    PROVE  IInv'
<1>1. Confirmers' = Confirmers /\ Exists' = Exists
  BY DEF Confirmers, Exists
<1>2. TypeOK'
  BY DEF IInv, TypeOK
<1>3. CopyOK(row)' /\ \A t \in Txns : TxOK(t)'
  BY <1>1 DEF IInv, CopyOK, TxOK, HoldsInsert
<1>4. OneConfirmationPerUser' /\ InsertsApart' /\ OneCreate'
  BY DEF IInv, OneConfirmationPerUser, InsertsApart, OneCreate, HoldsInsert
<1>5. QED
  BY <1>1, <1>2, <1>3, <1>4 DEF IInv

(* Every step of the specification keeps the invariant.                    *)
LEMMA NextIInv == IInv /\ [Next]_vars => IInv'
<1> SUFFICES ASSUME IInv, [Next]_vars
             PROVE  IInv'
  OBVIOUS
<1>1. ASSUME NEW t \in Txns, Request(t)
      PROVE  IInv'
  <2>1. Reporter \in Users /\ ReporterDevice \in Devices
    BY RowAssumption
  <2>2. CASE BeginCreate(t)
    BY <2>1, <2>2, BeginIInv DEF BeginCreate, Ops
  <2>3. ASSUME NEW s \in Scores, BeginScore(t, s)
        PROVE  IInv'
    BY <2>1, <2>3, BeginIInv DEF BeginScore, Ops
  <2>4. ASSUME NEW u \in Users, NEW d \in Devices, BeginConfirm(t, u, d)
        PROVE  IInv'
    BY <2>4, BeginIInv DEF BeginConfirm, Ops
  <2>5. ASSUME NEW u \in Users, BeginResolve(t, u)
        PROVE  IInv'
    BY <2>1, <2>5, BeginIInv DEF BeginResolve, Ops
  <2>6. ASSUME NEW u \in Users, BeginComment(t, u)
        PROVE  IInv'
    BY <2>1, <2>6, BeginIInv DEF BeginComment, Ops
  <2>7. QED
    BY <1>1, <2>2, <2>3, <2>4, <2>5, <2>6 DEF Request
<1>2. ASSUME NEW t \in Txns, Serve(t)
      PROVE  IInv'
  <2>1. CASE SendCreated(t)
    BY <2>1, StepIInv DEF SendCreated, In, Running
  <2>2. CASE CheckUnconfirmed(t)
    BY <2>2, StepIInv, RollbackIInv DEF CheckUnconfirmed, In, Running
  <2>3. CASE InsertConfirmation(t)
    BY <2>3, StepIInv, RollbackIInv DEF InsertConfirmation, In, Running
  <2>4. CASE InsertComment(t)
    BY <2>4, StepIInv DEF InsertComment, In, Running
  <2>5. CASE Announce(t)
    <3>1. tx[t].op = "confirm" => HoldsInsert(t)
      BY <2>5 DEF Announce, HoldsInsert
    <3>2. QED
      BY <2>5, <3>1, StepIInv DEF Announce, Running
  <2>6. CASE Commit(t)
    BY <2>6, CommitIInv
  <2>7. QED
    BY <1>2, <2>1, <2>2, <2>3, <2>4, <2>5, <2>6 DEF Serve
<1>3. ASSUME NEW t \in Txns, Abort(t)
      PROVE  IInv'
  BY <1>3, RollbackIInv DEF Abort
<1>4. CASE Lapse
  BY <1>4, StutterIInv DEF Lapse
<1>5. CASE Sweep
  BY <1>5, SweepIInv
<1>6. CASE UNCHANGED vars
  BY <1>6, StutterIInv DEF vars, IInv, TypeOK
<1>7. QED
  BY <1>1, <1>2, <1>3, <1>4, <1>5, <1>6 DEF Next
-----------------------------------------------------------------------------
(* The strengthened invariant holds of every behaviour.                    *)
THEOREM Invariance == Spec => []IInv
<1>1. QED
  BY InitIInv, NextIInv, PTL DEF Spec

(* The types of the row, of its child tables and of the transactions hold. *)
THEOREM TypeCorrect == Spec => []TypeOK
<1>1. IInv => TypeOK
  BY DEF IInv
<1>2. QED
  BY <1>1, Invariance, PTL

(* An account is recorded as a confirmer once, whatever races.             *)
THEOREM Uniqueness == Spec => []OneConfirmationPerUser
<1>1. IInv => OneConfirmationPerUser
  BY DEF IInv
<1>2. QED
  BY <1>1, Invariance, PTL

(* Lost updates never inflate a counter.                                   *)
THEOREM Backing == Spec => []CountsBacked
<1>1. IInv => CountsBacked
  BY DEF IInv, CopyOK, CountsBacked
<1>2. QED
  BY <1>1, Invariance, PTL

(* VERIFIED is never shown on fewer than Threshold distinct accounts other *)
(* than the reporter's.                                                    *)
THEOREM Verification == Spec => []VerifiedIsEarned
<1>1. IInv => VerifiedIsEarned
  <2> SUFFICES ASSUME IInv, row.status = "VERIFIED"
               PROVE  Cardinality(Confirmers \ {Reporter}) >= Threshold
    BY DEF VerifiedIsEarned
  <2>1. Confirmers \ {Reporter} = Confirmers
    BY DEF IInv
  <2>2. /\ row.confirmationCount >= Threshold
        /\ row.confirmationCount <= Cardinality(Confirmers)
        /\ row.confirmationCount \in Nat
    BY DEF IInv, CopyOK, TypeOK, Row
  <2>3. Cardinality(Confirmers) \in Nat /\ Threshold \in Nat
    BY FS_CardinalityType, RowAssumption DEF IInv
  <2>4. QED
    BY <2>1, <2>2, <2>3
<1>2. QED
  BY <1>1, Invariance, PTL

(* No step opens a settled alert: a commit that reads closed writes closed.*)
LEMMA SettledStep ==
    ASSUME IInv, Settled, [Next]_vars
    PROVE  Settled'
<1>1. Exists
  BY DEF Settled, Exists, ClosedStatuses
<1>2. ASSUME NEW t \in Txns, NEW op \in Ops, NEW u \in Users, NEW d \in Devices,
             NEW s \in Scores \cup {"UNSCORED"}, Begin(t, op, u, d, s)
      PROVE  Settled'
  <2>1. /\ row' = row /\ tx'[t].read = row
        /\ \A r \in Txns \ {t} : tx'[r] = tx[r]
    BY <1>2 DEF Begin, IInv, TypeOK
  <2>2. QED
    BY <2>1 DEF Settled, Running
<1>3. ASSUME NEW t \in Txns, NEW phase \in Phases, Running(t), Step(t, phase)
      PROVE  Settled'
  <2>1. /\ row' = row /\ tx'[t].read = tx[t].read
        /\ \A r \in Txns \ {t} : tx'[r] = tx[r]
    BY <1>3 DEF Step, IInv, TypeOK, Transaction
  <2>2. QED
    BY <1>3, <2>1 DEF Settled, Running
<1>4. ASSUME NEW t \in Txns, Rollback(t)
      PROVE  Settled'
  <2>1. /\ row' = row /\ tx'[t] = Idle
        /\ \A r \in Txns \ {t} : tx'[r] = tx[r]
    BY <1>4 DEF Rollback, IInv, TypeOK
  <2>2. QED
    BY <2>1 DEF Settled, Running, Idle
<1>5. ASSUME NEW t \in Txns, Commit(t)
      PROVE  Settled'
  <2>1. /\ tx[t].op \in Ops \ {"none", "create"}
        /\ row' = row \/ row' = Written(tx[t])
        /\ tx'[t] = Idle
        /\ \A r \in Txns \ {t} : tx'[r] = tx[r]
    BY <1>1, <1>5, CommitExists DEF IInv, TypeOK
  <2>2. tx[t].read \in Row /\ tx[t].read.status \in ClosedStatuses
    BY <1>5 DEF Settled, Running, Commit, IInv, TypeOK, Transaction
  <2>3. Confirmed(tx[t].read).status \in ClosedStatuses
    BY <2>2 DEF Confirmed, Row, ClosedStatuses
  <2>4. Written(tx[t]).status \in ClosedStatuses
    BY <2>1, <2>2, <2>3 DEF Written, Ops, Row, ClosedStatuses
  <2>5. QED
    BY <2>1, <2>4 DEF Settled, Running, Idle
<1>6. ASSUME NEW t \in Txns, Request(t)
      PROVE  Settled'
  <2>1. Reporter \in Users /\ ReporterDevice \in Devices
    BY RowAssumption
  <2>2. QED
    BY <1>1, <1>2, <1>6, <2>1
    DEF Request, BeginCreate, BeginScore, BeginConfirm, BeginResolve, BeginComment, Ops
<1>7. ASSUME NEW t \in Txns, Serve(t)
      PROVE  Settled'
  BY <1>3, <1>4, <1>5, <1>7
  DEF Serve, SendCreated, CheckUnconfirmed, InsertConfirmation, InsertComment,
      Announce, In, Running, Phases
<1>8. CASE Sweep
  BY <1>8 DEF Sweep, Settled, OpenStatuses, ClosedStatuses
<1>9. CASE Lapse \/ UNCHANGED vars
  BY <1>9 DEF Lapse, vars, Settled, Running
<1>10. QED
  BY <1>4, <1>6, <1>7, <1>8, <1>9 DEF Next, Abort

(* A settled alert is closed for good.                                     *)
THEOREM Settling == Spec => SettledForGood
<1>1. IInv /\ [Next]_vars => [Settled => Settled']_vars
  BY SettledStep
<1>2. QED
  BY <1>1, Invariance, PTL DEF Spec, SettledForGood
-----------------------------------------------------------------------------
(* Every step of AlertRow is a step of AlertLedger or a stutter of it.     *)
LEMMA LedgerStep ==
    ASSUME IInv, IInv', [Next]_vars
    PROVE  [Ledger!Next]_(Ledger!ledgerVars)
<1> USE DEF Ledger!ledgerVars
<1>1. ASSUME UNCHANGED <<row, confirmations>>
      PROVE  UNCHANGED <<row.status, Confirmers>>
  BY <1>1 DEF Confirmers
<1>2. /\ Cardinality(Confirmers) \in Nat /\ Cardinality(Confirmers') \in Nat
      /\ row \in Row /\ row' \in Row /\ Threshold \in Nat
  BY FS_CardinalityType, RowAssumption DEF IInv, TypeOK
<1>3. row'.status = "VERIFIED" => Confirmers' \in Enough
  BY <1>2 DEF IInv, CopyOK, Row, Enough, TypeOK, Confirmers
<1>4. ASSUME NEW t \in Txns, Commit(t)
      PROVE  [Ledger!Next]_(Ledger!ledgerVars)
  <2>1. CASE tx[t].op = "create"
    <3>1. row.status = "ABSENT" /\ Confirmers' = Confirmers
      BY <1>4, <2>1, CommitExists, CommitConfirmers DEF Exists
    <3>2. row' = row \/ row'.status = "ACTIVE"
      BY <1>4, <2>1, CommitExists DEF Written, NewRow, NoRow
    <3>3. QED
      BY <3>1, <3>2 DEF Ledger!Next, Ledger!File
  <2>2. CASE tx[t].op # "create"
    <3>1. row.status \in Ledger!Stored /\ row'.status \in Ledger!Stored
      BY <1>2, <1>4, <2>2, CommitExists
      DEF Exists, Row, OpenStatuses, ClosedStatuses, Ledger!Stored
    <3>2. CASE tx[t].op = "confirm"
      <4>1. tx[t].user \in Users \ {Reporter}
        BY <3>2 DEF IInv, TypeOK, Transaction, TxOK
      <4>2. Ledger!Vouch(tx[t].user)
        BY <1>3, <1>4, <3>1, <3>2, CommitConfirmers DEF Ledger!Vouch, Ledger!Allowed
      <4>3. QED
        BY <4>1, <4>2 DEF Ledger!Next
    <3>3. CASE tx[t].op # "confirm"
      <4>1. Confirmers' = Confirmers
        BY <1>4, <3>3, CommitConfirmers
      <4>2. Ledger!Move
        BY <1>3, <3>1, <4>1 DEF Ledger!Move, Ledger!Allowed
      <4>3. QED
        BY <4>2 DEF Ledger!Next
    <3>4. QED
      BY <3>2, <3>3
  <2>3. QED
    BY <2>1, <2>2
<1>5. CASE Sweep
  <2>1. /\ row.status \in Ledger!Stored /\ row'.status \in Ledger!Stored
        /\ row'.status # "VERIFIED"
        /\ Confirmers' = Confirmers
    BY <1>2, <1>5 DEF Sweep, Confirmers, Row, OpenStatuses, Ledger!Stored
  <2>2. QED
    BY <2>1 DEF Ledger!Next, Ledger!Move, Ledger!Allowed
<1>6. ASSUME NEW t \in Txns, Request(t) \/ Abort(t)
      PROVE  UNCHANGED <<row, confirmations>>
  BY <1>6 DEF Request, BeginCreate, BeginScore, BeginConfirm, BeginResolve,
              BeginComment, Begin, Abort, Rollback
<1>7. ASSUME NEW t \in Txns, Serve(t), ~Commit(t)
      PROVE  UNCHANGED <<row, confirmations>>
  BY <1>7 DEF Serve, SendCreated, CheckUnconfirmed, InsertConfirmation,
              InsertComment, Announce, Step, Rollback
<1>8. CASE Lapse \/ UNCHANGED vars
  BY <1>1, <1>8 DEF Lapse, vars
<1>9. QED
  BY <1>1, <1>4, <1>5, <1>6, <1>7, <1>8 DEF Next

(* AlertRow implements AlertLedger.                                        *)
THEOREM Refinement == Spec => KeepsLedger
<1>1. Init => Ledger!Init
  BY DEF Init, Ledger!Init, NoRow, Confirmers
<1>2. IInv /\ IInv' /\ [Next]_vars => [Ledger!Next]_(Ledger!ledgerVars)
  BY LedgerStep
<1>3. QED
  BY <1>1, <1>2, Invariance, PTL DEF Spec, KeepsLedger, Ledger!Spec

-----------------------------------------------------------------------------
(***************************************************************************)
(* Proofs about AlertPipeline for any number of replicas, listeners,       *)
(* attempts, faults and outages.  The pipeline is a way of running         *)
(* AlertRow (PipeRefinesRow), so AlertRow's theorems hold of it; it loses  *)
(* no accepted alert (Delivery), and makes no more copies of it than       *)
(* crashes and outages account for (CopiesBoundedAlways).                  *)
(***************************************************************************)

(* What the broker's counts, the replicas and the listeners can be.        *)
PipeTypes ==
    /\ verdict \in Scores \cup {"UNSCORED"}
    /\ sent \in {"unsent", "accepted", "refused"}
    /\ ready \in [created: Nat, scored: Nat, dead: Nat]
    /\ scorer \in [Scorers -> {"idle", "scoring", "published"}]
    /\ listener \in [Listeners -> [attempt: 0..MaxAttempts, held: BOOLEAN]]
    /\ \A l \in Listeners : listener[l].held => listener[l].attempt > 0

(* Nothing downstream of the ML service exists for an abstention.          *)
ScoredOnVerdict ==
    (ready.scored > 0 \/ \E l \in Listeners : listener[l].attempt > 0)
        => verdict # "UNSCORED"

(* Which transactions run where, and that a copy never knows of a score    *)
(* the row has lost.                                                       *)
ThreadOK(t) ==
    /\ tx[t].op \in {"none", "create", "score"}
    /\ tx[t].op = "create" => t \notin Listeners /\ tx[t].read.status = "ABSENT"
    /\ tx[t].op = "score" => /\ t \in Listeners
                             /\ tx[t].score = verdict
                             /\ listener[t].attempt > 0
                             /\ tx[t].read.severity = verdict
                                    => row.severity = verdict

(* The inductive invariant of Delivery, on top of AlertRow's.              *)
PipeInv ==
    /\ PipeTypes
    /\ ScoredOnVerdict
    /\ \A t \in Txns : ThreadOK(t)
    /\ ~Exists => row.severity = "UNSCORED"
    /\ NothingLost
-----------------------------------------------------------------------------
(* The invariant holds before the alert is reported.                       *)
LEMMA PipeInitInv == PipeInit => PipeInv
<1> SUFFICES ASSUME PipeInit PROVE PipeInv
  OBVIOUS
<1>1. PipeTypes
  BY PipelineAssumption DEF PipeInit, PipeTypes, Free
<1>2. ScoredOnVerdict /\ NothingLost
  BY DEF PipeInit, ScoredOnVerdict, NothingLost, Free
<1>3. (\A t \in Txns : ThreadOK(t)) /\ row.severity = "UNSCORED"
  BY DEF PipeInit, Init, ThreadOK, Idle, NoRow
<1>4. QED
  BY <1>1, <1>2, <1>3 DEF PipeInv

(* Every step of the pipeline is a step of AlertRow or leaves it alone.    *)
LEMMA PipeStepsRow ==
    ASSUME PipeInv, [PipeNext]_allVars
    PROVE  [Next]_vars
<1> USE PipelineAssumption
<1>1. CASE UNCHANGED allVars
  BY <1>1 DEF allVars
<1>2. ASSUME NEW t \in Txns, Report(t) \/ PublishCreated(t)
      PROVE  Next
  BY <1>2 DEF Report, PublishCreated, Next, Request, Serve
<1>3. ASSUME NEW m \in Scorers, Score(m) \/ NackCreated(m) \/ ScorerCrash(m)
      PROVE  UNCHANGED vars
  BY <1>3 DEF Score, NackCreated, ScorerCrash, TakeCreated, Abstain, PublishScored, AckCreated,
              Scoring
<1>4. ASSUME NEW l \in Listeners, Listen(l) \/ AbortAttempt(l) \/ ListenerCrash(l)
      PROVE  [Next]_vars
  <2>1. CASE TakeScored(l)
    BY <2>1 DEF TakeScored
  <2>2. CASE StartAttempt(l)
    <3>1. verdict \in Scores
      BY <2>2 DEF StartAttempt, PipeInv, ScoredOnVerdict, PipeTypes
    <3>2. QED
      BY <2>2, <3>1 DEF StartAttempt, Next, Request
  <2>3. CASE RunAttempt(l) \/ AbortAttempt(l) \/ ListenerCrash(l)
    BY <2>3 DEF RunAttempt, AbortAttempt, ListenerCrash, Next, Serve
  <2>4. QED
    BY <1>4, <2>1, <2>2, <2>3 DEF Listen
<1>5. CASE Expire
  BY <1>5 DEF Expire, Next
<1>6. CASE BrokerDown \/ BrokerUp
  BY <1>6 DEF BrokerDown, BrokerUp
<1>7. QED
  BY <1>1, <1>2, <1>3, <1>4, <1>5, <1>6 DEF PipeNext

(* While the row and the transactions stay put, ThreadOK needs only that   *)
(* no listener with a transaction is freed.                                *)
LEMMA ThreadsStay ==
    ASSUME PipeInv, UNCHANGED <<row, tx, verdict>>,
           \A l \in Listeners :
               tx[l].op = "score" /\ listener[l].attempt > 0 => listener'[l].attempt > 0
    PROVE  (\A t \in Txns : ThreadOK(t)') /\ (~Exists => row.severity = "UNSCORED")'
BY DEF PipeInv, ThreadOK, Exists

(* The ML consumer.                                                        *)
LEMMA ScorerInv ==
    ASSUME PipeInv, NEW m \in Scorers, Score(m) \/ NackCreated(m) \/ ScorerCrash(m)
    PROVE  PipeInv'
<1>1. UNCHANGED <<row, tx, verdict, listener, sent>>
  BY DEF Score, NackCreated, ScorerCrash, TakeCreated, Abstain, PublishScored, AckCreated,
         Scoring, vars
<1>2. (\A t \in Txns : ThreadOK(t)') /\ (~Exists => row.severity = "UNSCORED")'
  BY <1>1, ThreadsStay
<1>3. PipeTypes'
  BY <1>1 DEF PipeInv, PipeTypes, Score, NackCreated, ScorerCrash, TakeCreated, Abstain,
              PublishScored, AckCreated, Scoring
<1>4. ScoredOnVerdict'
  BY <1>1 DEF PipeInv, PipeTypes, ScoredOnVerdict, Score, NackCreated, ScorerCrash, TakeCreated,
              Abstain, PublishScored, AckCreated, Scoring
<1>5. NothingLost'
  <2> SUFFICES ASSUME sent = "accepted", verdict # "UNSCORED"
               PROVE  (InFlight \/ ready.dead > 0 \/ row.severity = verdict)'
    BY <1>1 DEF NothingLost
  <2>1. InFlight \/ ready.dead > 0 \/ row.severity = verdict
    BY DEF PipeInv, NothingLost
  <2>2. CASE TakeCreated(m)
    BY <2>2, <1>1 DEF TakeCreated, Scoring, PipeInv, PipeTypes, InFlight
  <2>3. CASE PublishScored(m)
    BY <2>3, <1>1 DEF PublishScored, Scoring, PipeInv, PipeTypes, InFlight
  <2>4. CASE AckCreated(m)
    <3>1. \A n \in Scorers : scorer[n] = "scoring" => scorer'[n] = "scoring"
      BY <2>4 DEF AckCreated, Scoring, PipeInv, PipeTypes
    <3>2. QED
      BY <2>1, <2>4, <3>1, <1>1 DEF AckCreated, InFlight
  <2>5. CASE ScorerCrash(m)
    BY <2>5, <1>1 DEF ScorerCrash, PipeInv, PipeTypes, InFlight
  <2>6. CASE Abstain(m)
    BY <2>6 DEF Abstain
  <2>7. CASE NackCreated(m)
    BY <2>7, <1>1 DEF NackCreated, PipeInv, PipeTypes
  <2>8. QED
    BY <2>2, <2>3, <2>4, <2>5, <2>6, <2>7 DEF Score
<1>6. QED
  BY <1>2, <1>3, <1>4, <1>5 DEF PipeInv

(* What a commit does to the score: it stores the verdict, or it is the    *)
(* create's and there was no score.                                        *)
LEMMA CommitSeverity ==
    ASSUME IInv, PipeInv, NEW t \in Txns, Commit(t)
    PROVE  /\ tx' = [tx EXCEPT ![t] = Idle]
           /\ Exists \/ Exists' => Exists'
           /\ tx[t].op \in {"create", "score"}
           /\ tx[t].op = "score" => row'.severity = verdict /\ Exists'
           /\ tx[t].op = "create" =>
                /\ row.severity = "UNSCORED" /\ row'.severity = "UNSCORED"
                /\ \A r \in Txns : tx[r].op # "score"
<1>1. /\ tx' = [tx EXCEPT ![t] = Idle]
      /\ row' = IF Written(tx[t]) = tx[t].read THEN row ELSE Written(tx[t])
      /\ tx[t].read \in Row /\ row \in Row
  BY DEF Commit, IInv, TypeOK, Transaction
<1>2. tx[t].op \in {"create", "score"}
  BY CommitExists DEF PipeInv, ThreadOK
<1>3. ASSUME tx[t].op = "score"
      PROVE  row'.severity = verdict /\ Exists'
  <2>1. Written(tx[t]) = [tx[t].read EXCEPT !.severity = verdict]
    BY <1>3 DEF Written, PipeInv, ThreadOK
  <2>2. Written(tx[t]).severity = verdict
    BY <1>1, <2>1 DEF Row
  <2>3. row'.severity = verdict
    BY <1>1, <1>3, <2>2 DEF PipeInv, ThreadOK
  <2>4. QED
    BY <1>3, <2>3, CommitExists
<1>4. ASSUME tx[t].op = "create"
      PROVE  /\ row.severity = "UNSCORED" /\ row'.severity = "UNSCORED"
             /\ Exists'
             /\ \A r \in Txns : tx[r].op # "score"
  <2>1. ~Exists /\ \A r \in Txns \ {t} : tx[r].op = "none"
    BY <1>4, CommitExists
  <2>2. Written(tx[t]) = NewRow /\ NewRow.severity = "UNSCORED"
        /\ NewRow.status = "ACTIVE"
    BY <1>4 DEF Written, NewRow, NoRow
  <2>3. row.severity = "UNSCORED"
    BY <2>1 DEF PipeInv
  <2>4. tx[t].read # NewRow
    BY <1>4, <2>2 DEF PipeInv, ThreadOK
  <2>5. QED
    BY <1>1, <1>4, <2>1, <2>2, <2>3, <2>4 DEF Exists
<1>5. QED
  BY <1>1, <1>2, <1>3, <1>4

(* A failed attempt keeps the message, or dead-letters it.                 *)
LEMMA FailKeeps ==
    ASSUME PipeInv, NEW l \in Listeners, Fail(l), listener[l].attempt > 0,
           UNCHANGED <<scorer, verdict>>
    PROVE  /\ (sent' = sent => PipeTypes')
           /\ ScoredOnVerdict'
           /\ InFlight \/ ready.dead > 0 => InFlight' \/ ready'.dead > 0
           /\ \A k \in Listeners \ {l} : listener'[k] = listener[k]
<1>1. listener[l] \in [attempt: 0..MaxAttempts, held: BOOLEAN]
  BY DEF PipeInv, PipeTypes
<1>2. CASE listener[l].attempt < MaxAttempts
  <2>1. /\ ready' = ready
        /\ listener' = [listener EXCEPT ![l].attempt = @ + 1]
    BY <1>2 DEF Fail
  <2>2. /\ listener'[l] = [attempt |-> listener[l].attempt + 1,
                           held |-> listener[l].held]
        /\ \A k \in Listeners \ {l} : listener'[k] = listener[k]
    BY <1>1, <2>1 DEF PipeInv, PipeTypes
  <2>3. listener' \in [Listeners -> [attempt: 0..MaxAttempts, held: BOOLEAN]]
    BY <1>1, <1>2, <2>1, PipelineAssumption DEF PipeInv, PipeTypes
  <2>4. \A k \in Listeners : listener'[k].held = listener[k].held
    BY <2>2
  <2>5. \A k \in Listeners : listener'[k].held => listener'[k].attempt > 0
    BY <1>1, <2>2 DEF PipeInv, PipeTypes
  <2>6. QED
    BY <2>1, <2>2, <2>3, <2>4, <2>5 DEF PipeInv, PipeTypes, ScoredOnVerdict, InFlight
<1>3. CASE ~(listener[l].attempt < MaxAttempts)
  <2>1. /\ ready' = [ready EXCEPT !.dead = IF listener[l].held THEN @ + 1 ELSE @]
        /\ listener' = [listener EXCEPT ![l] = Free]
    BY <1>3 DEF Fail, Release
  <2>2. /\ listener'[l] = Free
        /\ \A k \in Listeners \ {l} : listener'[k] = listener[k]
        /\ listener' \in [Listeners -> [attempt: 0..MaxAttempts, held: BOOLEAN]]
    BY <2>1, PipelineAssumption DEF PipeInv, PipeTypes, Free
  <2>3. /\ ready' \in [created: Nat, scored: Nat, dead: Nat]
        /\ ready'.created = ready.created /\ ready'.scored = ready.scored
        /\ listener[l].held => ready'.dead > 0
        /\ ready.dead > 0 => ready'.dead > 0
    BY <2>1 DEF PipeInv, PipeTypes
  <2>4. QED
    BY <2>2, <2>3 DEF PipeInv, PipeTypes, ScoredOnVerdict, InFlight, Free
<1>4. QED
  BY <1>2, <1>3

(* A listener's transaction ends without effect.                           *)
LEMMA AbortKeeps ==
    ASSUME IInv, PipeInv, NEW l \in Listeners, Abort(l), UNCHANGED verdict,
           \A k \in Listeners \ {l} : listener'[k] = listener[k]
    PROVE  (\A t \in Txns : ThreadOK(t)') /\ (~Exists => row.severity = "UNSCORED")'
<1>1. row' = row /\ tx' = [tx EXCEPT ![l] = Idle]
  BY DEF Abort, Rollback
<1>2. /\ l \in Txns /\ tx'[l] = Idle
      /\ \A t \in Txns \ {l} : tx'[t] = tx[t]
  BY <1>1, PipelineAssumption DEF IInv, TypeOK
<1>3. ThreadOK(l)'
  BY <1>2 DEF ThreadOK, Idle
<1>4. ASSUME NEW t \in Txns \ {l} PROVE ThreadOK(t)'
  BY <1>1, <1>2 DEF PipeInv, ThreadOK
<1>5. QED
  BY <1>1, <1>3, <1>4 DEF PipeInv, Exists

(* A listener's transaction commits and the listener is freed.             *)
LEMMA CommitKeeps ==
    ASSUME IInv, PipeInv, NEW l \in Listeners, Commit(l), Release(l), UNCHANGED verdict
    PROVE  /\ \A t \in Txns : ThreadOK(t)'
           /\ (~Exists => row.severity = "UNSCORED")'
           /\ row'.severity = verdict
<1>1. l \in Txns
  BY PipelineAssumption
<1>2. tx[l].op = "score"
  BY <1>1, CommitSeverity DEF PipeInv, ThreadOK
<1>3. row'.severity = verdict /\ Exists' /\ tx' = [tx EXCEPT ![l] = Idle]
  BY <1>1, <1>2, CommitSeverity
<1>4. /\ tx'[l] = Idle /\ \A t \in Txns \ {l} : tx'[t] = tx[t]
      /\ \A k \in Listeners \ {l} : listener'[k] = listener[k]
  BY <1>1, <1>3 DEF IInv, TypeOK, PipeInv, PipeTypes, Release
<1>5. ThreadOK(l)'
  BY <1>4 DEF ThreadOK, Idle
<1>6. ASSUME NEW t \in Txns \ {l} PROVE ThreadOK(t)'
  BY <1>3, <1>4 DEF PipeInv, ThreadOK
<1>7. QED
  BY <1>3, <1>5, <1>6

(* The listeners.                                                          *)
LEMMA ListenerInv ==
    ASSUME IInv, PipeInv, NEW l \in Listeners,
           Listen(l) \/ AbortAttempt(l) \/ ListenerCrash(l)
    PROVE  PipeInv'
<1>1. l \in Txns /\ listener[l] \in [attempt: 0..MaxAttempts, held: BOOLEAN]
  BY PipelineAssumption DEF PipeInv, PipeTypes
<1>2. UNCHANGED <<verdict, sent, scorer>>
  BY DEF Listen, TakeScored, StartAttempt, RunAttempt, AbortAttempt, ListenerCrash
<1>3. sent = "accepted" /\ verdict # "UNSCORED"
        => InFlight \/ ready.dead > 0 \/ row.severity = verdict
  BY DEF PipeInv, NothingLost
<1>4. ASSUME Release(l)
      PROVE  /\ listener'[l] = Free
             /\ \A k \in Listeners \ {l} : listener'[k] = listener[k]
             /\ listener' \in [Listeners -> [attempt: 0..MaxAttempts, held: BOOLEAN]]
             /\ \A k \in Listeners : listener'[k].held => listener'[k].attempt > 0
  BY <1>4, PipelineAssumption DEF Release, PipeInv, PipeTypes, Free
<1>5. CASE TakeScored(l)
  <2>1. /\ UNCHANGED <<row, tx>>
        /\ ready' = [ready EXCEPT !.scored = @ - 1] /\ ready.scored > 0
        /\ listener[l] = Free
        /\ listener' = [listener EXCEPT ![l] = [attempt |-> 1, held |-> TRUE]]
    BY <1>5 DEF TakeScored, vars
  <2>2. /\ listener'[l] = [attempt |-> 1, held |-> TRUE]
        /\ \A k \in Listeners \ {l} : listener'[k] = listener[k]
        /\ listener' \in [Listeners -> [attempt: 0..MaxAttempts, held: BOOLEAN]]
    BY <2>1, PipelineAssumption DEF PipeInv, PipeTypes
  <2>3. \A k \in Listeners :
           tx[k].op = "score" /\ listener[k].attempt > 0 => listener'[k].attempt > 0
    BY <2>2
  <2>4. (\A t \in Txns : ThreadOK(t)') /\ (~Exists => row.severity = "UNSCORED")'
    BY <1>2, <2>1, <2>3, ThreadsStay
  <2>5. PipeTypes' /\ ScoredOnVerdict'
    BY <1>2, <2>1, <2>2 DEF PipeInv, PipeTypes, ScoredOnVerdict
  <2>6. NothingLost'
    BY <2>2 DEF NothingLost, InFlight
  <2>7. QED
    BY <2>4, <2>5, <2>6 DEF PipeInv
<1>6. CASE StartAttempt(l) /\ Exists
  <2>1. /\ row' = row
        /\ tx' = [tx EXCEPT ![l] = [op |-> "score", phase |-> "loaded",
                     user |-> Reporter, device |-> ReporterDevice,
                     score |-> verdict, read |-> row]]
        /\ UNCHANGED <<listener, ready>> /\ listener[l].attempt > 0
    BY <1>6 DEF StartAttempt, BeginScore, Begin
  <2>2. \A t \in Txns \ {l} : tx'[t] = tx[t]
    BY <2>1 DEF IInv, TypeOK
  <2>3. ThreadOK(l)'
    BY <1>1, <1>2, <2>1 DEF ThreadOK, IInv, TypeOK
  <2>4. ASSUME NEW t \in Txns \ {l} PROVE ThreadOK(t)'
    BY <1>2, <2>1, <2>2 DEF PipeInv, ThreadOK
  <2>5. QED
    BY <1>2, <1>3, <2>1, <2>3, <2>4
       DEF PipeInv, PipeTypes, ScoredOnVerdict, NothingLost, InFlight, Exists
<1>7. CASE StartAttempt(l) /\ ~Exists
  <2>1. Fail(l) /\ UNCHANGED <<row, tx>> /\ listener[l].attempt > 0 /\ ~Running(l)
    BY <1>7 DEF StartAttempt, vars
  <2>2. tx[l].op # "score"
    BY <1>1, <2>1 DEF IInv, TxOK, Running
  <2>3. (\A t \in Txns : ThreadOK(t)') /\ (~Exists => row.severity = "UNSCORED")'
    BY <1>2, <2>1, <2>2, FailKeeps, ThreadsStay
  <2>4. QED
    BY <1>2, <1>3, <2>1, <2>3, FailKeeps DEF PipeInv, NothingLost
<1>8. CASE RunAttempt(l) /\ Announce(l)
  <2>1. /\ row' = row /\ tx' = [tx EXCEPT ![l].phase = "announced"]
        /\ tx[l].op # "none"
    BY <1>8 DEF Announce, Step
  <2>2. /\ \A t \in Txns \ {l} : tx'[t] = tx[t]
        /\ tx'[l].op = tx[l].op /\ tx'[l].score = tx[l].score
        /\ tx'[l].read = tx[l].read
    BY <1>1, <2>1 DEF IInv, TypeOK, Transaction
  <2>3. UNCHANGED <<listener, ready>>
    <3>1. tx[l].phase # "announced"
      BY <1>8 DEF Announce
    <3>2. QED
      BY <1>8, <3>1 DEF RunAttempt, Commit
  <2>4. \A t \in Txns : ThreadOK(t)'
    BY <1>2, <2>1, <2>2, <2>3 DEF PipeInv, ThreadOK
  <2>5. QED
    BY <1>2, <1>3, <2>1, <2>3, <2>4
       DEF PipeInv, PipeTypes, ScoredOnVerdict, NothingLost, InFlight, Exists
<1>9. CASE RunAttempt(l) /\ Commit(l)
  <2>1. Release(l) /\ ready' = ready
    <3>1. ~Announce(l)
      BY <1>9 DEF Announce, Commit
    <3>2. QED
      BY <1>9, <3>1 DEF RunAttempt
  <2>2. QED
    BY <1>2, <1>4, <1>9, <2>1, CommitKeeps
       DEF PipeInv, PipeTypes, ScoredOnVerdict, NothingLost, Free
<1>10. CASE AbortAttempt(l)
  <2>1. Running(l) /\ Abort(l) /\ Fail(l) /\ row' = row
    BY <1>10 DEF AbortAttempt, Abort, Rollback
  <2>2. listener[l].attempt > 0
    BY <1>1, <2>1 DEF PipeInv, ThreadOK, IInv, TxOK, Running
  <2>3. QED
    BY <1>2, <1>3, <2>1, <2>2, FailKeeps, AbortKeeps DEF PipeInv, NothingLost
<1>11. CASE ListenerCrash(l)
  <2>1. /\ Release(l) /\ listener[l].attempt > 0
        /\ ready' = [ready EXCEPT !.scored = IF listener[l].held THEN @ + 1 ELSE @]
    BY <1>11 DEF ListenerCrash
  <2>2. /\ ready' \in [created: Nat, scored: Nat, dead: Nat]
        /\ ready'.created = ready.created /\ ready'.dead = ready.dead
        /\ ready'.scored >= ready.scored
        /\ listener[l].held => ready'.scored > 0
    BY <1>1, <2>1 DEF PipeInv, PipeTypes
  <2>3. PipeTypes' /\ ScoredOnVerdict'
    BY <1>2, <1>4, <2>1, <2>2 DEF PipeInv, PipeTypes, ScoredOnVerdict, Free
  <2>4. InFlight \/ ready.dead > 0 => InFlight' \/ ready'.dead > 0
    BY <1>2, <1>4, <2>1, <2>2 DEF InFlight, PipeInv, PipeTypes
  <2>5. CASE Commit(l)
    BY <1>2, <2>1, <2>3, <2>5, CommitKeeps DEF PipeInv, NothingLost
  <2>6. CASE Abort(l)
    <3>1. row' = row
      BY <2>6 DEF Abort, Rollback
    <3>2. QED
      BY <1>2, <1>3, <1>4, <2>1, <2>3, <2>4, <2>6, <3>1, AbortKeeps
         DEF PipeInv, NothingLost
  <2>7. CASE ~Running(l) /\ UNCHANGED vars
    <3>1. tx[l].op # "score" /\ UNCHANGED <<row, tx>>
      BY <1>1, <2>7 DEF IInv, TxOK, Running, vars
    <3>2. (\A t \in Txns : ThreadOK(t)') /\ (~Exists => row.severity = "UNSCORED")'
      BY <1>2, <1>4, <2>1, <3>1, ThreadsStay
    <3>3. QED
      BY <1>2, <1>3, <2>3, <2>4, <3>1, <3>2 DEF PipeInv, NothingLost
  <2>8. QED
    BY <1>11, <2>5, <2>6, <2>7 DEF ListenerCrash
<1>12. QED
  BY <1>5, <1>6, <1>7, <1>8, <1>9, <1>10, <1>11 DEF Listen, RunAttempt

(* The reporter's thread.                                                  *)
LEMMA ReportInv ==
    ASSUME IInv, PipeInv, NEW t \in Txns, Report(t) \/ PublishCreated(t)
    PROVE  PipeInv'
<1>1. /\ t \notin Listeners
      /\ UNCHANGED <<verdict, broker, scorer, listener, faults, outages>>
  BY DEF Report, PublishCreated, pipeVars
<1>2. ASSUME \A s \in Txns \ {t} : tx'[s] = tx[s], row' = row,
             \/ tx'[t].op = "none"
             \/ tx'[t].op = "create" /\ tx'[t].read.status = "ABSENT"
      PROVE  (\A s \in Txns : ThreadOK(s)') /\ (~Exists => row.severity = "UNSCORED")'
  <2>1. ThreadOK(t)'
    BY <1>1, <1>2 DEF ThreadOK
  <2>2. ASSUME NEW s \in Txns \ {t} PROVE ThreadOK(s)'
    BY <1>1, <1>2 DEF PipeInv, ThreadOK
  <2>3. QED
    BY <1>2, <2>1, <2>2 DEF PipeInv, Exists
<1>3. ASSUME UNCHANGED <<sent, ready>>
      PROVE  PipeTypes' /\ ScoredOnVerdict' /\ (row' = row => NothingLost')
  BY <1>1, <1>3 DEF PipeInv, PipeTypes, ScoredOnVerdict, NothingLost, InFlight
<1>4. CASE Report(t) /\ BeginCreate(t) /\ sent = "unsent"
  <2>1. /\ row' = row /\ tx'[t].op = "create" /\ tx'[t].read.status = "ABSENT"
        /\ \A s \in Txns \ {t} : tx'[s] = tx[s]
    BY <1>4 DEF BeginCreate, Begin, Exists, IInv, TypeOK
  <2>2. QED
    BY <1>2, <1>3, <1>4, <2>1 DEF Report, pipeVars, PipeInv
<1>5. CASE Report(t) /\ tx[t].op = "create" /\ Announce(t)
  <2>1. /\ row' = row /\ tx'[t].op = "create" /\ tx'[t].read = tx[t].read
        /\ \A s \in Txns \ {t} : tx'[s] = tx[s]
    BY <1>5 DEF Announce, Step, IInv, TypeOK, Transaction
  <2>2. tx'[t].read.status = "ABSENT"
    BY <1>5, <2>1 DEF PipeInv, ThreadOK
  <2>3. QED
    BY <1>2, <1>3, <1>5, <2>1, <2>2 DEF Report, pipeVars, PipeInv
<1>6. CASE Report(t) /\ tx[t].op = "create" /\ Commit(t)
  <2>1. /\ row.severity = "UNSCORED" /\ row'.severity = "UNSCORED"
        /\ tx' = [tx EXCEPT ![t] = Idle]
        /\ \A r \in Txns : tx[r].op # "score"
    BY <1>6, CommitSeverity
  <2>2. tx'[t] = Idle /\ \A s \in Txns \ {t} : tx'[s] = tx[s]
    BY <2>1 DEF IInv, TypeOK
  <2>3. \A s \in Txns : ThreadOK(s)'
    BY <1>1, <2>1, <2>2 DEF PipeInv, ThreadOK, Idle
  <2>4. NothingLost'
    BY <1>1, <1>6, <2>1 DEF PipeInv, NothingLost, InFlight, Report, pipeVars
  <2>5. QED
    BY <1>3, <1>6, <2>1, <2>3, <2>4 DEF PipeInv, Report, pipeVars
<1>7. CASE Report(t) /\ Abort(t)
  <2>1. row' = row /\ tx'[t] = Idle /\ \A s \in Txns \ {t} : tx'[s] = tx[s]
    BY <1>7 DEF Abort, Rollback, IInv, TypeOK
  <2>2. QED
    BY <1>2, <1>3, <1>7, <2>1 DEF Report, pipeVars, PipeInv, Idle
<1>8. CASE PublishCreated(t)
  <2>1. tx[t].op = "create" /\ row' = row /\ tx' = [tx EXCEPT ![t].phase = "stored"]
    BY <1>8 DEF PublishCreated, SendCreated, In, Step
  <2>2. /\ tx'[t].op = "create" /\ tx'[t].read = tx[t].read
        /\ \A s \in Txns \ {t} : tx'[s] = tx[s]
    BY <2>1 DEF IInv, TypeOK, Transaction
  <2>3. tx'[t].read.status = "ABSENT"
    BY <2>1, <2>2 DEF PipeInv, ThreadOK
  <2>4. /\ \/ sent' = "accepted" /\ ready' = [ready EXCEPT !.created = @ + 1]
           \/ sent' = "refused" /\ ready' = ready
        /\ ready \in [created: Nat, scored: Nat, dead: Nat]
    BY <1>8 DEF PublishCreated, PipeInv, PipeTypes
  <2>5. /\ ready' \in [created: Nat, scored: Nat, dead: Nat]
        /\ ready'.scored = ready.scored
        /\ sent' = "accepted" => ready'.created > 0
    BY <2>4
  <2>6. PipeTypes' /\ ScoredOnVerdict'
    BY <1>1, <2>4, <2>5 DEF PipeInv, PipeTypes, ScoredOnVerdict
  <2>7. NothingLost'
    BY <2>5 DEF NothingLost, InFlight
  <2>8. QED
    BY <1>2, <2>1, <2>2, <2>3, <2>6, <2>7 DEF PipeInv
<1>9. QED
  BY <1>4, <1>5, <1>6, <1>7, <1>8 DEF Report

(* Time and the sweep, which touch the status alone.                       *)
LEMMA ExpireInv ==
    ASSUME IInv, PipeInv, Expire
    PROVE  PipeInv'
<1>1. /\ row'.severity = row.severity /\ Exists /\ Exists'
      /\ UNCHANGED <<tx, pipeVars>>
  BY DEF Expire, Lapse, Sweep, IInv, TypeOK, Row, Exists, OpenStatuses
<1>2. \A t \in Txns : ThreadOK(t)'
  BY <1>1 DEF PipeInv, ThreadOK, pipeVars
<1>3. PipeTypes' /\ ScoredOnVerdict' /\ NothingLost'
  BY <1>1 DEF PipeInv, PipeTypes, ScoredOnVerdict, NothingLost, InFlight, pipeVars
<1>4. QED
  BY <1>1, <1>2, <1>3 DEF PipeInv

(* A part of a finite set with a member is counted as at least one.        *)
LEMMA SomeCounted ==
    ASSUME NEW S, IsFiniteSet(S), NEW T, T \subseteq S
    PROVE  Cardinality(T) \in Nat /\ (T # {} => Cardinality(T) > 0)
<1>1. IsFiniteSet(T)
  BY FS_Subset
<1>2. Cardinality(T) \in Nat /\ (Cardinality(T) = 0 <=> T = {})
  BY <1>1, FS_CardinalityType, FS_EmptySet
<1>3. QED
  BY <1>2

(* The broker's outages: what was held is ready again.                     *)
LEMMA BrokerInv ==
    ASSUME PipeInv, BrokerDown \/ BrokerUp
    PROVE  PipeInv'
<1>1. UNCHANGED <<row, tx, verdict, sent>>
  BY DEF BrokerDown, BrokerUp, vars
<1>2. CASE BrokerUp
  BY <1>1, <1>2, ThreadsStay
     DEF BrokerUp, PipeInv, PipeTypes, ScoredOnVerdict, NothingLost, InFlight
<1>3. CASE BrokerDown
  <2> DEFINE busy == {m \in Scorers : scorer[m] # "idle"}
             held == {l \in Listeners : listener[l].held}
  <2>1. /\ Cardinality(busy) \in Nat /\ (busy # {} => Cardinality(busy) > 0)
        /\ Cardinality(held) \in Nat /\ (held # {} => Cardinality(held) > 0)
    BY PipelineAssumption, SomeCounted
  <2>2. /\ ready' = [ready EXCEPT !.created = @ + Cardinality(busy),
                                  !.scored = @ + Cardinality(held)]
        /\ scorer' = [m \in Scorers |-> "idle"]
        /\ listener' = [l \in Listeners |-> [listener[l] EXCEPT !.held = FALSE]]
    BY <1>3 DEF BrokerDown
  <2> HIDE DEF busy, held
  <2>3. /\ ready' \in [created: Nat, scored: Nat, dead: Nat]
        /\ ready'.created = ready.created + Cardinality(busy)
        /\ ready'.scored = ready.scored + Cardinality(held)
        /\ ready'.dead = ready.dead
    <3>1. ASSUME NEW b \in Nat, NEW h \in Nat,
                 ready' = [ready EXCEPT !.created = @ + b, !.scored = @ + h]
          PROVE  /\ ready' \in [created: Nat, scored: Nat, dead: Nat]
                 /\ ready'.created = ready.created + b
                 /\ ready'.scored = ready.scored + h
                 /\ ready'.dead = ready.dead
      <4>1. ready \in [created: Nat, scored: Nat, dead: Nat]
        BY DEF PipeInv, PipeTypes
      <4>2. ready' = [created |-> ready.created + b, scored |-> ready.scored + h,
                      dead |-> ready.dead]
        BY <3>1, <4>1
      <4>3. ready.created + b \in Nat /\ ready.scored + h \in Nat
        BY <4>1
      <4>4. QED
        BY <4>1, <4>2, <4>3
    <3>2. QED
      BY <2>1, <2>2, <3>1
  <2>4. \A l \in Listeners :
           /\ listener'[l].attempt = listener[l].attempt
           /\ ~listener'[l].held
    BY <2>2 DEF PipeInv, PipeTypes
  <2>5. PipeTypes'
    <3>1. listener' \in [Listeners -> [attempt: 0..MaxAttempts, held: BOOLEAN]]
      BY <2>2 DEF PipeInv, PipeTypes
    <3>2. QED
      BY <1>1, <2>2, <2>3, <2>4, <3>1 DEF PipeInv, PipeTypes
  <2>6. ScoredOnVerdict'
    <3>1. ready'.scored > 0 =>
            ready.scored > 0 \/ \E l \in Listeners : listener[l].attempt > 0
      <4>1. held = {} => Cardinality(held) = 0
        BY FS_EmptySet
      <4>2. CASE held = {}
        BY <4>1, <4>2, <2>3 DEF PipeInv, PipeTypes
      <4>3. CASE held # {}
        BY <4>3 DEF held, PipeInv, PipeTypes
      <4>4. QED
        BY <4>2, <4>3
    <3>2. QED
      BY <1>1, <2>4, <3>1 DEF PipeInv, ScoredOnVerdict
  <2>7. NothingLost'
    <3>1. /\ ready \in [created: Nat, scored: Nat, dead: Nat]
          /\ (\E m \in Scorers : scorer[m] = "scoring") => busy # {}
          /\ (\E l \in Listeners : listener[l].held) => held # {}
      BY DEF busy, held, PipeInv, PipeTypes
    <3>2. InFlight => InFlight'
      BY <2>1, <2>3, <3>1 DEF InFlight
    <3>3. QED
      BY <1>1, <2>3, <3>2 DEF PipeInv, NothingLost
  <2>8. (\A t \in Txns : ThreadOK(t)') /\ (~Exists => row.severity = "UNSCORED")'
    <3>1. \A l \in Listeners :
             tx[l].op = "score" /\ listener[l].attempt > 0 => listener'[l].attempt > 0
      BY <2>4
    <3>2. QED
      BY <1>1, <3>1, ThreadsStay
  <2>9. QED
    BY <2>5, <2>6, <2>7, <2>8 DEF PipeInv
<1>4. QED
  BY <1>2, <1>3

(* Every step of the pipeline keeps the invariant.                         *)
LEMMA PipeNextInv == IInv /\ PipeInv /\ [PipeNext]_allVars => PipeInv'
<1> SUFFICES ASSUME IInv, PipeInv, [PipeNext]_allVars
             PROVE  PipeInv'
  OBVIOUS
<1>1. CASE UNCHANGED allVars
  BY <1>1 DEF allVars, pipeVars, vars, PipeInv, PipeTypes, ScoredOnVerdict,
              ThreadOK, Exists, NothingLost, InFlight
<1>2. QED
  BY <1>1, ReportInv, ScorerInv, ListenerInv, ExpireInv, BrokerInv DEF PipeNext
-----------------------------------------------------------------------------
(* Both strengthened invariants hold of every behaviour of the pipeline.   *)
THEOREM PipeInvariance == PipeSpec => [](IInv /\ PipeInv)
<1>1. PipeInit => IInv /\ PipeInv
  BY InitIInv, PipeInitInv DEF PipeInit
<1>2. IInv /\ PipeInv /\ [PipeNext]_allVars => (IInv /\ PipeInv)'
  BY NextIInv, PipeStepsRow, PipeNextInv
<1>3. QED
  BY <1>1, <1>2, PTL DEF PipeSpec

(* The pipeline runs AlertRow: with the queues forgotten, each of its      *)
(* behaviours is one of AlertRow's, so AlertRow's theorems hold of it.     *)
THEOREM PipeRefinesRow == PipeSpec => Spec
<1>1. PipeInit => Init
  BY DEF PipeInit
<1>2. PipeInv /\ [PipeNext]_allVars => [Next]_vars
  BY PipeStepsRow
<1>3. QED
  BY <1>1, <1>2, PipeInvariance, PTL DEF PipeSpec, Spec

(* No crash, outage, refused transaction or retry loses a scorable alert   *)
(* the broker has accepted.                                                *)
THEOREM Delivery == PipeSpec => []NothingLost
<1>1. PipeInv => NothingLost
  BY DEF PipeInv
<1>2. QED
  BY <1>1, PipeInvariance, PTL

(* The queues, the replicas and the listeners keep their types.            *)
THEOREM PipeTypeCorrect == PipeSpec => []PipeTypeOK
<1> DEFINE Counters == broker \in {"up", "down"} /\ faults \in Nat /\ outages \in Nat
<1>1. PipeInit => Counters
  BY DEF PipeInit
<1>2. Counters /\ [PipeNext]_allVars => Counters'
  BY DEF allVars, pipeVars, PipeNext, Report, PublishCreated, Score, NackCreated, ScorerCrash,
         TakeCreated, Abstain, PublishScored, AckCreated, Scoring, Listen, TakeScored,
         StartAttempt, RunAttempt, AbortAttempt, ListenerCrash, Expire, BrokerDown,
         BrokerUp
<1>3. IInv /\ PipeInv /\ Counters => PipeTypeOK
  BY DEF IInv, PipeInv, PipeTypes, PipeTypeOK
<1> HIDE DEF Counters
<1>4. QED
  BY <1>1, <1>2, <1>3, PipeInvariance, PTL DEF PipeSpec
-----------------------------------------------------------------------------
(* How many copies of the alert there are.                                 *)
InScorers == {m \in Scorers : scorer[m] = "scoring"}
InListeners == {l \in Listeners : listener[l].held}

(* The alert is sent once at most: a create that can still send it has not *)
(* been there before, and there is one create at a time.                   *)
CreatesOnce ==
    \A t \in Txns : tx[t].op = "create" =>
        /\ tx[t].phase = "loaded" => sent = "unsent"
        /\ \A s \in Txns : tx[s].op = "create" => s = t

(* The copies that the accepted send, the crashes and the outages account  *)
(* for.                                                                    *)
Due == (IF sent = "unsent" THEN 0 ELSE 1) + faults + outages * Cardinality(Scorers)

(* The inductive invariant of CopiesBoundedAlways, on top of PipeInv.      *)
CopiesInv == faults \in Nat /\ outages \in Nat /\ CreatesOnce /\ Copies <= Due

(* A set is counted one more or one less when one member comes or goes.    *)
LEMMA OneChanges ==
    ASSUME NEW D, IsFiniteSet(D), NEW A \in SUBSET D, NEW B \in SUBSET D, NEW d \in D,
           A \ {d} = B \ {d}
    PROVE  /\ Cardinality(A) \in Nat /\ Cardinality(B) \in Nat
           /\ Cardinality(B) = Cardinality(A) + (IF d \in B THEN 1 ELSE 0)
                                              - (IF d \in A THEN 1 ELSE 0)
<1>1. /\ IsFiniteSet(A) /\ IsFiniteSet(B)
      /\ Cardinality(A) \in Nat /\ Cardinality(B) \in Nat
  BY FS_Subset, FS_CardinalityType
<1>2. CASE d \in A <=> d \in B
  <2>1. A = B
    BY <1>2
  <2>2. QED
    BY <1>1, <1>2, <2>1
<1>3. CASE d \in A /\ d \notin B
  <2>1. A = B \cup {d}
    BY <1>3
  <2>2. Cardinality(A) = Cardinality(B) + 1
    BY <1>1, <1>3, <2>1, FS_AddElement
  <2>3. QED
    BY <1>1, <1>3, <2>2
<1>4. CASE d \notin A /\ d \in B
  <2>1. B = A \cup {d}
    BY <1>4
  <2>2. Cardinality(B) = Cardinality(A) + 1
    BY <1>1, <1>4, <2>1, FS_AddElement
  <2>3. QED
    BY <1>1, <1>4, <2>2
<1>5. QED
  BY <1>2, <1>3, <1>4

(* What can be counted.                                                    *)
LEMMA CountsAre ==
    ASSUME PipeInv
    PROVE  /\ IsFiniteSet(Scorers) /\ IsFiniteSet(Listeners) /\ Cardinality(Scorers) \in Nat
           /\ InScorers \in SUBSET Scorers /\ InListeners \in SUBSET Listeners
           /\ Cardinality(InScorers) \in Nat /\ Cardinality(InListeners) \in Nat
           /\ ready.created \in Nat /\ ready.scored \in Nat /\ ready.dead \in Nat
           /\ Copies = ready.created + ready.scored + ready.dead
                         + Cardinality(InScorers) + Cardinality(InListeners)
<1>1. IsFiniteSet(Scorers) /\ IsFiniteSet(Listeners) /\ Cardinality(Scorers) \in Nat
  BY PipelineAssumption, FS_CardinalityType
<1>2. InScorers \in SUBSET Scorers /\ InListeners \in SUBSET Listeners
  BY DEF InScorers, InListeners
<1>3. Cardinality(InScorers) \in Nat /\ Cardinality(InListeners) \in Nat
  BY <1>1, <1>2, FS_Subset, FS_CardinalityType
<1>4. ready.created \in Nat /\ ready.scored \in Nat /\ ready.dead \in Nat
  BY DEF PipeInv, PipeTypes
<1>5. QED
  BY <1>1, <1>2, <1>3, <1>4 DEF Copies, InScorers, InListeners

(* What one replica does is counted for it alone.                          *)
LEMMA ScorerCounted ==
    ASSUME PipeInv, NEW m \in Scorers,
           \A n \in Scorers \ {m} : scorer'[n] = scorer[n]
    PROVE  /\ Cardinality(InScorers') \in Nat
           /\ Cardinality(InScorers') = Cardinality(InScorers)
                  + (IF scorer'[m] = "scoring" THEN 1 ELSE 0)
                  - (IF scorer[m] = "scoring" THEN 1 ELSE 0)
<1>2. /\ InScorers' \in SUBSET Scorers /\ InScorers \ {m} = InScorers' \ {m}
      /\ (m \in InScorers <=> scorer[m] = "scoring") /\ (m \in InScorers' <=> scorer'[m] = "scoring")
  BY DEF InScorers
<1>3. IsFiniteSet(Scorers) /\ InScorers \in SUBSET Scorers
  BY CountsAre
<1> DEFINE A == InScorers
           B == InScorers'
<1>4. /\ Cardinality(A) \in Nat /\ Cardinality(B) \in Nat
      /\ Cardinality(B) = Cardinality(A) + (IF m \in B THEN 1 ELSE 0)
                                         - (IF m \in A THEN 1 ELSE 0)
  <2>1. A \in SUBSET Scorers /\ B \in SUBSET Scorers /\ A \ {m} = B \ {m}
    BY <1>2, <1>3
  <2> HIDE DEF A, B
  <2>2. QED
    BY <1>3, <2>1, OneChanges
<1>5. QED
  BY <1>2, <1>4

(* And so is what one listener does.                                       *)
LEMMA ListenerCounted ==
    ASSUME PipeInv, NEW l \in Listeners,
           \A k \in Listeners \ {l} : listener'[k] = listener[k]
    PROVE  /\ Cardinality(InListeners') \in Nat
           /\ Cardinality(InListeners') = Cardinality(InListeners)
                  + (IF listener'[l].held THEN 1 ELSE 0)
                  - (IF listener[l].held THEN 1 ELSE 0)
<1>2. /\ InListeners' \in SUBSET Listeners /\ InListeners \ {l} = InListeners' \ {l}
      /\ (l \in InListeners <=> listener[l].held) /\ (l \in InListeners' <=> listener'[l].held)
  BY DEF InListeners
<1>3. IsFiniteSet(Listeners) /\ InListeners \in SUBSET Listeners
  BY CountsAre
<1> DEFINE A == InListeners
           B == InListeners'
<1>4. /\ Cardinality(A) \in Nat /\ Cardinality(B) \in Nat
      /\ Cardinality(B) = Cardinality(A) + (IF l \in B THEN 1 ELSE 0)
                                         - (IF l \in A THEN 1 ELSE 0)
  <2>1. A \in SUBSET Listeners /\ B \in SUBSET Listeners /\ A \ {l} = B \ {l}
    BY <1>2, <1>3
  <2> HIDE DEF A, B
  <2>2. QED
    BY <1>3, <2>1, OneChanges
<1>5. QED
  BY <1>2, <1>4

(* The bound goes up with what it is due to.                               *)
LEMMA DueGrows ==
    ASSUME PipeInv, CopiesInv
    PROVE  /\ Due \in Nat
           /\ UNCHANGED <<sent, faults, outages>> => Due' = Due
           /\ UNCHANGED <<sent, outages>> /\ faults' = faults + 1 => Due' = Due + 1
           /\ UNCHANGED <<faults, outages>> /\ sent = "unsent" /\ sent' # "unsent"
                => Due' = Due + 1
           /\ UNCHANGED <<sent, faults>> /\ outages' = outages + 1
                => Due' = Due + Cardinality(Scorers)
<1> DEFINE c == Cardinality(Scorers)
           p == outages * c
<1>1. c \in Nat /\ faults \in Nat /\ outages \in Nat
  BY CountsAre DEF CopiesInv
<1>2. p \in Nat /\ (outages + 1) * c = p + c
  <2> HIDE DEF c
  <2>1. QED
    BY <1>1
<1>3. outages' = outages => Due' = (IF sent' = "unsent" THEN 0 ELSE 1) + faults' + p
  BY DEF Due
<1>4. outages' = outages + 1
        => Due' = (IF sent' = "unsent" THEN 0 ELSE 1) + faults' + (p + c)
  <2>1. outages' = outages + 1
          => Due' = (IF sent' = "unsent" THEN 0 ELSE 1) + faults' + (outages + 1) * c
    BY DEF Due
  <2> HIDE DEF c, p
  <2>2. QED
    BY <1>2, <2>1
<1>5. Due = (IF sent = "unsent" THEN 0 ELSE 1) + faults + p
  BY DEF Due
<1> HIDE DEF p, c
<1>6. QED
  BY <1>1, <1>2, <1>3, <1>4, <1>5 DEF c

(* A step that starts no create and sends nothing.                         *)
LEMMA CreatesStay ==
    ASSUME CreatesOnce, sent' = sent,
           \A t \in Txns : tx'[t].op = "create" =>
               /\ tx[t].op = "create"
               /\ tx'[t].phase = "loaded" => tx[t].phase = "loaded"
    PROVE  CreatesOnce'
BY DEF CreatesOnce

(* What a step must leave the bound with.                                  *)
LEMMA StillBounded ==
    ASSUME PipeInv, CopiesInv, CreatesOnce', faults' \in Nat, outages' \in Nat,
           NEW more \in Nat,
           Due' = Due + more,
           NEW c \in Int, NEW s \in Int, NEW d \in Int, NEW ms \in Int, NEW ls \in Int,
           ready'.created = ready.created + c, ready'.scored = ready.scored + s,
           ready'.dead = ready.dead + d,
           Cardinality(InScorers') = Cardinality(InScorers) + ms,
           Cardinality(InListeners') = Cardinality(InListeners) + ls,
           c + s + d + ms + ls <= more
    PROVE  CopiesInv'
<1>1. Copies' = ready'.created + ready'.scored + ready'.dead
                  + Cardinality(InScorers') + Cardinality(InListeners')
  BY DEF Copies, InScorers, InListeners
<1>2. Copies <= Due /\ Due \in Nat
  BY DueGrows DEF CopiesInv
<1>3. Copies' <= Due'
  BY <1>1, <1>2, CountsAre
<1>4. QED
  BY <1>3 DEF CopiesInv

(* A replica hands its copy on or dead-letters it; a crash is counted.     *)
LEMMA ScorerCopies ==
    ASSUME PipeInv, CopiesInv, NEW m \in Scorers, Score(m) \/ NackCreated(m) \/ ScorerCrash(m)
    PROVE  CopiesInv'
<1>1. UNCHANGED <<tx, sent, listener, outages>>
  BY DEF Score, NackCreated, ScorerCrash, TakeCreated, Abstain, PublishScored, AckCreated,
         Scoring, vars
<1>2. CreatesOnce' /\ faults \in Nat /\ outages' \in Nat
  BY <1>1 DEF CopiesInv, CreatesOnce
<1>3. Cardinality(InListeners') = Cardinality(InListeners) + 0
  <2>1. InListeners' = InListeners
    BY <1>1 DEF InListeners
  <2>2. QED
    BY <2>1, CountsAre
<1>4. ready \in [created: Nat, scored: Nat, dead: Nat]
  BY DEF PipeInv, PipeTypes
<1>5. CASE TakeCreated(m)
  <2>1. /\ scorer' = [scorer EXCEPT ![m] = "scoring"] /\ scorer[m] = "idle"
        /\ ready' = [ready EXCEPT !.created = @ - 1] /\ faults' = faults
    BY <1>5 DEF TakeCreated, Scoring
  <2>2. Cardinality(InScorers') = Cardinality(InScorers) + 1
    <3>1. scorer'[m] = "scoring" /\ \A n \in Scorers \ {m} : scorer'[n] = scorer[n]
      BY <2>1 DEF PipeInv, PipeTypes
    <3>2. QED
      BY <2>1, <3>1, ScorerCounted, CountsAre
  <2>3. /\ ready'.created = ready.created + -1 /\ ready'.scored = ready.scored + 0
        /\ ready'.dead = ready.dead + 0
    BY <1>4, <2>1
  <2>4. Due' = Due + 0
    BY <1>1, <2>1, DueGrows
  <2>5. QED
    BY <1>2, <1>3, <2>1, <2>2, <2>3, <2>4, StillBounded
<1>6. CASE Abstain(m)
  <2>1. /\ scorer' = [scorer EXCEPT ![m] = "idle"] /\ scorer[m] = "scoring"
        /\ ready' = ready /\ faults' = faults
    BY <1>6 DEF Abstain, Scoring
  <2>2. Cardinality(InScorers') = Cardinality(InScorers) + -1
    <3>1. scorer'[m] = "idle" /\ \A n \in Scorers \ {m} : scorer'[n] = scorer[n]
      BY <2>1 DEF PipeInv, PipeTypes
    <3>2. QED
      BY <2>1, <3>1, ScorerCounted, CountsAre
  <2>3. /\ ready'.created = ready.created + 0 /\ ready'.scored = ready.scored + 0
        /\ ready'.dead = ready.dead + 0
    BY <1>4, <2>1
  <2>4. Due' = Due + 0
    BY <1>1, <2>1, DueGrows
  <2>5. QED
    BY <1>2, <1>3, <2>1, <2>2, <2>3, <2>4, StillBounded
<1>7. CASE PublishScored(m)
  <2>1. /\ scorer' = [scorer EXCEPT ![m] = "published"] /\ scorer[m] = "scoring"
        /\ ready' = [ready EXCEPT !.scored = @ + 1] /\ faults' = faults
    BY <1>7 DEF PublishScored, Scoring
  <2>2. Cardinality(InScorers') = Cardinality(InScorers) + -1
    <3>1. scorer'[m] = "published" /\ \A n \in Scorers \ {m} : scorer'[n] = scorer[n]
      BY <2>1 DEF PipeInv, PipeTypes
    <3>2. QED
      BY <2>1, <3>1, ScorerCounted, CountsAre
  <2>3. /\ ready'.created = ready.created + 0 /\ ready'.scored = ready.scored + 1
        /\ ready'.dead = ready.dead + 0
    BY <1>4, <2>1
  <2>4. Due' = Due + 0
    BY <1>1, <2>1, DueGrows
  <2>5. QED
    BY <1>2, <1>3, <2>1, <2>2, <2>3, <2>4, StillBounded
<1>8. CASE AckCreated(m)
  <2>1. /\ scorer' = [scorer EXCEPT ![m] = "idle"] /\ scorer[m] = "published"
        /\ ready' = ready /\ faults' = faults
    BY <1>8 DEF AckCreated, Scoring
  <2>2. Cardinality(InScorers') = Cardinality(InScorers) + 0
    <3>1. scorer'[m] = "idle" /\ \A n \in Scorers \ {m} : scorer'[n] = scorer[n]
      BY <2>1 DEF PipeInv, PipeTypes
    <3>2. QED
      BY <2>1, <3>1, ScorerCounted, CountsAre
  <2>3. /\ ready'.created = ready.created + 0 /\ ready'.scored = ready.scored + 0
        /\ ready'.dead = ready.dead + 0
    BY <1>4, <2>1
  <2>4. Due' = Due + 0
    BY <1>1, <2>1, DueGrows
  <2>5. QED
    BY <1>2, <1>3, <2>1, <2>2, <2>3, <2>4, StillBounded
<1>9. CASE ScorerCrash(m)
  <2>1. /\ scorer' = [scorer EXCEPT ![m] = "idle"]
        /\ ready' = [ready EXCEPT !.created = @ + 1] /\ faults' = faults + 1
    BY <1>9 DEF ScorerCrash
  <2> DEFINE gone == IF scorer[m] = "scoring" THEN -1 ELSE 0
  <2>2. Cardinality(InScorers') = Cardinality(InScorers) + gone
    <3>1. scorer'[m] = "idle" /\ \A n \in Scorers \ {m} : scorer'[n] = scorer[n]
      BY <2>1 DEF PipeInv, PipeTypes
    <3>2. QED
      BY <2>1, <3>1, ScorerCounted, CountsAre
  <2>3. /\ ready'.created = ready.created + 1 /\ ready'.scored = ready.scored + 0
        /\ ready'.dead = ready.dead + 0
    BY <1>4, <2>1
  <2>4. Due' = Due + 1
    BY <1>1, <2>1, DueGrows
  <2>5. faults' \in Nat /\ gone \in Int /\ 1 + 0 + 0 + gone + 0 <= 1
    BY <1>2, <2>1
  <2> HIDE DEF gone
  <2>6. QED
    BY <1>2, <1>3, <2>2, <2>3, <2>4, <2>5, StillBounded
<1>10. CASE NackCreated(m)
  <2>1. /\ scorer' = [scorer EXCEPT ![m] = "idle"] /\ scorer[m] = "scoring"
        /\ ready' = [ready EXCEPT !.dead = @ + 1] /\ faults' = faults + 1
    BY <1>10 DEF NackCreated
  <2>2. Cardinality(InScorers') = Cardinality(InScorers) + -1
    <3>1. scorer'[m] = "idle" /\ \A n \in Scorers \ {m} : scorer'[n] = scorer[n]
      BY <2>1 DEF PipeInv, PipeTypes
    <3>2. QED
      BY <2>1, <3>1, ScorerCounted, CountsAre
  <2>3. /\ ready'.created = ready.created + 0 /\ ready'.scored = ready.scored + 0
        /\ ready'.dead = ready.dead + 1
    BY <1>4, <2>1
  <2>4. Due' = Due + 1 /\ faults' \in Nat
    BY <1>1, <1>2, <2>1, DueGrows
  <2>5. QED
    BY <1>2, <1>3, <2>2, <2>3, <2>4, StillBounded
<1>11. QED
  BY <1>5, <1>6, <1>7, <1>8, <1>9, <1>10 DEF Score

(* A failed attempt copies nothing.                                        *)
LEMMA FailCopies ==
    ASSUME PipeInv, NEW l \in Listeners, Fail(l)
    PROVE  /\ ready'.created = ready.created + 0 /\ ready'.scored = ready.scored + 0
           /\ \E d, ls \in Int :
                 /\ ready'.dead = ready.dead + d
                 /\ Cardinality(InListeners') = Cardinality(InListeners) + ls
                 /\ d + ls <= 0
<1>1. /\ listener[l] \in [attempt: 0..MaxAttempts, held: BOOLEAN]
      /\ ready \in [created: Nat, scored: Nat, dead: Nat]
  BY DEF PipeInv, PipeTypes
<1>2. CASE listener[l].attempt < MaxAttempts
  <2>1. ready' = ready /\ listener' = [listener EXCEPT ![l].attempt = @ + 1]
    BY <1>2 DEF Fail
  <2>2. \A k \in Listeners : listener'[k].held = listener[k].held
    BY <1>1, <2>1 DEF PipeInv, PipeTypes
  <2>3. InListeners' = InListeners
    BY <2>2 DEF InListeners
  <2>4. /\ ready'.dead = ready.dead + 0
        /\ Cardinality(InListeners') = Cardinality(InListeners) + 0
    BY <1>1, <2>1, <2>3, CountsAre
  <2>5. QED
    BY <1>1, <2>1, <2>4
<1>3. CASE ~(listener[l].attempt < MaxAttempts)
  <2>1. /\ ready' = [ready EXCEPT !.dead = IF listener[l].held THEN @ + 1 ELSE @]
        /\ listener' = [listener EXCEPT ![l] = Free]
    BY <1>3 DEF Fail, Release
  <2>2. /\ ~listener'[l].held
        /\ \A k \in Listeners \ {l} : listener'[k] = listener[k]
    BY <2>1 DEF PipeInv, PipeTypes, Free
  <2> DEFINE d == IF listener[l].held THEN 1 ELSE 0
  <2>3. Cardinality(InListeners') = Cardinality(InListeners) + (-d)
    BY <2>2, ListenerCounted, CountsAre
  <2>4. /\ ready'.created = ready.created /\ ready'.scored = ready.scored
        /\ ready'.dead = ready.dead + d
    BY <1>1, <2>1
  <2>5. d \in Int /\ -d \in Int /\ d + (-d) <= 0
    OBVIOUS
  <2> HIDE DEF d
  <2>6. QED
    BY <1>1, <2>3, <2>4, <2>5
<1>4. QED
  BY <1>2, <1>3

(* A listener serves, drops or keeps its copy; a crash of it is counted.   *)
LEMMA ListenerCopies ==
    ASSUME IInv, PipeInv, PipeInv', CopiesInv, NEW l \in Listeners,
           Listen(l) \/ AbortAttempt(l) \/ ListenerCrash(l)
    PROVE  CopiesInv'
<1>0. l \in Txns
  BY PipelineAssumption
<1>1. UNCHANGED <<sent, scorer, outages>>
  BY DEF Listen, TakeScored, StartAttempt, RunAttempt, AbortAttempt, ListenerCrash
<1>2. faults' = faults \/ faults' = faults + 1
  BY DEF Listen, TakeScored, StartAttempt, RunAttempt, AbortAttempt, ListenerCrash
<1>3. faults' \in Nat /\ outages' \in Nat /\ faults \in Nat
  BY <1>1, <1>2 DEF CopiesInv
<1>4. \A t \in Txns \ {l} : tx'[t] = tx[t]
  <2>1. \/ tx' = tx
        \/ \E x : tx' = [tx EXCEPT ![l] = x]
        \/ tx' = [tx EXCEPT ![l].phase = "announced"]
    BY Zenon DEF Listen, TakeScored, StartAttempt, RunAttempt, AbortAttempt, ListenerCrash, vars,
           BeginScore, Begin, Announce, Step, Commit, Abort, Rollback
  <2>2. QED
    BY <2>1 DEF IInv, TypeOK
<1>5. CreatesOnce'
  <2>1. ASSUME NEW t \in Txns, tx'[t].op = "create" PROVE tx'[t] = tx[t]
    <3>1. t \notin Listeners
      BY <2>1 DEF PipeInv, ThreadOK
    <3>2. QED
      BY <1>4, <3>1
  <2>2. QED
    BY <1>1, <2>1, CreatesStay DEF CopiesInv
<1>6. Cardinality(InScorers') = Cardinality(InScorers) + 0
  <2>1. InScorers' = InScorers
    BY <1>1 DEF InScorers
  <2>2. QED
    BY <2>1, CountsAre
<1>7. Due' = Due + (faults' - faults) /\ faults' - faults \in Nat
  <2>1. CASE faults' = faults
    <3>1. Due' = Due /\ Due \in Nat
      BY <1>1, <2>1, DueGrows
    <3>2. QED
      BY <1>3, <2>1, <3>1
  <2>2. CASE faults' = faults + 1
    <3>1. Due' = Due + 1 /\ Due \in Nat
      BY <1>1, <2>2, DueGrows
    <3>2. QED
      BY <1>3, <2>2, <3>1
  <2>3. QED
    BY <1>2, <2>1, <2>2
<1>8. ready \in [created: Nat, scored: Nat, dead: Nat]
  BY DEF PipeInv, PipeTypes
<1> DEFINE more == faults' - faults
<1>9. ASSUME NEW s \in Int, NEW d \in Int, NEW ls \in Int,
             ready'.created = ready.created + 0, ready'.scored = ready.scored + s,
             ready'.dead = ready.dead + d,
             Cardinality(InListeners') = Cardinality(InListeners) + ls,
             s + d + ls <= 0
      PROVE  CopiesInv'
  <2>1. more \in Nat /\ Due' = Due + more /\ 0 + s + d + 0 + ls <= more
    BY <1>7, <1>9
  <2> HIDE DEF more
  <2>2. QED
    BY <1>3, <1>5, <1>6, <1>9, <2>1, StillBounded
<1>10. ASSUME Fail(l) PROVE CopiesInv'
  <2>1. /\ ready'.created = ready.created + 0 /\ ready'.scored = ready.scored + 0
        /\ \E d, ls \in Int :
              /\ ready'.dead = ready.dead + d
              /\ Cardinality(InListeners') = Cardinality(InListeners) + ls
              /\ d + ls <= 0
    BY <1>10, FailCopies
  <2>2. PICK d \in Int, ls \in Int :
              /\ ready'.dead = ready.dead + d
              /\ Cardinality(InListeners') = Cardinality(InListeners) + ls
              /\ d + ls <= 0
    BY <2>1
  <2>3. 0 + d + ls <= 0
    BY <2>2
  <2>4. QED
    BY <1>9, <2>1, <2>2, <2>3
<1>11. ASSUME listener' = listener, ready' = ready PROVE CopiesInv'
  <2>1. InListeners' = InListeners
    BY <1>11 DEF InListeners
  <2>2. /\ Cardinality(InListeners') = Cardinality(InListeners) + 0
        /\ ready'.created = ready.created + 0 /\ ready'.scored = ready.scored + 0
        /\ ready'.dead = ready.dead + 0
    BY <1>8, <1>11, <2>1, CountsAre
  <2>3. QED
    BY <1>9, <2>2
<1>12. ASSUME Release(l), NEW s \in Int, s <= IF listener[l].held THEN 1 ELSE 0,
              ready'.created = ready.created, ready'.scored = ready.scored + s,
              ready'.dead = ready.dead
       PROVE  CopiesInv'
  <2>1. ~listener'[l].held /\ \A k \in Listeners \ {l} : listener'[k] = listener[k]
    BY <1>12 DEF Release, PipeInv, PipeTypes, Free
  <2> DEFINE ls == IF listener[l].held THEN -1 ELSE 0
  <2>2. Cardinality(InListeners') = Cardinality(InListeners) + ls
    BY <2>1, ListenerCounted, CountsAre
  <2>3. ls \in Int /\ s + 0 + ls <= 0
    BY <1>12
  <2>4. ready'.created = ready.created + 0 /\ ready'.dead = ready.dead + 0
    BY <1>8, <1>12
  <2> HIDE DEF ls
  <2>5. QED
    BY <1>9, <1>12, <2>2, <2>3, <2>4
<1>13. CASE TakeScored(l)
  <2>1. /\ ready' = [ready EXCEPT !.scored = @ - 1] /\ listener[l] = Free
        /\ listener' = [listener EXCEPT ![l] = [attempt |-> 1, held |-> TRUE]]
    BY <1>13 DEF TakeScored
  <2>2. /\ listener'[l].held /\ ~listener[l].held
        /\ \A k \in Listeners \ {l} : listener'[k] = listener[k]
    BY <2>1 DEF PipeInv, PipeTypes, Free
  <2>3. Cardinality(InListeners') = Cardinality(InListeners) + 1
    BY <2>2, ListenerCounted, CountsAre
  <2>4. /\ ready'.created = ready.created + 0 /\ ready'.scored = ready.scored + -1
        /\ ready'.dead = ready.dead + 0
    BY <1>8, <2>1
  <2>5. QED
    BY <1>9, <2>3, <2>4
<1>14. CASE StartAttempt(l)
  BY <1>10, <1>11, <1>14 DEF StartAttempt
<1>15. CASE RunAttempt(l)
  <2>1. ready' = ready /\ (listener' = listener \/ Release(l))
    BY <1>15 DEF RunAttempt
  <2>2. 0 <= IF listener[l].held THEN 1 ELSE 0
    OBVIOUS
  <2>3. /\ ready'.created = ready.created /\ ready'.scored = ready.scored + 0
        /\ ready'.dead = ready.dead
    BY <1>8, <2>1
  <2>4. QED
    BY <1>11, <1>12, <2>1, <2>2, <2>3
<1>16. CASE AbortAttempt(l)
  BY <1>10, <1>16 DEF AbortAttempt
<1>17. CASE ListenerCrash(l)
  <2> DEFINE s == IF listener[l].held THEN 1 ELSE 0
  <2>1. /\ Release(l)
        /\ ready' = [ready EXCEPT !.scored = IF listener[l].held THEN @ + 1 ELSE @]
    BY <1>17 DEF ListenerCrash
  <2>2. /\ ready'.created = ready.created /\ ready'.scored = ready.scored + s
        /\ ready'.dead = ready.dead
    BY <1>8, <2>1
  <2>3. s \in Int /\ s <= IF listener[l].held THEN 1 ELSE 0
    OBVIOUS
  <2> HIDE DEF s
  <2>4. QED
    BY <1>12, <2>1, <2>2, <2>3
<1>18. QED
  BY <1>13, <1>14, <1>15, <1>16, <1>17 DEF Listen
(* The reporter sends the alert once.                                      *)
LEMMA ReportCopies ==
    ASSUME IInv, PipeInv, CopiesInv, NEW t \in Txns, Report(t) \/ PublishCreated(t)
    PROVE  CopiesInv'
<1>1. UNCHANGED <<scorer, listener, faults, outages>>
  BY DEF Report, PublishCreated, pipeVars
<1>2. /\ Cardinality(InScorers') = Cardinality(InScorers) + 0
      /\ Cardinality(InListeners') = Cardinality(InListeners) + 0
  <2>1. InScorers' = InScorers /\ InListeners' = InListeners
    BY <1>1 DEF InScorers, InListeners
  <2>2. QED
    BY <2>1, CountsAre
<1>3. faults' \in Nat /\ outages' \in Nat
  BY <1>1 DEF CopiesInv
<1>4. ready \in [created: Nat, scored: Nat, dead: Nat]
  BY DEF PipeInv, PipeTypes
<1>5. ASSUME CreatesOnce', UNCHANGED <<sent, ready>> PROVE CopiesInv'
  <2>1. Due' = Due + 0
    BY <1>1, <1>5, DueGrows
  <2>2. /\ ready'.created = ready.created + 0 /\ ready'.scored = ready.scored + 0
        /\ ready'.dead = ready.dead + 0
    BY <1>4, <1>5
  <2>3. QED
    BY <1>2, <1>3, <1>5, <2>1, <2>2, StillBounded
<1>6. CASE Report(t) /\ BeginCreate(t) /\ sent = "unsent"
  <2>1. /\ tx'[t].op = "create" /\ \A s \in Txns \ {t} : tx'[s] = tx[s] /\ tx[s].op # "create"
        /\ UNCHANGED <<sent, ready>>
    BY <1>6 DEF BeginCreate, Begin, IInv, TypeOK, Report, pipeVars
  <2>2. CreatesOnce'
    BY <1>6, <2>1 DEF CreatesOnce
  <2>3. QED
    BY <1>5, <2>1, <2>2
<1>7. CASE Report(t) /\ tx[t].op = "create" /\ Announce(t)
  <2>1. /\ tx'[t].op = "create" /\ tx'[t].phase = "announced"
        /\ \A s \in Txns \ {t} : tx'[s] = tx[s]
        /\ UNCHANGED <<sent, ready>>
    BY <1>7 DEF Announce, Step, IInv, TypeOK, Transaction, Report, pipeVars
  <2>2. CreatesOnce'
    BY <1>7, <2>1, CreatesStay DEF CopiesInv
  <2>3. QED
    BY <1>5, <2>1, <2>2
<1>8. CASE Report(t) /\ (Commit(t) \/ Abort(t))
  <2>1. /\ tx'[t] = Idle /\ \A s \in Txns \ {t} : tx'[s] = tx[s]
        /\ UNCHANGED <<sent, ready>>
    BY <1>8 DEF Commit, Abort, Rollback, IInv, TypeOK, Report, pipeVars
  <2>2. CreatesOnce'
    BY <1>8, <2>1, CreatesStay DEF CopiesInv, Idle
  <2>3. QED
    BY <1>5, <2>1, <2>2
<1>9. CASE PublishCreated(t)
  <2>1. /\ tx[t].op = "create" /\ tx[t].phase = "loaded"
        /\ tx' = [tx EXCEPT ![t].phase = "stored"]
        /\ \/ sent' = "accepted" /\ ready' = [ready EXCEPT !.created = @ + 1]
           \/ sent' = "refused" /\ ready' = ready
    BY <1>9 DEF PublishCreated, SendCreated, In, Step
  <2>2. /\ tx'[t].op = "create" /\ tx'[t].phase = "stored"
        /\ \A s \in Txns \ {t} : tx'[s] = tx[s]
    BY <2>1 DEF IInv, TypeOK, Transaction
  <2>3. sent = "unsent" /\ \A s \in Txns : tx[s].op = "create" => s = t
    BY <2>1 DEF CopiesInv, CreatesOnce
  <2>4. CreatesOnce'
    BY <2>2, <2>3 DEF CreatesOnce
  <2>5. Due' = Due + 1
    BY <1>1, <2>1, <2>3, DueGrows
  <2>6. PICK c \in Int : /\ ready'.created = ready.created + c /\ c <= 1
                         /\ ready'.scored = ready.scored + 0 /\ ready'.dead = ready.dead + 0
    <3>1. CASE ready' = ready
      <4>1. ready'.created = ready.created + 0 /\ 0 <= 1
            /\ ready'.scored = ready.scored + 0 /\ ready'.dead = ready.dead + 0
        BY <1>4, <3>1
      <4>2. QED
        BY <4>1
    <3>2. CASE ready' = [ready EXCEPT !.created = @ + 1]
      <4>1. ready'.created = ready.created + 1 /\ 1 <= 1
            /\ ready'.scored = ready.scored + 0 /\ ready'.dead = ready.dead + 0
        BY <1>4, <3>2
      <4>2. QED
        BY <4>1
    <3>3. QED
      BY <2>1, <3>1, <3>2
  <2>7. c + 0 + 0 + 0 + 0 <= 1
    BY <2>6
  <2>8. QED
    BY <1>2, <1>3, <2>4, <2>5, <2>6, <2>7, StillBounded
<1>10. QED
  BY <1>6, <1>7, <1>8, <1>9 DEF Report

(* An outage makes what was held ready again, and doubles what a replica   *)
(* had sent on.                                                            *)
LEMMA BrokerCopies ==
    ASSUME IInv, PipeInv, CopiesInv, BrokerDown \/ BrokerUp
    PROVE  CopiesInv'
<1>1. UNCHANGED <<tx, sent, faults>>
  BY DEF BrokerDown, BrokerUp, vars
<1>2. CreatesOnce'
  BY <1>1 DEF CopiesInv, CreatesOnce
<1>3. ready \in [created: Nat, scored: Nat, dead: Nat]
  BY DEF PipeInv, PipeTypes
<1>4. CASE BrokerUp
  <2>1. UNCHANGED <<ready, scorer, listener, outages>>
    BY <1>4 DEF BrokerUp
  <2>2. InScorers' = InScorers /\ InListeners' = InListeners
    BY <2>1 DEF InScorers, InListeners
  <2>3. Due' = Due + 0 /\ faults' \in Nat /\ outages' \in Nat
    BY <1>1, <2>1, DueGrows DEF CopiesInv
  <2>4. /\ ready'.created = ready.created + 0 /\ ready'.scored = ready.scored + 0
        /\ ready'.dead = ready.dead + 0
        /\ Cardinality(InScorers') = Cardinality(InScorers) + 0
        /\ Cardinality(InListeners') = Cardinality(InListeners) + 0
    BY <1>3, <2>1, <2>2, CountsAre
  <2>5. QED
    BY <1>2, <2>3, <2>4, StillBounded
<1>5. CASE BrokerDown
  <2> DEFINE busy == {m \in Scorers : scorer[m] # "idle"}
             b == Cardinality(busy)
             h == Cardinality(InListeners)
  <2>1. /\ ready' = [ready EXCEPT !.created = @ + b, !.scored = @ + h]
        /\ scorer' = [m \in Scorers |-> "idle"]
        /\ listener' = [l \in Listeners |-> [listener[l] EXCEPT !.held = FALSE]]
        /\ outages' = outages + 1
    BY <1>5 DEF BrokerDown, InListeners
  <2>2. b \in Nat /\ b <= Cardinality(Scorers)
    <3>1. busy \in SUBSET Scorers
      OBVIOUS
    <3> HIDE DEF busy
    <3>2. QED
      BY <3>1, CountsAre, FS_Subset, FS_CardinalityType
  <2>3. h \in Nat
    BY CountsAre
  <2>4. InScorers' = {}
    BY <2>1 DEF InScorers
  <2>5. InListeners' = {}
    <3>1. \A l \in Listeners : ~listener'[l].held
      BY <2>1 DEF PipeInv, PipeTypes
    <3>2. QED
      BY <3>1 DEF InListeners
  <2> HIDE DEF busy, b
  <2>6. ready' = [created |-> ready.created + b, scored |-> ready.scored + h,
                  dead |-> ready.dead]
    <3> HIDE DEF h
    <3>1. QED
      BY <1>3, <2>1
  <2>7. /\ ready'.created = ready.created + b /\ ready'.scored = ready.scored + h
        /\ ready'.dead = ready.dead + 0
    BY <1>3, <2>6
  <2> DEFINE ms == -Cardinality(InScorers)
             ls == -h
             n == Cardinality(Scorers)
  <2>8. /\ Cardinality(InScorers') = Cardinality(InScorers) + ms
        /\ Cardinality(InListeners') = Cardinality(InListeners) + ls
        /\ ms \in Int /\ ls \in Int /\ ms <= 0 /\ n \in Nat
    BY <2>4, <2>5, CountsAre, FS_EmptySet
  <2>9. b + h + 0 + ms + ls <= n
    BY <2>2, <2>3, <2>8
  <2>10. Due' = Due + n /\ faults' \in Nat /\ outages' \in Nat
    BY <1>1, <2>1, DueGrows DEF CopiesInv
  <2> HIDE DEF ms, ls, n, h
  <2>11. QED
    BY <1>2, <2>2, <2>3, <2>7, <2>8, <2>9, <2>10, StillBounded
<1>6. QED
  BY <1>4, <1>5

(* No step makes more copies than it accounts for.                         *)
LEMMA CopiesStep ==
    IInv /\ PipeInv /\ PipeInv' /\ CopiesInv /\ [PipeNext]_allVars => CopiesInv'
<1> SUFFICES ASSUME IInv, PipeInv, PipeInv', CopiesInv, [PipeNext]_allVars
             PROVE  CopiesInv'
  OBVIOUS
<1>1. CASE UNCHANGED allVars
  BY <1>1 DEF allVars, pipeVars, vars, CopiesInv, CreatesOnce, Copies, Due
<1>2. CASE Expire
  <2>1. UNCHANGED <<tx, pipeVars>>
    BY <1>2 DEF Expire, Lapse, Sweep
  <2>2. QED
    BY <2>1 DEF pipeVars, CopiesInv, CreatesOnce, Copies, Due
<1>3. QED
  BY <1>1, <1>2, ReportCopies, ScorerCopies, ListenerCopies, BrokerCopies DEF PipeNext

(* The price of at-least-once: whatever crashes, retries and outages come  *)
(* together, each copy of the alert beyond the first is one crash's, or    *)
(* one replica's in one outage.                                            *)
THEOREM CopiesBoundedAlways == PipeSpec => []CopiesBounded
<1>1. PipeInit => CopiesInv
  <2> SUFFICES ASSUME PipeInit PROVE CopiesInv
    OBVIOUS
  <2>1. /\ \A t \in Txns : tx[t].op # "create"
        /\ sent = "unsent" /\ faults = 0 /\ outages = 0
        /\ ready.created = 0 /\ ready.scored = 0 /\ ready.dead = 0
    BY DEF PipeInit, Init, Idle
  <2>2. InScorers = {} /\ InListeners = {}
    BY DEF PipeInit, InScorers, InListeners, Free
  <2>3. Copies = 0
    <3>1. Cardinality(InScorers) = 0 /\ Cardinality(InListeners) = 0
      BY <2>2, FS_EmptySet
    <3>2. Copies = ready.created + ready.scored + ready.dead
                     + Cardinality(InScorers) + Cardinality(InListeners)
      BY DEF Copies, InScorers, InListeners
    <3>3. QED
      BY <2>1, <3>1, <3>2
  <2>4. Due = 0
    <3> DEFINE n == Cardinality(Scorers)
    <3>1. n \in Nat /\ Due = (IF sent = "unsent" THEN 0 ELSE 1) + faults + outages * n
      BY PipelineAssumption, FS_CardinalityType DEF Due
    <3> HIDE DEF n
    <3>2. QED
      BY <2>1, <3>1
  <2>5. QED
    BY <2>1, <2>3, <2>4 DEF CopiesInv, CreatesOnce
<1>2. IInv /\ PipeInv /\ CopiesInv => CopiesBounded
  <2> SUFFICES ASSUME PipeInv, CopiesInv PROVE CopiesBounded
    OBVIOUS
  <2> DEFINE p == outages * Cardinality(Scorers)
  <2>1. p \in Nat /\ faults \in Nat
    BY CountsAre DEF CopiesInv
  <2>2. Due = (IF sent = "unsent" THEN 0 ELSE 1) + faults + p
    BY DEF Due
  <2>3. Copies <= Due /\ Copies \in Nat
    BY CountsAre DEF CopiesInv
  <2>4. CopiesBounded <=> Copies <= 1 + faults + p
    BY DEF CopiesBounded
  <2> HIDE DEF p
  <2>5. QED
    BY <2>1, <2>2, <2>3, <2>4
<1>3. QED
  BY <1>1, <1>2, CopiesStep, PipeInvariance, PTL DEF PipeSpec

-----------------------------------------------------------------------------
(***************************************************************************)
(* Proofs about LiveFeed for any number of maps, reloads and events on     *)
(* their way.  The feed only watches AlertRow (FeedWatches), so AlertRow's *)
(* theorems hold while maps are open; and an alert that is gone stays off  *)
(* every map (GoneStays).                                                  *)
(***************************************************************************)

MapTypes ==
    /\ news \in [Maps -> SUBSET Event]
    /\ load \in [Maps -> [Slots -> Load]]
    /\ cache \in CacheEntry
    /\ swept \subseteq Row
    /\ shown \in [Maps -> Row]

(* What a sweep has returned is closed.                                    *)
LiveInv == IInv /\ MapTypes /\ \A r \in swept : r.status \in ClosedStatuses
-----------------------------------------------------------------------------
(* Every step of the feed is one of AlertRow's or leaves its row alone.    *)
LEMMA LiveStepsRow == [LiveNext]_liveVars => [Next]_vars
<1>1. ASSUME NEW t \in Txns, Write(t) \/ PublishLive(t) \/ Respond(t)
      PROVE  Next
  BY <1>1 DEF Write, PublishLive, Respond, Serve, Next
<1>2. ASSUME NEW m \in Maps, NEW s \in Slots, Reload(m, s) \/ Receive(m, s) \/ Lose(m, s)
      PROVE  UNCHANGED vars
  BY <1>2 DEF Reload, AskHit, AskMiss, Query, Fill, Receive, Lose, Loading
<1>3. ASSUME NEW m \in Maps, NEW e, RespondClosed(m) \/ Hear(m, e) \/ Miss(m, e)
      PROVE  UNCHANGED vars
  BY <1>3 DEF RespondClosed, Hear, Miss
<1>4. ASSUME SweepOnce \/ Lapse
      PROVE  Next
  BY <1>4 DEF SweepOnce, Next
<1>5. ASSUME NEW r, PublishSwept(r) \/ Forget
      PROVE  UNCHANGED vars
  BY <1>5 DEF PublishSwept, Forget
<1>6. QED
  BY <1>1, <1>2, <1>3, <1>4, <1>5 DEF LiveNext, liveVars

(* The absent row is a row, with no comments.                              *)
LEMMA NoRowType == NoRow \in Row /\ NoRow.status = "ABSENT" /\ NoRow.commentCount = 0
BY DEF NoRow, Row

(* What a transaction publishes or answers is an event.                    *)
LEMMA EventTypes ==
    ASSUME LiveInv, NEW t \in Txns
    PROVE  EventOf(tx[t]) \in Event /\ AlertEvent(Written(tx[t])) \in Event
<1>1. Written(tx[t]) \in Row
  BY WrittenType DEF LiveInv, IInv
<1>2. \A n \in Nat : CommentEvent(n) \in Event
  BY NoRowType DEF CommentEvent, Event, Row
<1>3. QED
  BY <1>1, <1>2 DEF EventOf, AlertEvent, Event, Row

(* A row to which an event was applied is a row.                           *)
LEMMA AppliedType ==
    ASSUME NEW old \in Row, NEW e \in Event
    PROVE  Applied(old, e) \in Row
BY NoRowType DEF Applied, Event, Row

(* A message sent to some maps is the only news.                           *)
LEMMA SendFacts ==
    ASSUME MapTypes, NEW S \in SUBSET Maps, NEW e \in Event, Send(S, e)
    PROVE  /\ news' \in [Maps -> SUBSET Event]
           /\ \A m \in Maps : news'[m] \subseteq news[m] \cup {e}
BY DEF MapTypes, Send
-----------------------------------------------------------------------------
(* The invariant of the feed holds at the start.                           *)
LEMMA LiveInitInv == LiveInit => LiveInv
<1> SUFFICES ASSUME LiveInit PROVE LiveInv
  OBVIOUS
<1>1. NoLoad \in Load /\ NoEntry \in CacheEntry
  BY NoRowType DEF NoLoad, Load, NoEntry, CacheEntry
<1>2. MapTypes /\ swept = {}
  BY <1>1, NoRowType DEF LiveInit, MapTypes
<1>3. QED
  BY <1>2, InitIInv DEF LiveInit, LiveInv

(* A reload's step, whatever it does to the cache.                         *)
LEMMA LoadingTypes ==
    ASSUME MapTypes, NEW m \in Maps, NEW s \in Slots,
           NEW from, NEW to \in {"idle", "missed", "read", "answered"}, NEW r \in Row,
           Loading(m, s, from, to, r)
    PROVE  /\ load' \in [Maps -> [Slots -> Load]]
           /\ load'[m][s].listed = r
           /\ \A n \in Maps, u \in Slots : load'[n][u] = load[n][u] \/ load'[n][u].listed = r
           /\ UNCHANGED <<news, swept>>
<1>1. PICK l : l = [phase |-> to, listed |-> r]
  OBVIOUS
<1>2. l \in Load /\ l.listed = r
  BY <1>1 DEF Load
<1>3. load' = [load EXCEPT ![m] = [load[m] EXCEPT ![s] = l]] /\ UNCHANGED <<news, swept>>
  BY <1>1 DEF Loading
<1>4. QED
  BY <1>2, <1>3 DEF MapTypes

(* A reload's steps keep the types.                                        *)
LEMMA ReloadTypes ==
    ASSUME LiveInv, NEW m \in Maps, NEW s \in Slots,
           Reload(m, s) \/ Receive(m, s) \/ Lose(m, s)
    PROVE  MapTypes' /\ UNCHANGED swept
<1>1. /\ cache.listed \in Row /\ load[m][s].listed \in Row /\ Nearby \in Row
      /\ NoRow \in Row /\ cache \in CacheEntry /\ shown \in [Maps -> Row]
      /\ MapTypes
  BY NoRowType DEF LiveInv, MapTypes, CacheEntry, Load, Nearby, IInv, TypeOK
<1>2. CASE AskHit(m, s) \/ AskMiss(m, s) \/ Query(m, s) \/ Lose(m, s)
  <2>1. UNCHANGED <<cache, shown>>
    BY <1>2 DEF AskHit, AskMiss, Query, Lose
  <2>2. load' \in [Maps -> [Slots -> Load]] /\ UNCHANGED <<news, swept>>
    BY <1>1, <1>2, LoadingTypes DEF AskHit, AskMiss, Query, Lose
  <2>3. QED
    BY <2>1, <2>2, <1>1 DEF MapTypes
<1>3. CASE Fill(m, s)
  <2>1. /\ load' \in [Maps -> [Slots -> Load]] /\ UNCHANGED <<news, swept, shown>>
    BY <1>1, <1>3, LoadingTypes DEF Fill
  <2>2. cache' = cache \/ cache' = [cached |-> TRUE, listed |-> load[m][s].listed]
    BY <1>3 DEF Fill
  <2>4. [cached |-> TRUE, listed |-> load[m][s].listed] \in CacheEntry
    BY <1>1 DEF CacheEntry
  <2>3. QED
    BY <2>1, <2>2, <2>4, <1>1 DEF MapTypes
<1>4. CASE Receive(m, s)
  <2>1. /\ load' \in [Maps -> [Slots -> Load]] /\ UNCHANGED <<news, swept, cache>>
    BY <1>1, <1>4, LoadingTypes DEF Receive
  <2>2. shown' \in [Maps -> Row]
    BY <1>1, <1>4 DEF Receive
  <2>3. QED
    BY <2>1, <2>2, <1>1 DEF MapTypes
<1>5. QED
  BY <1>2, <1>3, <1>4 DEF Reload

(* Every step keeps the invariant of the feed.                             *)
LEMMA LiveNextInv == LiveInv /\ [LiveNext]_liveVars => LiveInv'
<1> SUFFICES ASSUME LiveInv, [LiveNext]_liveVars PROVE LiveInv'
  OBVIOUS
<1>0. IInv' /\ IInv /\ MapTypes
  BY LiveStepsRow, NextIInv DEF LiveInv
<1>1. ASSUME NEW t \in Txns, Write(t)
      PROVE  LiveInv'
  BY <1>0, <1>1 DEF Write, mapVars, LiveInv, MapTypes
<1>2. ASSUME NEW t \in Txns, PublishLive(t) \/ Respond(t)
      PROVE  LiveInv'
  <2>1. /\ EventOf(tx[t]) \in Event /\ AlertEvent(Written(tx[t])) \in Event
    BY EventTypes
  <2>2. UNCHANGED <<load, cache, swept, shown>>
    BY <1>2 DEF PublishLive, Respond
  <2>3. news' \in [Maps -> SUBSET Event]
    BY <1>0, <1>2, <2>1, SendFacts DEF PublishLive, Respond, Publish, MapTypes
  <2>4. QED
    BY <1>0, <2>2, <2>3 DEF LiveInv, MapTypes
<1>3. ASSUME NEW m \in Maps, RespondClosed(m)
      PROVE  LiveInv'
  <2>1. AlertEvent(row) \in Event
    BY <1>0 DEF AlertEvent, Event, IInv, TypeOK
  <2>2. news' \in [Maps -> SUBSET Event]
    BY <1>0, <1>3, <2>1, SendFacts DEF RespondClosed
  <2>3. QED
    BY <1>0, <1>3, <2>2 DEF RespondClosed, LiveInv, MapTypes
<1>4. ASSUME NEW m \in Maps, NEW e \in news[m], Hear(m, e) \/ Miss(m, e)
      PROVE  LiveInv'
  <2>1. e \in Event /\ Applied(shown[m], e) \in Row
    BY <1>0, AppliedType DEF MapTypes
  <2>2. news' \in [Maps -> SUBSET Event] /\ shown' \in [Maps -> Row]
    BY <1>0, <1>4, <2>1 DEF Hear, Miss, MapTypes
  <2>3. UNCHANGED <<load, cache, swept>>
    BY <1>4 DEF Hear, Miss
  <2>4. QED
    BY <1>0, <2>2, <2>3 DEF LiveInv, MapTypes
<1>5. ASSUME NEW m \in Maps, NEW s \in Slots, Reload(m, s) \/ Receive(m, s) \/ Lose(m, s)
      PROVE  LiveInv'
  BY <1>0, <1>5, ReloadTypes DEF LiveInv
<1>6. CASE SweepOnce
  <2>1. row' \in Row /\ row'.status = "EXPIRED"
    BY <1>0, <1>6 DEF SweepOnce, Sweep, IInv, TypeOK, Row
  <2>2. UNCHANGED <<news, load, cache, shown>> /\ swept' = swept \cup {row'}
    BY <1>6 DEF SweepOnce
  <2>3. QED
    BY <1>0, <2>1, <2>2 DEF LiveInv, MapTypes, ClosedStatuses
<1>7. ASSUME NEW r \in swept, PublishSwept(r)
      PROVE  LiveInv'
  <2>1. AlertEvent(r) \in Event
    BY <1>0 DEF AlertEvent, Event, MapTypes
  <2>2. news' \in [Maps -> SUBSET Event]
    BY <1>0, <1>7, <2>1, SendFacts DEF PublishSwept, Publish
  <2>3. QED
    BY <1>0, <1>7, <2>2 DEF PublishSwept, LiveInv, MapTypes
<1>8. CASE Forget
  <2>1. NoEntry \in CacheEntry
    BY NoRowType DEF NoEntry, CacheEntry
  <2>2. QED
    BY <1>0, <1>8, <2>1 DEF Forget, LiveInv, MapTypes
<1>9. CASE (Lapse /\ UNCHANGED mapVars) \/ UNCHANGED liveVars
  BY <1>0, <1>9 DEF mapVars, liveVars, LiveInv, MapTypes
<1>10. QED
  BY <1>1, <1>2, <1>3, <1>4, <1>5, <1>6, <1>7, <1>8, <1>9 DEF LiveNext

(* The invariant of the feed holds throughout.                             *)
LEMMA LiveInvariance == LiveSpec => []LiveInv
<1>1. QED
  BY LiveInitInv, LiveNextInv, PTL DEF LiveSpec
-----------------------------------------------------------------------------
(* A running transaction of a settled alert writes it back closed.         *)
LEMMA WrittenClosed ==
    ASSUME IInv, Settled, NEW t \in Txns, Running(t)
    PROVE  Written(tx[t]).status \in ClosedStatuses
<1>1. /\ tx[t] \in Transaction /\ tx[t].read \in Row
      /\ tx[t].read.status \in ClosedStatuses
      /\ tx[t].op \in Ops \ {"none", "create"}
  BY DEF IInv, TypeOK, TxOK, Settled, Running, Exists, Transaction, ClosedStatuses
<1>2. Confirmed(tx[t].read).status \in ClosedStatuses
  BY <1>1 DEF Confirmed, Row, ClosedStatuses
<1>3. QED
  BY <1>1, <1>2 DEF Written, Ops, Row, ClosedStatuses

(* An event that does not open the alert leaves it off the map.            *)
LEMMA AppliedNoRow ==
    ASSUME NEW e \in Event, ~Opens(e)
    PROVE  Applied(NoRow, e) = NoRow
BY DEF Applied, Opens, Event

(* News that opens no alert adds none that does.                           *)
LEMMA QuietNews ==
    ASSUME MapTypes, NoOpenNews, NEW S \in SUBSET Maps, NEW e \in Event, ~Opens(e), Send(S, e)
    PROVE  \A m \in Maps : \A f \in news'[m] : ~Opens(f)
BY SendFacts DEF NoOpenNews

(* What is gone stays gone: nothing old is left to bring it back, and      *)
(* whatever is said of it from now on says that it is closed.              *)
LEMMA GoneStep ==
    ASSUME LiveInv, Gone, [LiveNext]_liveVars
    PROVE  Gone'
<1>1. IInv /\ MapTypes /\ Settled /\ NoOpenNews /\ \A m \in Maps : shown[m] = NoRow
  BY DEF LiveInv, Gone
<1>2. Settled'
  BY <1>1, LiveStepsRow, SettledStep
<1>3. row.status \in ClosedStatuses /\ row.status \notin OpenStatuses
  BY <1>1 DEF Settled, ClosedStatuses, OpenStatuses
<1>4. \A r \in Row : r.status \in ClosedStatuses => ~Opens(AlertEvent(r)) /\ AlertEvent(r) \in Event
  BY DEF Opens, AlertEvent, Event, ClosedStatuses, OpenStatuses
<1>5. ASSUME NEW S \in SUBSET Maps, NEW e \in Event, ~Opens(e), Send(S, e),
             UNCHANGED <<load, cache, shown>>
      PROVE  Gone'
  BY <1>1, <1>2, <1>5, QuietNews DEF Gone, NoOpenNews
<1>6. ASSUME UNCHANGED <<news, load, cache, shown>>
      PROVE  Gone'
  BY <1>1, <1>2, <1>6 DEF Gone, NoOpenNews
<1>7. ASSUME NEW t \in Txns, PublishLive(t) \/ Respond(t)
      PROVE  Gone'
  <2>1. Running(t) /\ Written(tx[t]) \in Row
    BY <1>1, <1>7, WrittenType
    DEF PublishLive, Respond, Announce, Commit, Running, IInv
  <2>2. ~Opens(AlertEvent(Written(tx[t]))) /\ ~Opens(EventOf(tx[t]))
    BY <1>1, <1>4, <2>1, WrittenClosed DEF EventOf, CommentEvent, Opens
  <2>3. UNCHANGED <<load, cache, swept, shown>>
    BY <1>7 DEF PublishLive, Respond
  <2>4. QED
    BY <1>5, <1>6, <1>7, <2>2, <2>3, EventTypes DEF PublishLive, Respond, Publish
<1>8. ASSUME NEW m \in Maps, RespondClosed(m)
      PROVE  Gone'
  <2>1. ~Opens(AlertEvent(row)) /\ AlertEvent(row) \in Event
    BY <1>1, <1>3, <1>4 DEF IInv, TypeOK
  <2>2. QED
    BY <1>5, <1>8, <2>1 DEF RespondClosed
<1>9. ASSUME NEW r \in swept, PublishSwept(r)
      PROVE  Gone'
  <2>1. ~Opens(AlertEvent(r)) /\ AlertEvent(r) \in Event
    BY <1>4 DEF LiveInv, MapTypes
  <2>2. QED
    BY <1>5, <1>9, <2>1 DEF PublishSwept, Publish
<1>10. ASSUME NEW m \in Maps, NEW e \in news[m], Hear(m, e) \/ Miss(m, e)
       PROVE  Gone'
  <2>1. e \in Event /\ ~Opens(e) /\ Applied(shown[m], e) = NoRow
    BY <1>1, AppliedNoRow DEF MapTypes, NoOpenNews
  <2>2. /\ \A n \in Maps : news'[n] \subseteq news[n] /\ shown'[n] = NoRow
        /\ UNCHANGED <<load, cache>>
    BY <1>1, <1>10, <2>1 DEF Hear, Miss, MapTypes
  <2>3. QED
    BY <1>1, <1>2, <2>2 DEF Gone, NoOpenNews
<1>11. ASSUME NEW m \in Maps, NEW s \in Slots, Reload(m, s) \/ Receive(m, s) \/ Lose(m, s)
       PROVE  Gone'
  <2>1. /\ load[m][s].listed = NoRow /\ cache.listed = NoRow /\ Nearby = NoRow
        /\ NoRow \in Row
    BY <1>1, <1>3, NoRowType DEF NoOpenNews, Nearby
  <2>2. /\ \A n \in Maps, u \in Slots :
              load'[n][u] = load[n][u] \/ load'[n][u].listed = NoRow
        /\ UNCHANGED news
    <3>1. PICK from, to \in {"idle", "missed", "read", "answered"} :
              Loading(m, s, from, to, NoRow)
      BY <1>11, <2>1 DEF Reload, AskHit, AskMiss, Query, Fill, Receive, Lose
    <3>2. QED
      BY <1>1, <2>1, <3>1, LoadingTypes
  <2>3. cache'.listed = NoRow
    BY <1>11, <2>1 DEF Reload, AskHit, AskMiss, Query, Fill, Receive, Lose
  <2>4. \A n \in Maps : shown'[n] = NoRow
    BY <1>1, <1>11, <2>1
    DEF Reload, AskHit, AskMiss, Query, Fill, Receive, Lose, MapTypes
  <2>5. QED
    BY <1>1, <1>2, <2>2, <2>3, <2>4 DEF Gone, NoOpenNews
<1>12. CASE Forget
  BY <1>1, <1>2, <1>12 DEF Forget, NoEntry, Gone, NoOpenNews
<1>13. ASSUME NEW t \in Txns, Write(t)
       PROVE  Gone'
  BY <1>6, <1>13 DEF Write, mapVars
<1>14. CASE SweepOnce \/ (Lapse /\ UNCHANGED mapVars) \/ UNCHANGED liveVars
  BY <1>6, <1>14 DEF SweepOnce, mapVars, liveVars
<1>15. QED
  BY <1>7, <1>8, <1>9, <1>10, <1>11, <1>12, <1>13, <1>14 DEF LiveNext
-----------------------------------------------------------------------------
(* With maps open, the row and its transactions run as AlertRow says:      *)
(* whatever AlertRow's theorems promise holds of the live system too.      *)
THEOREM FeedWatches == LiveSpec => Spec
<1>1. LiveInit => Init
  BY DEF LiveInit
<1>2. [LiveNext]_liveVars => [Next]_vars
  BY LiveStepsRow
<1>3. QED
  BY <1>1, <1>2, PTL DEF LiveSpec, Spec

(* The maps, the events and the reloads keep their types.                  *)
THEOREM LiveTypeCorrect == LiveSpec => []LiveTypeOK
<1>1. LiveInv => LiveTypeOK
  BY DEF LiveInv, IInv, MapTypes, LiveTypeOK
<1>2. QED
  BY <1>1, LiveInvariance, PTL

(* No event, response, reload or cache entry brings back an alert that is  *)
(* gone.                                                                   *)
THEOREM GoneStays == LiveSpec => GoneForGood
<1>1. LiveInv /\ [LiveNext]_liveVars => [Gone => Gone']_liveVars
  BY GoneStep
<1>2. QED
  BY <1>1, LiveInvariance, PTL DEF LiveSpec, GoneForGood
=============================================================================
