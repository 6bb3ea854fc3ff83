--------------------------- MODULE Server_proofs ---------------------------
(***************************************************************************)
(* Proofs about the server's parts beside the alert: accounts and          *)
(* sessions, the throttle of sign-ins, the statistics snapshot, and the    *)
(* ownership of zones and push subscriptions, each for any values of its   *)
(* constants and apart from the others.                                    *)
(***************************************************************************)
EXTENDS Accounts, Throttle, StatsSnapshot, ZoneOwnership, FiniteSetTheorems, TLAPS
-----------------------------------------------------------------------------
(* Accounts, for any accounts, tokens and requests.                        *)

(* The rows of users and of tokens.                                        *)
UserRow == [there : {TRUE}, password : Passwords, option : Options]
TokenRow == [there : {TRUE}, email : Emails, used : BOOLEAN, expired : BOOLEAN]

(* The requests on their way, each with what it has read.                  *)
New == [at : {"new"}, email : Emails, row : UserRow]
Found == [at : {"token"}, token : Tokens, password : Passwords]
Reset == [at : {"reset"}, token : Tokens, email : Emails, row : UserRow]
Profile == [at : {"profile"}, email : Emails, read : UserRow, row : UserRow]

(* What the variables of accounts and requests can be.                     *)
AccountsTypeOK ==
    /\ users \in [Emails -> {NoRow} \cup UserRow]
    /\ tokens \in [Tokens -> {NoRow} \cup TokenRow]
    /\ request \in [Requests -> {Ready} \cup New \cup Found \cup Reset \cup Profile]
    /\ chosen \in [Emails -> Passwords]
    /\ uses \in [Tokens -> Nat]
    /\ takenBack \subseteq Emails

(* Rows stay: what a token or a request refers to is there.  A change of   *)
(* the profile holds the password that it has read.                        *)
TokenOK(t) == tokens[t].there => users[tokens[t].email].there

(* The token of a reset and the user of a profile change stay, and a       *)
(* profile change writes the password back that it read.                   *)
RequestOK(r) ==
    /\ request[r].at \in {"token", "reset"} => tokens[request[r].token].there
    /\ request[r].at = "profile" =>
          /\ users[request[r].email].there
          /\ request[r].row.password = request[r].read.password

(* The requests that will reset with a token, and a token that is used.    *)
ResetsOf(t) == {r \in Requests : ResetBy(r, t)}
IsUsed(t) == tokens[t].there /\ tokens[t].used = TRUE

(* As long as a token is unused there is room for every thread.            *)
Spent(t) == /\ uses[t] + Cardinality(ResetsOf(t)) <= Cardinality(Requests)
            /\ ~IsUsed(t) => uses[t] = 0

(* The password is the one chosen last, unless a profile change took it    *)
(* back.                                                                   *)
PasswordOK(e) == users[e].there => users[e].password = chosen[e] \/ e \in takenBack

(* The inductive invariant of the accounts.                                *)
AccountsInv ==
    /\ AccountsTypeOK
    /\ \A t \in Tokens : TokenOK(t) /\ Spent(t)
    /\ \A r \in Requests : RequestOK(r)
    /\ \A e \in Emails : PasswordOK(e)
-----------------------------------------------------------------------------
(* The parts of rows and requests; a request tells by its place what it    *)
(* holds.                                                                  *)
LEMMA Kinds ==
    /\ Ready.at = "ready" /\ ~NoRow.there
    /\ \A x \in UserRow : x.there = TRUE /\ x.password \in Passwords /\ x.option \in Options
    /\ \A x \in TokenRow : x.there = TRUE /\ x.email \in Emails
    /\ \A x \in New : x.at = "new" /\ x.email \in Emails /\ x.row \in UserRow
    /\ \A x \in Found : x.at = "token" /\ x.token \in Tokens /\ x.password \in Passwords
    /\ \A x \in Reset : x.at = "reset" /\ x.token \in Tokens /\ x.email \in Emails
                           /\ x.row \in UserRow
    /\ \A x \in Profile : x.at = "profile" /\ x.email \in Emails /\ x.read \in UserRow
                             /\ x.row \in UserRow
  BY DEF Ready, NoRow, UserRow, TokenRow, New, Found, Reset, Profile

(* How far a request is says which fields it has.                          *)
LEMMA RequestKind ==
    ASSUME AccountsTypeOK, NEW r \in Requests
    PROVE  /\ request[r].at \in {"ready", "new", "token", "reset", "profile"}
           /\ request[r].at = "new" => request[r] \in New
           /\ request[r].at = "token" => request[r] \in Found
           /\ request[r].at = "reset" => request[r] \in Reset
           /\ request[r].at = "profile" => request[r] \in Profile
  <1>1. request[r] \in {Ready} \cup New \cup Found \cup Reset \cup Profile
      BY DEF AccountsTypeOK
  <1> QED BY <1>1, Kinds

(* A row that is there has its parts.                                      *)
LEMMA RowKind ==
    ASSUME AccountsTypeOK
    PROVE  /\ \A e \in Emails : users[e].there => users[e] \in UserRow
           /\ \A t \in Tokens : tokens[t].there => tokens[t] \in TokenRow
  <1>1. \A e \in Emails : users[e] = NoRow \/ users[e] \in UserRow
      BY DEF AccountsTypeOK
  <1>2. \A t \in Tokens : tokens[t] = NoRow \/ tokens[t] \in TokenRow
      BY DEF AccountsTypeOK
  <1> QED BY <1>1, <1>2, Kinds

(* The requests that are resetting with a token can be counted.            *)
LEMMA ResetsFinite ==
    ASSUME NEW t
    PROVE  /\ IsFiniteSet(ResetsOf(t)) /\ Cardinality(ResetsOf(t)) \in Nat
           /\ Cardinality(Requests) \in Nat
           /\ Cardinality(ResetsOf(t)) <= Cardinality(Requests)
           /\ IsFiniteSet(ResetsOf(t)') /\ Cardinality(ResetsOf(t)') \in Nat
           /\ Cardinality(ResetsOf(t)') <= Cardinality(Requests)
  <1>1. IsFiniteSet(Requests)
      BY AccountsAssumption
  <1>2. ResetsOf(t) \subseteq Requests /\ ResetsOf(t)' \subseteq Requests
      BY DEF ResetsOf
  <1> QED BY <1>1, <1>2, FS_Subset, FS_CardinalityType

(* One request goes on: the others are as they were.                       *)
LEMMA OneProceeds ==
    ASSUME AccountsTypeOK, NEW r \in Requests,
           NEW to \in {Ready} \cup New \cup Found \cup Reset \cup Profile, Proceed(r, to)
    PROVE  /\ request' \in [Requests -> {Ready} \cup New \cup Found \cup Reset \cup Profile]
           /\ request'[r] = to
           /\ \A d \in Requests \ {r} : request'[d] = request[d]
  BY DEF AccountsTypeOK, Proceed

(* A token keeps to its bound as long as no reset is added.                *)
LEMMA SpentKept ==
    ASSUME NEW t \in Tokens, Spent(t), uses[t] \in Nat, uses'[t] = uses[t],
           \A r \in Requests : ResetBy(r, t)' => ResetBy(r, t),
           IsUsed(t) => IsUsed(t)'
    PROVE  Spent(t)'
  <1>1. ResetsOf(t)' \subseteq ResetsOf(t)
      BY DEF ResetsOf
  <1>2. Cardinality(ResetsOf(t)') <= Cardinality(ResetsOf(t))
      BY <1>1, ResetsFinite, FS_Subset
  <1>3. Cardinality(ResetsOf(t)') \in Nat /\ Cardinality(ResetsOf(t)) \in Nat
            /\ Cardinality(Requests) \in Nat
      BY ResetsFinite
  <1>4. uses'[t] + Cardinality(ResetsOf(t)') <= Cardinality(Requests)
      BY <1>2, <1>3 DEF Spent
  <1> QED BY <1>4 DEF Spent

(* A request that nothing moves keeps what it refers to.                   *)
LEMMA RequestKept ==
    ASSUME AccountsInv, NEW d \in Requests, request'[d] = request[d],
           \A e \in Emails : users[e].there => users'[e].there,
           \A t \in Tokens : tokens[t].there => tokens'[t].there
    PROVE  RequestOK(d)'
  <1>1. RequestOK(d) /\ AccountsTypeOK
      BY DEF AccountsInv
  <1>2. CASE request[d].at \in {"token", "reset"}
      <2>1. request[d].token \in Tokens
          BY <1>1, <1>2, RequestKind, Kinds
      <2> QED BY <1>1, <1>2, <2>1 DEF RequestOK
  <1>3. CASE request[d].at = "profile"
      <2>1. request[d].email \in Emails
          BY <1>1, <1>3, RequestKind, Kinds
      <2> QED BY <1>1, <1>3, <2>1 DEF RequestOK
  <1>4. CASE request[d].at \notin {"token", "reset", "profile"}
      BY <1>4 DEF RequestOK
  <1> QED BY <1>2, <1>3, <1>4
-----------------------------------------------------------------------------
(* The initial states satisfy the invariant.                               *)
LEMMA InitialAccounts == AccountsInit => AccountsInv
  <1> SUFFICES ASSUME AccountsInit PROVE AccountsInv
      OBVIOUS
  <1>1. AccountsTypeOK
      BY DEF AccountsInit, AccountsTypeOK
  <1>2. ASSUME NEW t \in Tokens PROVE TokenOK(t) /\ Spent(t)
      <2>1. ~tokens[t].there /\ uses[t] = 0
          BY Kinds DEF AccountsInit
      <2>2. uses[t] + Cardinality(ResetsOf(t)) <= Cardinality(Requests)
          BY <2>1, ResetsFinite
      <2> QED BY <2>1, <2>2 DEF TokenOK, Spent
  <1>3. ASSUME NEW r \in Requests PROVE RequestOK(r)
      BY Kinds DEF AccountsInit, RequestOK
  <1>4. ASSUME NEW e \in Emails PROVE PasswordOK(e)
      BY Kinds DEF AccountsInit, PasswordOK
  <1> QED BY <1>1, <1>2, <1>3, <1>4 DEF AccountsInv

(* A request that only reads, and finds no token, disturbs nothing.        *)
LEMMA ReadingStep ==
    ASSUME AccountsInv, NEW r \in Requests,
           NEW to \in {Ready} \cup New \cup Reset \cup Profile, Proceed(r, to),
           to \in Reset => request[r].at = "token" /\ to.token = request[r].token,
           to \in Profile => users[to.email].there /\ to.row.password = to.read.password,
           UNCHANGED <<users, tokens, chosen, uses, takenBack>>
    PROVE  AccountsInv'
  <1>0. AccountsTypeOK
      BY DEF AccountsInv
  <1>1. /\ request' \in [Requests -> {Ready} \cup New \cup Found \cup Reset \cup Profile]
        /\ request'[r] = to
        /\ \A d \in Requests \ {r} : request'[d] = request[d]
      BY <1>0, OneProceeds
  <1>2. AccountsTypeOK'
      BY <1>0, <1>1 DEF AccountsTypeOK
  <1>3. ASSUME NEW t \in Tokens PROVE TokenOK(t)' /\ Spent(t)'
      <2>1. TokenOK(t) /\ Spent(t) /\ uses[t] \in Nat
          BY <1>0 DEF AccountsInv, AccountsTypeOK
      <2>2. ASSUME NEW d \in Requests, ResetBy(d, t)' PROVE ResetBy(d, t)
          <3>1. CASE d = r
              <4>1. to \in Reset
                  BY <1>1, <2>2, <3>1, Kinds DEF ResetBy
              <4> QED BY <1>1, <2>2, <3>1, <4>1 DEF ResetBy
          <3>2. CASE d # r
              BY <1>1, <2>2, <3>2 DEF ResetBy
          <3> QED BY <3>1, <3>2
      <2>3. Spent(t)'
          BY <2>1, <2>2, SpentKept DEF IsUsed
      <2> QED BY <2>1, <2>3 DEF TokenOK
  <1>4. ASSUME NEW d \in Requests PROVE RequestOK(d)'
      <2>1. CASE d # r
          BY <1>1, <2>1, RequestKept
      <2>2. CASE d = r /\ to \in Reset
          <3>1. tokens[to.token].there
              BY <2>2 DEF AccountsInv, RequestOK
          <3> QED BY <1>1, <2>2, <3>1, Kinds DEF RequestOK
      <2>3. CASE d = r /\ to \in Profile
          BY <1>1, <2>3, Kinds DEF RequestOK
      <2>4. CASE d = r /\ to \notin Reset \cup Profile
          BY <1>1, <2>4, Kinds DEF RequestOK
      <2> QED BY <2>1, <2>2, <2>3, <2>4
  <1>5. ASSUME NEW e \in Emails PROVE PasswordOK(e)'
      BY DEF AccountsInv, PasswordOK
  <1> QED BY <1>2, <1>3, <1>4, <1>5 DEF AccountsInv
-----------------------------------------------------------------------------
(* The insert of an account, when there is none yet.                       *)
LEMMA SignUpCommits ==
    ASSUME AccountsInv, NEW r \in Requests, CommitSignUp(r)
    PROVE  AccountsInv'
  <1>0. AccountsTypeOK
      BY DEF AccountsInv
  <1> DEFINE e == request[r].email
  <1>1. e \in Emails /\ request[r].row \in UserRow /\ Proceed(r, Ready)
            /\ UNCHANGED <<tokens, uses, takenBack>>
      BY <1>0, RequestKind, Kinds DEF CommitSignUp
  <1>2. CASE users[e].there
      BY <1>1, <1>2, ReadingStep, Kinds DEF CommitSignUp
  <1>3. CASE ~users[e].there
      <2>1. /\ users' = [users EXCEPT ![e] = request[r].row]
            /\ chosen' = [chosen EXCEPT ![e] = request[r].row.password]
          BY <1>3 DEF CommitSignUp
      <2>2. /\ request' \in [Requests -> {Ready} \cup New \cup Found \cup Reset \cup Profile]
            /\ request'[r] = Ready
            /\ \A d \in Requests \ {r} : request'[d] = request[d]
          BY <1>0, <1>1, OneProceeds
      <2>3. AccountsTypeOK'
          BY <1>0, <1>1, <2>1, <2>2, Kinds DEF AccountsTypeOK
      <2>4. /\ users'[e] = request[r].row /\ users'[e].there
            /\ chosen'[e] = request[r].row.password
            /\ \A f \in Emails \ {e} : users'[f] = users[f] /\ chosen'[f] = chosen[f]
          BY <1>0, <1>1, <2>1, Kinds DEF AccountsTypeOK
      <2>5. \A f \in Emails : users[f].there => users'[f].there
          BY <2>4
      <2>6. ASSUME NEW t \in Tokens PROVE TokenOK(t)' /\ Spent(t)'
          <3>1. TokenOK(t) /\ Spent(t) /\ uses[t] \in Nat
              BY <1>0 DEF AccountsInv, AccountsTypeOK
          <3>2. TokenOK(t)'
              BY <1>0, <1>1, <2>5, <3>1, RowKind, Kinds DEF TokenOK
          <3>3. \A d \in Requests : ResetBy(d, t)' => ResetBy(d, t)
              BY <2>2, Kinds DEF ResetBy
          <3> QED BY <1>1, <3>1, <3>2, <3>3, SpentKept DEF IsUsed
      <2>7. ASSUME NEW d \in Requests PROVE RequestOK(d)'
          <3>1. CASE d = r
              BY <2>2, <3>1, Kinds DEF RequestOK
          <3>2. CASE d # r
              BY <1>1, <2>2, <2>5, <3>2, RequestKept
          <3> QED BY <3>1, <3>2
      <2>8. ASSUME NEW f \in Emails PROVE PasswordOK(f)'
          BY <1>1, <2>4 DEF AccountsInv, PasswordOK
      <2> QED BY <2>3, <2>6, <2>7, <2>8 DEF AccountsInv
  <1> QED BY <1>2, <1>3

(* The one step that adds a reset.  Its token is unused, so that no reset  *)
(* has been carried out with it, and there is room for every thread.       *)
LEMMA TokenIsFound ==
    ASSUME AccountsInv, NEW r \in Requests, NEW t \in Tokens, NEW p \in Passwords,
           FindToken(r, t, p)
    PROVE  AccountsInv'
  <1>0. AccountsTypeOK
      BY DEF AccountsInv
  <1> DEFINE to == [at |-> "token", token |-> t, password |-> p]
  <1>1. /\ tokens[t].there /\ ~tokens[t].used /\ Proceed(r, to)
        /\ UNCHANGED <<users, tokens, chosen, uses, takenBack>>
      BY DEF FindToken, Usable
  <1>2. to \in Found /\ to.at = "token" /\ to.token = t
      BY DEF Found
  <1> HIDE DEF to
  <1>3. /\ request' \in [Requests -> {Ready} \cup New \cup Found \cup Reset \cup Profile]
        /\ request'[r] = to
        /\ \A d \in Requests \ {r} : request'[d] = request[d]
      BY <1>0, <1>1, <1>2, OneProceeds
  <1>4. AccountsTypeOK'
      BY <1>0, <1>1, <1>3 DEF AccountsTypeOK
  <1>5. ASSUME NEW s \in Tokens PROVE TokenOK(s)' /\ Spent(s)'
      <2>1. TokenOK(s) /\ Spent(s) /\ uses[s] \in Nat
          BY <1>0 DEF AccountsInv, AccountsTypeOK
      <2>2. CASE s = t
          <3>1. uses'[s] = 0
              BY <1>1, <2>1, <2>2 DEF Spent, IsUsed
          <3>2. uses'[s] + Cardinality(ResetsOf(s)') <= Cardinality(Requests)
              BY <3>1, ResetsFinite
          <3> QED BY <1>1, <2>1, <3>1, <3>2 DEF TokenOK, Spent
      <2>3. CASE s # t
          <3>1. \A d \in Requests : ResetBy(d, s)' => ResetBy(d, s)
              BY <1>2, <1>3, <2>3 DEF ResetBy
          <3> QED BY <1>1, <2>1, <3>1, SpentKept DEF TokenOK, IsUsed
      <2> QED BY <2>2, <2>3
  <1>6. ASSUME NEW d \in Requests PROVE RequestOK(d)'
      <2>1. CASE d = r
          BY <1>1, <1>2, <1>3, <2>1 DEF RequestOK
      <2>2. CASE d # r
          BY <1>1, <1>3, <2>2, RequestKept
      <2> QED BY <2>1, <2>2
  <1>7. ASSUME NEW e \in Emails PROVE PasswordOK(e)'
      BY <1>1 DEF AccountsInv, PasswordOK
  <1> QED BY <1>4, <1>5, <1>6, <1>7 DEF AccountsInv
-----------------------------------------------------------------------------
(* A reset that has found its user keeps the invariant.                    *)
LEMMA UserIsFound ==
    ASSUME AccountsInv, NEW r \in Requests, FindUser(r)
    PROVE  AccountsInv'
  <1>0. AccountsTypeOK /\ RequestOK(r)
      BY DEF AccountsInv
  <1> DEFINE t == request[r].token
             e == tokens[t].email
             to == [at |-> "reset", token |-> t, email |-> e,
                    row |-> [users[e] EXCEPT !.password = request[r].password]]
  <1>1. /\ request[r].at = "token" /\ Proceed(r, to)
        /\ UNCHANGED <<users, tokens, chosen, uses, takenBack>>
      BY DEF FindUser
  <1>2. t \in Tokens /\ request[r].password \in Passwords /\ tokens[t].there
      BY <1>0, <1>1, RequestKind, Kinds DEF RequestOK
  <1>3. e \in Emails /\ users[e].there
      BY <1>0, <1>2, RowKind, Kinds DEF AccountsInv, TokenOK
  <1>4. users[e] \in UserRow
      BY <1>0, <1>3, RowKind
  <1>5. [users[e] EXCEPT !.password = request[r].password] \in UserRow
      BY <1>2, <1>4 DEF UserRow
  <1>6. to \in Reset /\ to.token = t
      BY <1>2, <1>3, <1>5 DEF Reset
  <1>7. to \notin Profile
      BY DEF Profile
  <1> HIDE DEF to
  <1> QED BY <1>1, <1>6, <1>7, ReadingStep

(* A profile change that has read its row keeps the invariant.             *)
LEMMA OptionIsRead ==
    ASSUME AccountsInv, NEW r \in Requests, NEW e \in Emails, NEW o \in Options,
           ChangeOption(r, e, o)
    PROVE  AccountsInv'
  <1>0. AccountsTypeOK
      BY DEF AccountsInv
  <1> DEFINE to == [at |-> "profile", email |-> e, read |-> users[e],
                    row |-> [users[e] EXCEPT !.option = o]]
  <1>1. /\ users[e].there /\ Proceed(r, to)
        /\ UNCHANGED <<users, tokens, chosen, uses, takenBack>>
      BY DEF ChangeOption
  <1>2. users[e] \in UserRow
      BY <1>0, <1>1, RowKind
  <1>3. [users[e] EXCEPT !.option = o] \in UserRow
            /\ [users[e] EXCEPT !.option = o].password = users[e].password
      BY <1>2 DEF UserRow
  <1>4. to \in Profile /\ to.email = e /\ to.row.password = to.read.password
      BY <1>2, <1>3 DEF Profile
  <1>5. to \notin Reset
      BY DEF Reset
  <1> HIDE DEF to
  <1> QED BY <1>1, <1>4, <1>5, ReadingStep

(* So do a request that is given up and a new account's.                   *)
LEMMA OthersRead ==
    ASSUME AccountsInv, NEW r \in Requests,
           \/ RollBack(r)
           \/ \E e \in Emails, p \in Passwords, o \in Options : SignUp(r, e, p, o)
    PROVE  AccountsInv'
  <1>1. CASE RollBack(r)
      <2>1. Proceed(r, Ready) /\ UNCHANGED <<users, tokens, chosen, uses, takenBack>>
          BY <1>1 DEF RollBack
      <2> QED BY <2>1, ReadingStep, Kinds
  <1>2. ASSUME NEW e \in Emails, NEW p \in Passwords, NEW o \in Options, SignUp(r, e, p, o)
        PROVE  AccountsInv'
      <2> DEFINE to == [at |-> "new", email |-> e, row |-> User(p, o)]
      <2>1. Proceed(r, to) /\ UNCHANGED <<users, tokens, chosen, uses, takenBack>>
          BY <1>2 DEF SignUp
      <2>2. to \in New
          BY DEF New, User, UserRow
      <2>3. to \notin Reset /\ to \notin Profile
          BY DEF Reset, Profile
      <2> HIDE DEF to
      <2> QED BY <2>1, <2>2, <2>3, ReadingStep
  <1> QED BY <1>1, <1>2
-----------------------------------------------------------------------------
(* What both writes of a reset or a profile change do to the rest.         *)
LEMMA RowIsWritten ==
    ASSUME AccountsInv, NEW r \in Requests, NEW e \in Emails, NEW row \in UserRow,
           users' = [users EXCEPT ![e] = row], Proceed(r, Ready),
           \A t \in Tokens : /\ tokens'[t].there = tokens[t].there
                             /\ tokens[t].there => tokens'[t].email = tokens[t].email
    PROVE  /\ users' \in [Emails -> {NoRow} \cup UserRow]
           /\ request' \in [Requests -> {Ready} \cup New \cup Found \cup Reset \cup Profile]
           /\ users'[e] = row /\ \A f \in Emails \ {e} : users'[f] = users[f]
           /\ request'[r] = Ready /\ \A d \in Requests \ {r} : request'[d] = request[d]
           /\ \A d \in Requests : RequestOK(d)'
           /\ \A t \in Tokens : TokenOK(t)'
  <1>0. AccountsTypeOK
      BY DEF AccountsInv
  <1>1. /\ request' \in [Requests -> {Ready} \cup New \cup Found \cup Reset \cup Profile]
        /\ request'[r] = Ready
        /\ \A d \in Requests \ {r} : request'[d] = request[d]
      BY <1>0, OneProceeds
  <1>2. /\ users' \in [Emails -> {NoRow} \cup UserRow]
        /\ users'[e] = row /\ \A f \in Emails \ {e} : users'[f] = users[f]
      BY <1>0 DEF AccountsTypeOK
  <1>3. \A f \in Emails : users[f].there => users'[f].there
      BY <1>2, Kinds
  <1>4. ASSUME NEW d \in Requests PROVE RequestOK(d)'
      <2>1. CASE d = r
          BY <1>1, <2>1, Kinds DEF RequestOK
      <2>2. CASE d # r
          BY <1>1, <1>3, <2>2, RequestKept
      <2> QED BY <2>1, <2>2
  <1>5. ASSUME NEW t \in Tokens PROVE TokenOK(t)'
      <2>1. TokenOK(t)
          BY DEF AccountsInv
      <2>2. CASE tokens[t].there
          <3>1. tokens[t].email \in Emails
              BY <1>0, <2>2, RowKind, Kinds
          <3> QED BY <1>3, <2>1, <2>2, <3>1 DEF TokenOK
      <2>3. CASE ~tokens[t].there
          BY <2>3 DEF TokenOK
      <2> QED BY <2>2, <2>3
  <1> QED BY <1>1, <1>2, <1>4, <1>5

(* A reset is carried out: it was one of those under way, and is no more.  *)
LEMMA ResetCommits ==
    ASSUME AccountsInv, NEW r \in Requests, CommitReset(r)
    PROVE  AccountsInv'
  <1>0. AccountsTypeOK /\ RequestOK(r)
      BY DEF AccountsInv
  <1>1. PICK t \in Tokens, e \in Emails, row \in UserRow :
            /\ request[r].at = "reset" /\ request[r].token = t /\ Proceed(r, Ready)
            /\ users' = [users EXCEPT ![e] = row]
            /\ chosen' = [chosen EXCEPT ![e] = row.password]
            /\ tokens' = [tokens EXCEPT ![t].used = TRUE]
            /\ uses' = [uses EXCEPT ![t] = @ + 1]
            /\ takenBack' = takenBack \ {e}
      <2>1. /\ request[r].at = "reset" /\ request[r].token \in Tokens
            /\ request[r].email \in Emails /\ request[r].row \in UserRow
          BY <1>0, RequestKind, Kinds DEF CommitReset
      <2> QED BY <2>1 DEF CommitReset
  <1>2. tokens[t].there
      BY <1>0, <1>1 DEF RequestOK
  <1>3. tokens[t] \in TokenRow
      BY <1>0, <1>2, RowKind
  <1>4. /\ tokens'[t] = [tokens[t] EXCEPT !.used = TRUE]
        /\ \A s \in Tokens \ {t} : tokens'[s] = tokens[s]
        /\ tokens' \in [Tokens -> {NoRow} \cup TokenRow]
      <2>1. [tokens[t] EXCEPT !.used = TRUE] \in TokenRow
          BY <1>3 DEF TokenRow
      <2> QED BY <1>0, <1>1, <1>2, <2>1 DEF AccountsTypeOK
  <1>5. /\ tokens'[t].there = tokens[t].there /\ tokens'[t].email = tokens[t].email
        /\ IsUsed(t)'
      <2>1. tokens'[t].there = TRUE /\ tokens'[t].email = tokens[t].email
                /\ tokens'[t].used = TRUE /\ tokens[t].there = TRUE
          BY <1>3, <1>4 DEF TokenRow
      <2> QED BY <2>1 DEF IsUsed
  <1>6. \A s \in Tokens : /\ tokens'[s].there = tokens[s].there
                          /\ tokens[s].there => tokens'[s].email = tokens[s].email
      BY <1>4, <1>5
  <1>7. /\ users' \in [Emails -> {NoRow} \cup UserRow]
        /\ request' \in [Requests -> {Ready} \cup New \cup Found \cup Reset \cup Profile]
        /\ users'[e] = row /\ \A f \in Emails \ {e} : users'[f] = users[f]
        /\ request'[r] = Ready /\ \A d \in Requests \ {r} : request'[d] = request[d]
        /\ \A d \in Requests : RequestOK(d)'
        /\ \A s \in Tokens : TokenOK(s)'
      BY <1>1, <1>2, <1>6, RowIsWritten
  <1>8. /\ uses' \in [Tokens -> Nat] /\ uses'[t] = uses[t] + 1 /\ uses[t] \in Nat
        /\ \A s \in Tokens \ {t} : uses'[s] = uses[s]
      BY <1>0, <1>1, <1>2 DEF AccountsTypeOK
  <1>9. /\ chosen' \in [Emails -> Passwords] /\ chosen'[e] = row.password
        /\ \A f \in Emails \ {e} : chosen'[f] = chosen[f]
      BY <1>0, <1>1, <1>2, Kinds DEF AccountsTypeOK
  <1>10. AccountsTypeOK'
      BY <1>0, <1>1, <1>4, <1>7, <1>8, <1>9 DEF AccountsTypeOK
  <1>11. ASSUME NEW s \in Tokens PROVE Spent(s)'
      <2>1. Spent(s) /\ uses[s] \in Nat
          BY <1>0 DEF AccountsInv, AccountsTypeOK
      <2>2. CASE s = t
          <3>1. r \in ResetsOf(t) /\ r \notin ResetsOf(t)'
              BY <1>1, <1>7, Kinds DEF ResetsOf, ResetBy
          <3>2. ResetsOf(t)' \subseteq ResetsOf(t) \ {r}
              BY <1>7, <3>1 DEF ResetsOf, ResetBy
          <3>3. /\ IsFiniteSet(ResetsOf(t) \ {r})
                /\ Cardinality(ResetsOf(t) \ {r}) = Cardinality(ResetsOf(t)) - 1
              BY <3>1, ResetsFinite, FS_RemoveElement
          <3>4. Cardinality(ResetsOf(t)') <= Cardinality(ResetsOf(t)) - 1
              BY <3>2, <3>3, FS_Subset
          <3>5. /\ Cardinality(ResetsOf(t)') \in Nat /\ Cardinality(ResetsOf(t)) \in Nat
                /\ Cardinality(Requests) \in Nat
              BY ResetsFinite
          <3>6. uses[t] + Cardinality(ResetsOf(t)) <= Cardinality(Requests)
              BY <2>1, <2>2 DEF Spent
          <3>7. uses'[t] + Cardinality(ResetsOf(t)') <= Cardinality(Requests)
              BY <1>8, <3>4, <3>5, <3>6
          <3> QED BY <1>5, <2>2, <3>7 DEF Spent
      <2>3. CASE s # t
          <3>1. \A d \in Requests : ResetBy(d, s)' => ResetBy(d, s)
              BY <1>7, Kinds DEF ResetBy
          <3>2. IsUsed(s)' <=> IsUsed(s)
              BY <1>4, <2>3 DEF IsUsed
          <3> QED BY <1>8, <2>1, <2>3, <3>1, <3>2, SpentKept
      <2> QED BY <2>2, <2>3
  <1>12. ASSUME NEW f \in Emails PROVE PasswordOK(f)'
      BY <1>1, <1>7, <1>9 DEF AccountsInv, PasswordOK
  <1> QED BY <1>7, <1>10, <1>11, <1>12 DEF AccountsInv

(* A profile change writes back the password it has read: the one that is  *)
(* there, or it counts as an overlap.                                      *)
LEMMA OptionCommits ==
    ASSUME AccountsInv, NEW r \in Requests, CommitOption(r)
    PROVE  AccountsInv'
  <1>0. AccountsTypeOK /\ RequestOK(r)
      BY DEF AccountsInv
  <1> DEFINE e == request[r].email
             row == request[r].row
  <1>1. /\ request[r].at = "profile" /\ Proceed(r, Ready)
        /\ users' = [users EXCEPT ![e] = row]
        /\ takenBack' = IF users[e].password # request[r].read.password
                        THEN takenBack \cup {e} ELSE takenBack
        /\ UNCHANGED <<tokens, chosen, uses>>
      BY DEF CommitOption
  <1>2. e \in Emails /\ row \in UserRow
      BY <1>0, <1>1, RequestKind, Kinds
  <1>3. users[e].there /\ row.password = request[r].read.password
      BY <1>0, <1>1 DEF RequestOK
  <1>4. \/ row.password = users[e].password /\ takenBack' = takenBack
        \/ e \in takenBack' /\ takenBack' = takenBack \cup {e}
      BY <1>1, <1>3
  <1> HIDE DEF e, row
  <1>5. /\ users' \in [Emails -> {NoRow} \cup UserRow]
        /\ request' \in [Requests -> {Ready} \cup New \cup Found \cup Reset \cup Profile]
        /\ users'[e] = row /\ \A f \in Emails \ {e} : users'[f] = users[f]
        /\ request'[r] = Ready /\ \A d \in Requests \ {r} : request'[d] = request[d]
        /\ \A d \in Requests : RequestOK(d)'
        /\ \A s \in Tokens : TokenOK(s)'
      BY <1>1, <1>2, RowIsWritten
  <1>6. takenBack' \subseteq Emails
      BY <1>0, <1>2, <1>4 DEF AccountsTypeOK
  <1>7. AccountsTypeOK'
      BY <1>0, <1>1, <1>5, <1>6 DEF AccountsTypeOK
  <1>8. ASSUME NEW s \in Tokens PROVE Spent(s)'
      <2>1. Spent(s) /\ uses[s] \in Nat
          BY <1>0 DEF AccountsInv, AccountsTypeOK
      <2>2. \A d \in Requests : ResetBy(d, s)' => ResetBy(d, s)
          BY <1>5, Kinds DEF ResetBy
      <2> QED BY <1>1, <2>1, <2>2, SpentKept DEF IsUsed
  <1>9. ASSUME NEW f \in Emails PROVE PasswordOK(f)'
      <2>1. PasswordOK(f)
          BY DEF AccountsInv
      <2>2. CASE f = e
          BY <1>1, <1>3, <1>4, <1>5, <2>1, <2>2 DEF PasswordOK
      <2>3. CASE f # e
          BY <1>1, <1>4, <1>5, <2>1, <2>3 DEF PasswordOK
      <2> QED BY <2>2, <2>3
  <1> QED BY <1>5, <1>7, <1>8, <1>9 DEF AccountsInv
-----------------------------------------------------------------------------
(* And so do a token's issue and its expiry.                               *)
LEMMA TokenSteps ==
    ASSUME AccountsInv, NEW t \in Tokens,
           ExpireToken(t) \/ \E e \in Emails : RequestReset(e, t)
    PROVE  AccountsInv'
  <1>0. AccountsTypeOK /\ TokenOK(t) /\ Spent(t)
      BY DEF AccountsInv
  <1>1. PICK row \in TokenRow :
            /\ tokens' = [tokens EXCEPT ![t] = row] /\ users[row.email].there
            /\ IsUsed(t) => row.used = TRUE
            /\ UNCHANGED <<users, request, chosen, uses, takenBack>>
      <2>1. CASE ExpireToken(t)
          <3> DEFINE row == [tokens[t] EXCEPT !.expired = TRUE]
          <3>1. tokens[t].there /\ tokens' = [tokens EXCEPT ![t] = row]
                    /\ UNCHANGED <<users, request, chosen, uses, takenBack>>
              BY <2>1 DEF ExpireToken
          <3>2. tokens[t] \in TokenRow
              BY <1>0, <3>1, RowKind
          <3>3. row \in TokenRow /\ row.email = tokens[t].email /\ row.used = tokens[t].used
              BY <3>2 DEF TokenRow
          <3> HIDE DEF row
          <3> QED BY <1>0, <3>1, <3>3 DEF TokenOK, IsUsed
      <2>2. ASSUME NEW e \in Emails, RequestReset(e, t)
            PROVE  \E row \in TokenRow :
                      /\ tokens' = [tokens EXCEPT ![t] = row] /\ users[row.email].there
                      /\ IsUsed(t) => row.used = TRUE
                      /\ UNCHANGED <<users, request, chosen, uses, takenBack>>
          <3> DEFINE row == [there |-> TRUE, email |-> e, used |-> FALSE, expired |-> FALSE]
          <3>1. /\ users[e].there /\ ~tokens[t].there /\ tokens' = [tokens EXCEPT ![t] = row]
                /\ UNCHANGED <<users, request, chosen, uses, takenBack>>
              BY <2>2 DEF RequestReset
          <3>2. row \in TokenRow /\ row.email = e
              BY DEF TokenRow
          <3> HIDE DEF row
          <3> QED BY <3>1, <3>2 DEF IsUsed
      <2> QED BY <2>1, <2>2
  <1>2. /\ tokens' \in [Tokens -> {NoRow} \cup TokenRow] /\ tokens'[t] = row
        /\ \A s \in Tokens \ {t} : tokens'[s] = tokens[s]
      BY <1>0, <1>1 DEF AccountsTypeOK
  <1>3. AccountsTypeOK'
      BY <1>0, <1>1, <1>2 DEF AccountsTypeOK
  <1>4. ASSUME NEW s \in Tokens PROVE TokenOK(s)' /\ Spent(s)'
      <2>1. TokenOK(s) /\ Spent(s) /\ uses[s] \in Nat
          BY <1>0 DEF AccountsInv, AccountsTypeOK
      <2>2. TokenOK(s)'
          BY <1>1, <1>2, <2>1 DEF TokenOK
      <2>3. IsUsed(s) => IsUsed(s)'
          BY <1>1, <1>2, Kinds DEF IsUsed
      <2>4. \A d \in Requests : ResetBy(d, s)' => ResetBy(d, s)
          BY <1>1 DEF ResetBy
      <2> QED BY <1>1, <2>1, <2>2, <2>3, <2>4, SpentKept
  <1>5. \A s \in Tokens : tokens[s].there => tokens'[s].there
      BY <1>2, Kinds
  <1>6. ASSUME NEW d \in Requests PROVE RequestOK(d)'
      BY <1>1, <1>5, RequestKept
  <1>7. ASSUME NEW e \in Emails PROVE PasswordOK(e)'
      BY <1>1 DEF AccountsInv, PasswordOK
  <1> QED BY <1>3, <1>4, <1>6, <1>7 DEF AccountsInv

(* Every step keeps the invariant, or changes nothing.                     *)
LEMMA AccountsStep == AccountsInv /\ [AccountsNext]_accountVars => AccountsInv'
  <1> SUFFICES ASSUME AccountsInv, [AccountsNext]_accountVars PROVE AccountsInv'
      OBVIOUS
  <1>1. ASSUME NEW r \in Requests,
               \/ \E e \in Emails, p \in Passwords, o \in Options : SignUp(r, e, p, o)
               \/ CommitSignUp(r) \/ RollBack(r)
        PROVE  AccountsInv'
      BY <1>1, OthersRead, SignUpCommits
  <1>2. ASSUME NEW r \in Requests,
               \/ \E t \in Tokens, p \in Passwords : FindToken(r, t, p)
               \/ FindUser(r) \/ CommitReset(r)
        PROVE  AccountsInv'
      BY <1>2, TokenIsFound, UserIsFound, ResetCommits
  <1>3. ASSUME NEW r \in Requests,
               \/ \E e \in Emails, o \in Options : ChangeOption(r, e, o)
               \/ CommitOption(r)
        PROVE  AccountsInv'
      BY <1>3, OptionIsRead, OptionCommits
  <1>4. ASSUME NEW t \in Tokens, ExpireToken(t) \/ \E e \in Emails : RequestReset(e, t)
        PROVE  AccountsInv'
      BY <1>4, TokenSteps
  <1>5. CASE UNCHANGED accountVars
      BY <1>5 DEF accountVars, AccountsInv, AccountsTypeOK, TokenOK, Spent, ResetsOf, ResetBy,
                  IsUsed, RequestOK, PasswordOK
  <1> QED BY <1>1, <1>2, <1>3, <1>4, <1>5 DEF AccountsNext

(* Every variable keeps its type; what a request or a token refers to is   *)
(* there; and the bounds of ResetsHold, with what they rest on.            *)
THEOREM AccountsInvariant == AccountsSpec => []AccountsInv
  BY InitialAccounts, AccountsStep, PTL DEF AccountsSpec

(* A reset token serves its first use and the resets that overlap it, at   *)
(* most one for each thread (PasswordResetService.resetPassword); and only *)
(* a profile change that overlaps a reset takes a password back.           *)
THEOREM ResetsHoldAlways == AccountsSpec => []ResetsHold
  <1>1. AccountsInv => ResetsHold
      BY DEF AccountsInv, Spent, ResetsOf, PasswordOK, ResetsHold
  <1> QED BY <1>1, AccountsInvariant, PTL
-----------------------------------------------------------------------------
(* The throttle, for any principals, limits and threads.                   *)

FailureKeys == SubjectKeys \cup AddressKeys

(* A sign-in that is on its way, by its two keys.                          *)
Going == [at : {"subject", "address", "trying", "failed", "half"},
          subject : SubjectKeys, address : AddressKeys]

(* What the variables of the throttle can be.                              *)
ThrottleTypeOK ==
    /\ counts \in [Keys -> Nat] /\ used \in [Keys -> Nat] /\ missed \in [Keys -> Nat]
    /\ signIn \in [SignIns -> {NoSignIn} \cup Going]

(* The thread is past the limit of k and has not failed; or has, and has   *)
(* not counted it.                                                         *)
Hold(t, k) ==
    \/ signIn[t].at \in {"address", "trying"} /\ signIn[t].subject = k
    \/ signIn[t].at = "trying" /\ signIn[t].address = k

(* The failed sign-in has yet to be counted at k.                          *)
Owe(t, k) ==
    \/ signIn[t].at = "failed" /\ (signIn[t].subject = k \/ signIn[t].address = k)
    \/ signIn[t].at = "half" /\ signIn[t].address = k

(* The sign-ins that may still fail at a key, and those that have failed   *)
(* and are not counted there.                                              *)
Holders(k) == {t \in SignIns : Hold(t, k)}
Owers(k) == {t \in SignIns : Owe(t, k)}

(* What has failed is counted, about to be, or missed; and together with   *)
(* what may still fail it stays within the limit and what overlaps.        *)
FailuresOK(k) ==
    /\ used[k] <= counts[k] + Cardinality(Owers(k)) + missed[k]
    /\ counts[k] + Cardinality(Owers(k)) <= used[k]
    /\ used[k] + Cardinality(Holders(k))
          <= LimitOf[k] + Cardinality(SignIns) - 1 + missed[k]

(* What has been used is counted or missed, and within the limit.          *)
WritesOK(k) == used[k] <= counts[k] + missed[k] /\ used[k] <= LimitOf[k] + missed[k]

(* The inductive invariant of the throttle.                                *)
ThrottleInv ==
    /\ ThrottleTypeOK
    /\ \A k \in FailureKeys : FailuresOK(k)
    /\ \A k \in WriteKeys : WritesOK(k)
-----------------------------------------------------------------------------
(* Two sets that differ in t at most.                                      *)
LEMMA DifferInOne ==
    ASSUME NEW S, NEW T, NEW t, IsFiniteSet(S), IsFiniteSet(T), S \ {t} = T \ {t}
    PROVE  Cardinality(T) + (IF t \in S THEN 1 ELSE 0)
              = Cardinality(S) + (IF t \in T THEN 1 ELSE 0)
  <1>1. /\ Cardinality(S) = Cardinality(S \ {t}) + (IF t \in S THEN 1 ELSE 0)
        /\ Cardinality(S \ {t}) \in Nat
      <2>1. Cardinality(S) \in Nat
          BY FS_CardinalityType
      <2>2. Cardinality(S \ {t}) = IF t \in S THEN Cardinality(S) - 1 ELSE Cardinality(S)
          BY FS_RemoveElement
      <2>3. IsFiniteSet(S \ {t})
          BY FS_RemoveElement
      <2> QED BY <2>1, <2>2, <2>3, FS_CardinalityType
  <1>2. Cardinality(T) = Cardinality(T \ {t}) + (IF t \in T THEN 1 ELSE 0)
      <2>1. Cardinality(T) \in Nat
          BY FS_CardinalityType
      <2>2. Cardinality(T \ {t}) = IF t \in T THEN Cardinality(T) - 1 ELSE Cardinality(T)
          BY FS_RemoveElement
      <2> QED BY <2>1, <2>2
  <1> QED BY <1>1, <1>2

(* The sign-ins at a key can be counted.                                   *)
LEMMA ThreadsCounted ==
    ASSUME NEW k
    PROVE  /\ IsFiniteSet(Holders(k)) /\ Cardinality(Holders(k)) \in Nat
           /\ IsFiniteSet(Owers(k)) /\ Cardinality(Owers(k)) \in Nat
           /\ IsFiniteSet(Holders(k)') /\ Cardinality(Holders(k)') \in Nat
           /\ IsFiniteSet(Owers(k)') /\ Cardinality(Owers(k)') \in Nat
           /\ Cardinality(SignIns) \in Nat \ {0}
  <1>1. IsFiniteSet(SignIns) /\ SignIns # {}
      BY ThrottleAssumption
  <1>2. /\ Holders(k) \subseteq SignIns /\ Owers(k) \subseteq SignIns
        /\ Holders(k)' \subseteq SignIns /\ Owers(k)' \subseteq SignIns
      BY DEF Holders, Owers
  <1>3. Cardinality(SignIns) \in Nat /\ Cardinality(SignIns) # 0
      BY <1>1, FS_CardinalityType, FS_EmptySet
  <1> QED BY <1>1, <1>2, <1>3, FS_Subset, FS_CardinalityType

(* A thread that neither holds nor owes leaves room for itself.            *)
LEMMA RoomForOne ==
    ASSUME ThrottleTypeOK, NEW k \in FailureKeys, NEW t \in SignIns, ~Hold(t, k), ~Owe(t, k)
    PROVE  Cardinality(Holders(k)) + Cardinality(Owers(k)) <= Cardinality(SignIns) - 1
  <1> DEFINE H == Holders(k)
             O == Owers(k)
  <1>1. H \cap O = {}
      BY DEF Holders, Owers, Hold, Owe
  <1>2. H \cup O \subseteq SignIns \ {t}
      BY DEF Holders, Owers
  <1>3. IsFiniteSet(H) /\ IsFiniteSet(O) /\ Cardinality(H) \in Nat /\ Cardinality(O) \in Nat
      BY ThreadsCounted
  <1>4. Cardinality(H \cup O) = Cardinality(H) + Cardinality(O)
      <2>1. Cardinality(H \cap O) = 0
          BY <1>1, FS_EmptySet
      <2>2. Cardinality(H \cup O)
               = Cardinality(H) + Cardinality(O) - Cardinality(H \cap O)
          BY <1>3, FS_Union
      <2> QED BY <1>3, <2>1, <2>2
  <1>5. IsFiniteSet(SignIns) /\ Cardinality(SignIns) \in Nat
      BY ThrottleAssumption, FS_CardinalityType
  <1>6. /\ IsFiniteSet(SignIns \ {t})
        /\ Cardinality(SignIns \ {t}) = Cardinality(SignIns) - 1
      BY <1>5, FS_RemoveElement
  <1>7. Cardinality(H \cup O) <= Cardinality(SignIns \ {t})
      BY <1>2, <1>6, FS_Subset
  <1> QED BY <1>3, <1>4, <1>5, <1>6, <1>7

(* What one thread's step can do to a key.                                 *)
LEMMA KeyStep ==
    ASSUME ThrottleInv, NEW k \in FailureKeys, NEW t \in SignIns,
           \A d \in SignIns \ {t} : signIn'[d] = signIn[d],
           used'[k] \in Nat, counts'[k] \in Nat, missed'[k] \in Nat,
           \/ /\ used'[k] = used[k] /\ counts'[k] = counts[k] /\ missed'[k] >= missed[k]
              /\ Owe(t, k)' <=> Owe(t, k)
              /\ Hold(t, k)' => Hold(t, k)
           \/ /\ used'[k] = used[k] /\ counts'[k] = counts[k]
              /\ ~Hold(t, k) /\ Hold(t, k)' /\ ~Owe(t, k) /\ ~Owe(t, k)'
              /\ \/ counts[k] < LimitOf[k] /\ missed'[k] = missed[k]
                 \/ missed'[k] = missed[k] + 1
           \/ /\ used'[k] = used[k] + 1 /\ counts'[k] = counts[k] /\ missed'[k] = missed[k]
              /\ Hold(t, k) /\ ~Hold(t, k)' /\ ~Owe(t, k) /\ Owe(t, k)'
           \/ /\ used'[k] = used[k]
              /\ Owe(t, k) /\ ~Owe(t, k)' /\ ~Hold(t, k)'
              /\ \/ counts'[k] = counts[k] + 1 /\ missed'[k] = missed[k]
                 \/ counts'[k] = counts[k] /\ missed'[k] = missed[k] + 1
    PROVE  FailuresOK(k)'
  <1>0. ThrottleTypeOK /\ FailuresOK(k)
      BY DEF ThrottleInv
  <1>1. /\ Cardinality(Holders(k)) \in Nat /\ Cardinality(Owers(k)) \in Nat
        /\ Cardinality(Holders(k)') \in Nat /\ Cardinality(Owers(k)') \in Nat
        /\ Cardinality(SignIns) \in Nat \ {0}
      BY ThreadsCounted
  <1>2. Cardinality(Holders(k)') + (IF Hold(t, k) THEN 1 ELSE 0)
           = Cardinality(Holders(k)) + (IF Hold(t, k)' THEN 1 ELSE 0)
      <2>1. Holders(k) \ {t} = Holders(k)' \ {t}
          BY DEF Holders, Hold
      <2>2. /\ Cardinality(Holders(k)') + (IF t \in Holders(k) THEN 1 ELSE 0)
                  = Cardinality(Holders(k)) + (IF t \in Holders(k)' THEN 1 ELSE 0)
          BY <2>1, ThreadsCounted, DifferInOne
      <2>3. (t \in Holders(k) <=> Hold(t, k)) /\ (t \in Holders(k)' <=> Hold(t, k)')
          BY DEF Holders
      <2> QED BY <2>2, <2>3
  <1>3. Cardinality(Owers(k)') + (IF Owe(t, k) THEN 1 ELSE 0)
           = Cardinality(Owers(k)) + (IF Owe(t, k)' THEN 1 ELSE 0)
      <2>1. Owers(k) \ {t} = Owers(k)' \ {t}
          BY DEF Owers, Owe
      <2>2. /\ Cardinality(Owers(k)') + (IF t \in Owers(k) THEN 1 ELSE 0)
                  = Cardinality(Owers(k)) + (IF t \in Owers(k)' THEN 1 ELSE 0)
          BY <2>1, ThreadsCounted, DifferInOne
      <2>3. (t \in Owers(k) <=> Owe(t, k)) /\ (t \in Owers(k)' <=> Owe(t, k)')
          BY DEF Owers
      <2> QED BY <2>2, <2>3
  <1>4. ~Hold(t, k) /\ ~Owe(t, k) =>
            Cardinality(Holders(k)) + Cardinality(Owers(k)) <= Cardinality(SignIns) - 1
      BY <1>0, RoomForOne
  <1>5. /\ used[k] \in Nat /\ counts[k] \in Nat /\ missed[k] \in Nat
        /\ LimitOf[k] \in Nat \ {0}
      BY <1>0, ThrottleAssumption DEF ThrottleTypeOK, FailureKeys, Keys
  <1>6. /\ used'[k] <= counts'[k] + Cardinality(Owers(k)') + missed'[k]
        /\ counts'[k] + Cardinality(Owers(k)') <= used'[k]
        /\ used'[k] + Cardinality(Holders(k)')
              <= LimitOf[k] + Cardinality(SignIns) - 1 + missed'[k]
      <2> HIDE DEF Hold, Owe, Holders, Owers
      <2> QED BY <1>0, <1>1, <1>2, <1>3, <1>4, <1>5 DEF FailuresOK
  <1> QED BY <1>6 DEF FailuresOK
-----------------------------------------------------------------------------
(* The keys of sign-ins are not those of writes, and those of accounts not *)
(* those of addresses.                                                     *)
LEMMA KeysApart ==
    /\ \A k \in FailureKeys : k \in Keys /\ k \notin WriteKeys
    /\ \A k \in WriteKeys : k \in Keys /\ k \notin FailureKeys
    /\ \A k \in SubjectKeys : k \in FailureKeys /\ k \notin AddressKeys
    /\ \A k \in AddressKeys : k \in FailureKeys /\ k \notin SubjectKeys
  BY ThrottleAssumption DEF FailureKeys, Keys

(* The counters are natural numbers.                                       *)
LEMMA KeyTypes ==
    ASSUME ThrottleTypeOK, NEW k \in Keys
    PROVE  used[k] \in Nat /\ counts[k] \in Nat /\ missed[k] \in Nat /\ LimitOf[k] \in Nat \ {0}
  BY ThrottleAssumption DEF ThrottleTypeOK

(* A step of a sign-in leaves the keys of writes alone.                    *)
LEMMA WritesKept ==
    ASSUME ThrottleInv,
           \A k \in WriteKeys :
              used'[k] = used[k] /\ counts'[k] = counts[k] /\ missed'[k] = missed[k]
    PROVE  \A k \in WriteKeys : WritesOK(k)'
  BY DEF ThrottleInv, WritesOK

(* A thread that is not idle has the keys of an account and an address.    *)
LEMMA ThreadTypes ==
    ASSUME ThrottleTypeOK, NEW t \in SignIns, signIn[t].at # "idle"
    PROVE  /\ signIn[t] \in Going
           /\ signIn[t].subject \in SubjectKeys /\ signIn[t].address \in AddressKeys
  <1>1. signIn[t] \in {NoSignIn} \cup Going
      BY DEF ThrottleTypeOK
  <1>2. signIn[t] # NoSignIn
      BY DEF NoSignIn
  <1> QED BY <1>1, <1>2 DEF Going

(* An empty Redis and idle threads.                                        *)
LEMMA InitialThrottle == ThrottleInit => ThrottleInv
  <1> SUFFICES ASSUME ThrottleInit PROVE ThrottleInv
      OBVIOUS
  <1>1. ThrottleTypeOK
      BY DEF ThrottleInit, ThrottleTypeOK
  <1>2. ASSUME NEW k \in FailureKeys PROVE FailuresOK(k)
      <2>1. Holders(k) = {} /\ Owers(k) = {}
          BY DEF ThrottleInit, Holders, Owers, Hold, Owe, NoSignIn
      <2>2. Cardinality(Holders(k)) = 0 /\ Cardinality(Owers(k)) = 0
          BY <2>1, FS_EmptySet
      <2>3. Cardinality(SignIns) \in Nat \ {0}
          BY ThreadsCounted
      <2>4. used[k] = 0 /\ counts[k] = 0 /\ missed[k] = 0 /\ LimitOf[k] \in Nat \ {0}
          BY KeysApart, ThrottleAssumption DEF ThrottleInit
      <2>5. Cardinality(SignIns) - 1 >= 0 /\ LimitOf[k] >= 0
          BY <2>3, <2>4
      <2> QED BY <2>2, <2>3, <2>4, <2>5 DEF FailuresOK
  <1>3. ASSUME NEW k \in WriteKeys PROVE WritesOK(k)
      <2>1. used[k] = 0 /\ counts[k] = 0 /\ missed[k] = 0 /\ LimitOf[k] \in Nat \ {0}
          BY KeysApart, ThrottleAssumption DEF ThrottleInit
      <2> QED BY <2>1 DEF WritesOK
  <1> QED BY <1>1, <1>2, <1>3 DEF ThrottleInv

(* One lemma per step of a sign-in: a request comes in,                    *)
LEMMA BeginKeeps ==
    ASSUME ThrottleInv, NEW t \in SignIns,
           NEW subject \in SubjectKeys, NEW address \in AddressKeys,
           BeginSignIn(t, subject, address)
    PROVE  ThrottleInv'
  <1>0. ThrottleTypeOK
      BY DEF ThrottleInv
  <1>1. /\ signIn[t].at = "idle" /\ signIn'[t].at = "subject"
        /\ \A d \in SignIns \ {t} : signIn'[d] = signIn[d]
      BY <1>0 DEF BeginSignIn, ThrottleTypeOK
  <1>2. ThrottleTypeOK'
      <2>1. [at |-> "subject", subject |-> subject, address |-> address] \in Going
          BY DEF Going
      <2> QED BY <1>0, <2>1 DEF BeginSignIn, ThrottleTypeOK
  <1>3. used' = used /\ counts' = counts /\ missed' = missed
      BY DEF BeginSignIn
  <1>4. ASSUME NEW k \in FailureKeys PROVE FailuresOK(k)'
      <2>1. ~Hold(t, k) /\ ~Hold(t, k)' /\ ~Owe(t, k) /\ ~Owe(t, k)'
          BY <1>1 DEF Hold, Owe
      <2>2. used[k] \in Nat /\ counts[k] \in Nat /\ missed[k] \in Nat
          BY <1>0, KeysApart, KeyTypes
      <2> QED BY <1>1, <1>3, <2>1, <2>2, KeyStep
  <1>5. \A k \in WriteKeys : WritesOK(k)'
      BY <1>3, WritesKept
  <1> QED BY <1>2, <1>4, <1>5 DEF ThrottleInv

(* passes or fails the check of its account (isOver),                      *)
LEMMA CheckSubjectKeeps ==
    ASSUME ThrottleInv, NEW t \in SignIns, CheckSubject(t)
    PROVE  ThrottleInv'
  <1> DEFINE s == signIn[t].subject
  <1>0. ThrottleTypeOK
      BY DEF ThrottleInv
  <1>1. /\ signIn[t].at = "subject" /\ signIn[t] \in Going
        /\ s \in SubjectKeys /\ signIn[t].address \in AddressKeys
      BY <1>0, ThreadTypes DEF CheckSubject, Check
  <1>2. used' = used /\ counts' = counts
      BY DEF CheckSubject, Check
  <1>3. /\ \A d \in SignIns \ {t} : signIn'[d] = signIn[d]
        /\ \/ signIn'[t] = NoSignIn /\ missed' = missed
           \/ /\ signIn'[t] = [signIn[t] EXCEPT !.at = "address"]
              /\ \/ ~IsOver(s) /\ missed' = missed
                 \/ missed' = [missed EXCEPT ![s] = @ + 1]
      BY <1>0 DEF CheckSubject, Check, Go, ThrottleTypeOK
  <1>4. \/ signIn'[t] = NoSignIn
        \/ signIn'[t] \in Going /\ signIn'[t].at = "address" /\ signIn'[t].subject = s
      BY <1>1, <1>3 DEF Going
  <1>5. /\ missed' \in [Keys -> Nat]
        /\ \A k \in Keys : k # s => missed'[k] = missed[k]
      <2>1. s \in Keys
          BY <1>1, KeysApart
      <2> QED BY <1>0, <1>3, <2>1 DEF ThrottleTypeOK
  <1>6. ThrottleTypeOK'
      <2>1. signIn' \in [SignIns -> {NoSignIn} \cup Going]
          <3>1. signIn'[t] \in {NoSignIn} \cup Going
              BY <1>4
          <3>2. \E v : signIn' = [signIn EXCEPT ![t] = v]
              BY DEF CheckSubject, Check, Go
          <3> QED BY <1>0, <3>1, <3>2 DEF ThrottleTypeOK
      <2> QED BY <1>0, <1>2, <1>5, <2>1 DEF ThrottleTypeOK
  <1>7. ASSUME NEW k \in FailureKeys PROVE FailuresOK(k)'
      <2>1. /\ used[k] \in Nat /\ counts[k] \in Nat /\ missed[k] \in Nat
            /\ missed'[k] \in Nat /\ LimitOf[k] \in Nat /\ k \in Keys
          BY <1>0, <1>5, KeysApart, KeyTypes
      <2>2. ~Hold(t, k) /\ ~Owe(t, k) /\ ~Owe(t, k)'
          BY <1>1, <1>4 DEF Hold, Owe, NoSignIn
      <2>3. Hold(t, k)' => k = s /\ signIn'[t] # NoSignIn
          BY <1>1, <1>4 DEF Hold, NoSignIn
      <2>4. CASE Hold(t, k)'
          <3>1. \/ counts[k] < LimitOf[k] /\ missed'[k] = missed[k]
                \/ missed'[k] = missed[k] + 1
              BY <1>0, <1>3, <2>1, <2>3, <2>4 DEF IsOver, ThrottleTypeOK
          <3> QED BY <1>2, <1>3, <2>1, <2>2, <2>4, <3>1, KeyStep
      <2>5. CASE ~Hold(t, k)'
          <3>1. missed'[k] >= missed[k]
              BY <1>0, <1>3, <2>1 DEF ThrottleTypeOK
          <3> QED BY <1>2, <1>3, <2>1, <2>2, <2>5, <3>1, KeyStep
      <2> QED BY <2>4, <2>5
  <1>8. \A k \in WriteKeys : WritesOK(k)'
      <2>1. \A k \in WriteKeys : k \in Keys /\ k # s
          BY <1>1, KeysApart
      <2> QED BY <1>2, <1>5, <2>1, WritesKept
  <1> QED BY <1>6, <1>7, <1>8 DEF ThrottleInv

(* that of its address,                                                    *)
LEMMA CheckAddressKeeps ==
    ASSUME ThrottleInv, NEW t \in SignIns, CheckAddress(t)
    PROVE  ThrottleInv'
  <1> DEFINE a == signIn[t].address
  <1>0. ThrottleTypeOK
      BY DEF ThrottleInv
  <1>1. /\ signIn[t].at = "address" /\ signIn[t] \in Going
        /\ signIn[t].subject \in SubjectKeys /\ a \in AddressKeys
      BY <1>0, ThreadTypes DEF CheckAddress, Check
  <1>2. used' = used /\ counts' = counts
      BY DEF CheckAddress, Check
  <1>3. /\ \A d \in SignIns \ {t} : signIn'[d] = signIn[d]
        /\ \/ signIn'[t] = NoSignIn /\ missed' = missed
           \/ /\ signIn'[t] = [signIn[t] EXCEPT !.at = "trying"]
              /\ \/ ~IsOver(a) /\ missed' = missed
                 \/ missed' = [missed EXCEPT ![a] = @ + 1]
      BY <1>0 DEF CheckAddress, Check, Go, ThrottleTypeOK
  <1>4. \/ signIn'[t] = NoSignIn
        \/ /\ signIn'[t] \in Going /\ signIn'[t].at = "trying"
           /\ signIn'[t].subject = signIn[t].subject /\ signIn'[t].address = a
      BY <1>1, <1>3 DEF Going
  <1>5. /\ missed' \in [Keys -> Nat]
        /\ \A k \in Keys : k # a => missed'[k] = missed[k]
      <2>1. a \in Keys
          BY <1>1, KeysApart
      <2> QED BY <1>0, <1>3, <2>1 DEF ThrottleTypeOK
  <1>6. ThrottleTypeOK'
      <2>1. signIn' \in [SignIns -> {NoSignIn} \cup Going]
          <3>1. signIn'[t] \in {NoSignIn} \cup Going
              BY <1>4
          <3>2. \E v : signIn' = [signIn EXCEPT ![t] = v]
              BY DEF CheckAddress, Check, Go
          <3> QED BY <1>0, <3>1, <3>2 DEF ThrottleTypeOK
      <2> QED BY <1>0, <1>2, <1>5, <2>1 DEF ThrottleTypeOK
  <1>7. ASSUME NEW k \in FailureKeys PROVE FailuresOK(k)'
      <2>1. /\ used[k] \in Nat /\ counts[k] \in Nat /\ missed[k] \in Nat
            /\ missed'[k] \in Nat /\ LimitOf[k] \in Nat /\ k \in Keys
          BY <1>0, <1>5, KeysApart, KeyTypes
      <2>2. ~Owe(t, k) /\ ~Owe(t, k)' /\ (Hold(t, k) <=> k = signIn[t].subject)
          BY <1>1, <1>4 DEF Hold, Owe, NoSignIn
      <2>3. Hold(t, k)' => /\ signIn'[t] # NoSignIn
                           /\ k = a \/ Hold(t, k)
          BY <1>1, <1>4, <2>2 DEF Hold, NoSignIn
      <2>4. CASE Hold(t, k)' /\ ~Hold(t, k)
          <3>1. \/ counts[k] < LimitOf[k] /\ missed'[k] = missed[k]
                \/ missed'[k] = missed[k] + 1
              BY <1>0, <1>3, <2>1, <2>3, <2>4 DEF IsOver, ThrottleTypeOK
          <3> QED BY <1>2, <1>3, <2>1, <2>2, <2>4, <3>1, KeyStep
      <2>5. CASE Hold(t, k)' => Hold(t, k)
          <3>1. missed'[k] >= missed[k]
              BY <1>0, <1>3, <2>1 DEF ThrottleTypeOK
          <3> QED BY <1>2, <1>3, <2>1, <2>2, <2>5, <3>1, KeyStep
      <2> QED BY <2>4, <2>5
  <1>8. \A k \in WriteKeys : WritesOK(k)'
      <2>1. \A k \in WriteKeys : k \in Keys /\ k # a
          BY <1>1, KeysApart
      <2> QED BY <1>2, <1>5, <2>1, WritesKept
  <1> QED BY <1>6, <1>7, <1>8 DEF ThrottleInv

(* signs in,                                                               *)
LEMMA SucceedKeeps ==
    ASSUME ThrottleInv, NEW t \in SignIns, Succeed(t)
    PROVE  ThrottleInv'
  <1>0. ThrottleTypeOK
      BY DEF ThrottleInv
  <1>1. /\ signIn[t].at = "trying" /\ signIn'[t] = NoSignIn
        /\ \A d \in SignIns \ {t} : signIn'[d] = signIn[d]
      BY <1>0 DEF Succeed, ThrottleTypeOK
  <1>2. used' = used /\ counts' = counts /\ missed' = missed
      BY DEF Succeed
  <1>3. ThrottleTypeOK'
      BY <1>0, <1>2 DEF Succeed, ThrottleTypeOK
  <1>4. ASSUME NEW k \in FailureKeys PROVE FailuresOK(k)'
      <2>1. ~Hold(t, k)' /\ ~Owe(t, k) /\ ~Owe(t, k)'
          BY <1>1 DEF Hold, Owe, NoSignIn
      <2>2. used[k] \in Nat /\ counts[k] \in Nat /\ missed[k] \in Nat
          BY <1>0, KeysApart, KeyTypes
      <2> QED BY <1>1, <1>2, <2>1, <2>2, KeyStep
  <1>5. \A k \in WriteKeys : WritesOK(k)'
      BY <1>2, WritesKept
  <1> QED BY <1>3, <1>4, <1>5 DEF ThrottleInv

(* or fails: it no longer holds its keys but owes them;                    *)
LEMMA FailKeeps ==
    ASSUME ThrottleInv, NEW t \in SignIns, Fail(t)
    PROVE  ThrottleInv'
  <1>0. ThrottleTypeOK
      BY DEF ThrottleInv
  <1>1. /\ signIn[t].at = "trying" /\ signIn[t] \in Going
        /\ signIn[t].subject \in SubjectKeys /\ signIn[t].address \in AddressKeys
        /\ KeysOf(t) = {signIn[t].subject, signIn[t].address}
      BY <1>0, ThreadTypes DEF Fail, KeysOf
  <1>2. /\ \A d \in SignIns \ {t} : signIn'[d] = signIn[d]
        /\ signIn'[t] = [signIn[t] EXCEPT !.at = "failed"]
      BY <1>0 DEF Fail, Go, ThrottleTypeOK
  <1>3. /\ signIn'[t] \in Going /\ signIn'[t].at = "failed"
        /\ signIn'[t].subject = signIn[t].subject /\ signIn'[t].address = signIn[t].address
      BY <1>1, <1>2 DEF Going
  <1>4. /\ counts' = counts /\ missed' = missed
        /\ \A k \in Keys : used'[k] = IF k \in KeysOf(t) THEN used[k] + 1 ELSE used[k]
        /\ used' \in [Keys -> Nat]
      BY <1>0 DEF Fail, ThrottleTypeOK
  <1>5. ThrottleTypeOK'
      <2>1. signIn' \in [SignIns -> {NoSignIn} \cup Going]
          <3>1. \E v : signIn' = [signIn EXCEPT ![t] = v]
              BY DEF Fail, Go
          <3> QED BY <1>0, <1>3, <3>1 DEF ThrottleTypeOK
      <2> QED BY <1>0, <1>4, <2>1 DEF ThrottleTypeOK
  <1>6. ASSUME NEW k \in FailureKeys PROVE FailuresOK(k)'
      <2>1. /\ used[k] \in Nat /\ counts[k] \in Nat /\ missed[k] \in Nat
            /\ used'[k] \in Nat /\ k \in Keys
          BY <1>0, <1>4, KeysApart, KeyTypes
      <2>2. /\ Hold(t, k) <=> k \in KeysOf(t)
            /\ Owe(t, k)' <=> k \in KeysOf(t)
            /\ ~Hold(t, k)' /\ ~Owe(t, k)
          BY <1>1, <1>3 DEF Hold, Owe
      <2>3. CASE k \in KeysOf(t)
          BY <1>2, <1>4, <2>1, <2>2, <2>3, KeyStep
      <2>4. CASE k \notin KeysOf(t)
          BY <1>2, <1>4, <2>1, <2>2, <2>4, KeyStep
      <2> QED BY <2>3, <2>4
  <1>7. \A k \in WriteKeys : WritesOK(k)'
      <2>1. \A k \in WriteKeys : k \in Keys /\ k \notin KeysOf(t)
          BY <1>1, KeysApart
      <2> QED BY <1>4, <2>1, WritesKept
  <1> QED BY <1>5, <1>6, <1>7 DEF ThrottleInv

(* What CountFailure does to each key.                                     *)
LEMMA CountedOrMissed ==
    ASSUME ThrottleTypeOK, NEW c \in Keys, CountFailure(c)
    PROVE  /\ counts' \in [Keys -> Nat] /\ missed' \in [Keys -> Nat]
           /\ \A k \in Keys : k # c => counts'[k] = counts[k] /\ missed'[k] = missed[k]
           /\ \/ counts'[c] = counts[c] + 1 /\ missed'[c] = missed[c]
              \/ counts'[c] = counts[c] /\ missed'[c] = missed[c] + 1
  BY DEF CountFailure, ThrottleTypeOK

(* it counts what it owes, first the account,                              *)
LEMMA CountSubjectKeeps ==
    ASSUME ThrottleInv, NEW t \in SignIns, CountSubject(t)
    PROVE  ThrottleInv'
  <1> DEFINE s == signIn[t].subject
  <1>0. ThrottleTypeOK
      BY DEF ThrottleInv
  <1>1. /\ signIn[t].at = "failed" /\ signIn[t] \in Going
        /\ s \in SubjectKeys /\ signIn[t].address \in AddressKeys
        /\ s # signIn[t].address /\ s \in Keys
      BY <1>0, ThreadTypes, KeysApart DEF CountSubject
  <1>2. /\ \A d \in SignIns \ {t} : signIn'[d] = signIn[d]
        /\ signIn'[t] = [signIn[t] EXCEPT !.at = "half"]
      BY <1>0 DEF CountSubject, Go, ThrottleTypeOK
  <1>3. /\ signIn'[t] \in Going /\ signIn'[t].at = "half"
        /\ signIn'[t].address = signIn[t].address
      BY <1>1, <1>2 DEF Going
  <1>4. /\ used' = used /\ counts' \in [Keys -> Nat] /\ missed' \in [Keys -> Nat]
        /\ \A k \in Keys : k # s => counts'[k] = counts[k] /\ missed'[k] = missed[k]
        /\ \/ counts'[s] = counts[s] + 1 /\ missed'[s] = missed[s]
           \/ counts'[s] = counts[s] /\ missed'[s] = missed[s] + 1
      <2>1. CountFailure(s) /\ used' = used
          BY DEF CountSubject
      <2> QED BY <1>0, <1>1, <2>1, CountedOrMissed
  <1>5. ThrottleTypeOK'
      <2>1. signIn' \in [SignIns -> {NoSignIn} \cup Going]
          <3>1. \E v : signIn' = [signIn EXCEPT ![t] = v]
              BY DEF CountSubject, Go
          <3> QED BY <1>0, <1>3, <3>1 DEF ThrottleTypeOK
      <2> QED BY <1>0, <1>4, <2>1 DEF ThrottleTypeOK
  <1>6. ASSUME NEW k \in FailureKeys PROVE FailuresOK(k)'
      <2>1. /\ used[k] \in Nat /\ counts[k] \in Nat /\ missed[k] \in Nat
            /\ counts'[k] \in Nat /\ missed'[k] \in Nat /\ k \in Keys
          BY <1>0, <1>4, KeysApart, KeyTypes
      <2>2. /\ ~Hold(t, k) /\ ~Hold(t, k)'
            /\ Owe(t, k) <=> k = s \/ k = signIn[t].address
            /\ Owe(t, k)' <=> k = signIn[t].address
          BY <1>1, <1>3 DEF Hold, Owe
      <2>3. CASE k = s
          BY <1>1, <1>2, <1>4, <2>1, <2>2, <2>3, KeyStep
      <2>4. CASE k # s
          BY <1>2, <1>4, <2>1, <2>2, <2>4, KeyStep
      <2> QED BY <2>3, <2>4
  <1>7. \A k \in WriteKeys : WritesOK(k)'
      <2>1. \A k \in WriteKeys : k \in Keys /\ k # s
          BY <1>1, KeysApart
      <2> QED BY <1>4, <2>1, WritesKept
  <1> QED BY <1>5, <1>6, <1>7 DEF ThrottleInv

(* then the address,                                                       *)
LEMMA CountAddressKeeps ==
    ASSUME ThrottleInv, NEW t \in SignIns, CountAddress(t)
    PROVE  ThrottleInv'
  <1> DEFINE a == signIn[t].address
  <1>0. ThrottleTypeOK
      BY DEF ThrottleInv
  <1>1. signIn[t].at = "half" /\ a \in AddressKeys /\ a \in Keys
      BY <1>0, ThreadTypes, KeysApart DEF CountAddress
  <1>2. /\ \A d \in SignIns \ {t} : signIn'[d] = signIn[d]
        /\ signIn'[t] = NoSignIn
        /\ signIn' \in [SignIns -> {NoSignIn} \cup Going]
      BY <1>0 DEF CountAddress, ThrottleTypeOK
  <1>3. /\ used' = used /\ counts' \in [Keys -> Nat] /\ missed' \in [Keys -> Nat]
        /\ \A k \in Keys : k # a => counts'[k] = counts[k] /\ missed'[k] = missed[k]
        /\ \/ counts'[a] = counts[a] + 1 /\ missed'[a] = missed[a]
           \/ counts'[a] = counts[a] /\ missed'[a] = missed[a] + 1
      <2>1. CountFailure(a) /\ used' = used
          BY DEF CountAddress
      <2> QED BY <1>0, <1>1, <2>1, CountedOrMissed
  <1>4. ThrottleTypeOK'
      BY <1>0, <1>2, <1>3 DEF ThrottleTypeOK
  <1>5. ASSUME NEW k \in FailureKeys PROVE FailuresOK(k)'
      <2>1. /\ used[k] \in Nat /\ counts[k] \in Nat /\ missed[k] \in Nat
            /\ counts'[k] \in Nat /\ missed'[k] \in Nat /\ k \in Keys
          BY <1>0, <1>3, KeysApart, KeyTypes
      <2>2. ~Hold(t, k) /\ ~Hold(t, k)' /\ ~Owe(t, k)' /\ (Owe(t, k) <=> k = a)
          BY <1>1, <1>2 DEF Hold, Owe, NoSignIn
      <2>3. CASE k = a
          BY <1>2, <1>3, <2>1, <2>2, <2>3, KeyStep
      <2>4. CASE k # a
          BY <1>2, <1>3, <2>1, <2>2, <2>4, KeyStep
      <2> QED BY <2>3, <2>4
  <1>6. \A k \in WriteKeys : WritesOK(k)'
      <2>1. \A k \in WriteKeys : k \in Keys /\ k # a
          BY <1>1, KeysApart
      <2> QED BY <1>3, <2>1, WritesKept
  <1> QED BY <1>4, <1>5, <1>6 DEF ThrottleInv

(* or is lost, and what it owed is missed.                                 *)
LEMMA CrashKeeps ==
    ASSUME ThrottleInv, NEW t \in SignIns, Crash(t)
    PROVE  ThrottleInv'
  <1>0. ThrottleTypeOK
      BY DEF ThrottleInv
  <1>1. /\ signIn[t].at # "idle"
        /\ signIn[t].subject \in SubjectKeys /\ signIn[t].address \in AddressKeys
        /\ KeysOf(t) = {signIn[t].subject, signIn[t].address}
      BY <1>0, ThreadTypes DEF Crash, KeysOf
  <1>2. /\ \A d \in SignIns \ {t} : signIn'[d] = signIn[d]
        /\ signIn'[t] = NoSignIn
        /\ signIn' \in [SignIns -> {NoSignIn} \cup Going]
      BY <1>0 DEF Crash, ThrottleTypeOK
  <1>3. /\ used' = used /\ counts' = counts /\ missed' \in [Keys -> Nat]
        /\ \A k \in Keys : missed'[k] = IF Owe(t, k) THEN missed[k] + 1 ELSE missed[k]
      <2>1. \A k \in Keys : Owe(t, k) <=> \/ signIn[t].at = "failed" /\ k \in KeysOf(t)
                                          \/ signIn[t].at = "half" /\ k = signIn[t].address
          BY <1>1 DEF Owe
      <2>2. /\ used' = used /\ counts' = counts
            /\ missed' = [k \in Keys |->
                             IF \/ signIn[t].at = "failed" /\ k \in KeysOf(t)
                                \/ signIn[t].at = "half" /\ k = signIn[t].address
                             THEN missed[k] + 1 ELSE missed[k]]
          BY DEF Crash
      <2> QED BY <1>0, <2>1, <2>2 DEF ThrottleTypeOK
  <1>4. ThrottleTypeOK'
      BY <1>0, <1>2, <1>3 DEF ThrottleTypeOK
  <1>5. ASSUME NEW k \in FailureKeys PROVE FailuresOK(k)'
      <2>1. /\ used[k] \in Nat /\ counts[k] \in Nat /\ missed[k] \in Nat
            /\ missed'[k] \in Nat /\ k \in Keys
          BY <1>0, <1>3, KeysApart, KeyTypes
      <2>2. ~Hold(t, k)' /\ ~Owe(t, k)'
          BY <1>2 DEF Hold, Owe, NoSignIn
      <2>3. CASE Owe(t, k)
          BY <1>2, <1>3, <2>1, <2>2, <2>3, KeyStep
      <2>4. CASE ~Owe(t, k)
          BY <1>2, <1>3, <2>1, <2>2, <2>4, KeyStep
      <2> QED BY <2>3, <2>4
  <1>6. \A k \in WriteKeys : WritesOK(k)'
      <2>1. \A k \in WriteKeys : k \in Keys /\ ~Owe(t, k)
          BY <1>1, KeysApart DEF Owe
      <2> QED BY <1>3, <2>1, WritesKept
  <1> QED BY <1>4, <1>5, <1>6 DEF ThrottleInv

(* A step that is no sign-in's leaves those that hold and owe as they were.*)
LEMMA SameThreads ==
    ASSUME NEW k, signIn' = signIn
    PROVE  Holders(k)' = Holders(k) /\ Owers(k)' = Owers(k)
  BY DEF Holders, Owers, Hold, Owe

(* A write is counted before it is let through (RateLimitFilter).          *)
LEMMA LimitWriteKeeps ==
    ASSUME ThrottleInv, NEW w \in WriteKeys, LimitWrite(w)
    PROVE  ThrottleInv'
  <1>0. ThrottleTypeOK /\ w \in Keys /\ signIn' = signIn
      BY KeysApart DEF ThrottleInv, LimitWrite
  <1>1. /\ used[w] \in Nat /\ counts[w] \in Nat /\ missed[w] \in Nat /\ LimitOf[w] \in Nat
        /\ used[w] <= counts[w] + missed[w] /\ used[w] <= LimitOf[w] + missed[w]
      BY <1>0, KeyTypes DEF ThrottleInv, WritesOK
  <1>2. /\ counts' \in [Keys -> Nat] /\ used' \in [Keys -> Nat] /\ missed' \in [Keys -> Nat]
        /\ \A k \in Keys : k # w =>
              counts'[k] = counts[k] /\ used'[k] = used[k] /\ missed'[k] = missed[k]
        /\ \/ /\ counts'[w] = counts[w] + 1 /\ missed'[w] = missed[w]
              /\ used'[w] = IF counts[w] + 1 > LimitOf[w] THEN used[w] ELSE used[w] + 1
           \/ /\ used'[w] = used[w] + 1 /\ missed'[w] = missed[w] + 1
              /\ counts'[w] = counts[w] \/ counts'[w] = counts[w] + 1
      <2>1. CASE /\ counts' = [counts EXCEPT ![w] = @ + 1]
                 /\ used' = [used EXCEPT ![w] = IF counts'[w] > LimitOf[w] THEN @ ELSE @ + 1]
                 /\ missed' = missed
          BY <1>0, <1>1, <2>1 DEF ThrottleTypeOK
      <2>2. CASE /\ used' = [used EXCEPT ![w] = @ + 1]
                 /\ missed' = [missed EXCEPT ![w] = @ + 1]
                 /\ counts' \in {counts, [counts EXCEPT ![w] = @ + 1]}
          BY <1>0, <1>1, <2>2 DEF ThrottleTypeOK
      <2> QED BY <2>1, <2>2 DEF LimitWrite
  <1>3. ThrottleTypeOK'
      BY <1>0, <1>2 DEF ThrottleTypeOK
  <1>4. ASSUME NEW k \in FailureKeys PROVE FailuresOK(k)'
      <2>1. k \in Keys /\ k # w
          BY KeysApart
      <2>2. Holders(k)' = Holders(k) /\ Owers(k)' = Owers(k)
          BY <1>0, SameThreads
      <2> QED BY <1>2, <2>1, <2>2 DEF ThrottleInv, FailuresOK
  <1>5. ASSUME NEW k \in WriteKeys PROVE WritesOK(k)'
      <2>1. CASE k = w
          BY <1>1, <1>2, <2>1 DEF WritesOK
      <2>2. CASE k # w
          BY <1>2, <2>2, KeysApart DEF ThrottleInv, WritesOK
      <2> QED BY <2>1, <2>2
  <1> QED BY <1>3, <1>4, <1>5 DEF ThrottleInv

(* What Redis forgets is missed.                                           *)
LEMMA ForgetKeeps ==
    ASSUME ThrottleInv, NEW c \in Keys, Forget(c)
    PROVE  ThrottleInv'
  <1>0. ThrottleTypeOK /\ used' = used /\ signIn' = signIn
      BY DEF ThrottleInv, Forget
  <1>1. /\ counts' \in [Keys -> Nat] /\ missed' \in [Keys -> Nat]
        /\ \A k \in Keys : \/ counts'[k] = counts[k] /\ missed'[k] = missed[k]
                           \/ counts'[k] = 0 /\ missed'[k] = missed[k] + counts[k]
      BY <1>0 DEF Forget, ThrottleTypeOK
  <1>2. ThrottleTypeOK'
      BY <1>0, <1>1 DEF ThrottleTypeOK
  <1>3. ASSUME NEW k \in FailureKeys PROVE FailuresOK(k)'
      <2>1. /\ k \in Keys /\ used[k] \in Nat /\ counts[k] \in Nat /\ missed[k] \in Nat
            /\ LimitOf[k] \in Nat
          BY <1>0, KeysApart, KeyTypes
      <2>2. /\ Cardinality(Holders(k)') = Cardinality(Holders(k))
            /\ Cardinality(Owers(k)') = Cardinality(Owers(k))
            /\ Cardinality(Holders(k)) \in Nat /\ Cardinality(Owers(k)) \in Nat
            /\ Cardinality(SignIns) \in Nat
          BY <1>0, SameThreads, ThreadsCounted
      <2>3. FailuresOK(k)
          BY DEF ThrottleInv
      <2> QED BY <1>0, <1>1, <2>1, <2>2, <2>3 DEF FailuresOK
  <1>4. ASSUME NEW k \in WriteKeys PROVE WritesOK(k)'
      <2>1. /\ k \in Keys /\ used[k] \in Nat /\ counts[k] \in Nat /\ missed[k] \in Nat
            /\ LimitOf[k] \in Nat
          BY <1>0, KeysApart, KeyTypes
      <2>2. WritesOK(k)
          BY DEF ThrottleInv
      <2> QED BY <1>0, <1>1, <2>1, <2>2 DEF WritesOK
  <1> QED BY <1>2, <1>3, <1>4 DEF ThrottleInv

(* Every step keeps the invariant.                                         *)
LEMMA ThrottleStep == ThrottleInv /\ [ThrottleNext]_throttleVars => ThrottleInv'
  <1> SUFFICES ASSUME ThrottleInv, [ThrottleNext]_throttleVars PROVE ThrottleInv'
      OBVIOUS
  <1>1. ASSUME NEW t \in SignIns, NEW subject \in SubjectKeys, NEW address \in AddressKeys,
               BeginSignIn(t, subject, address)
        PROVE  ThrottleInv'
      BY <1>1, BeginKeeps
  <1>2. ASSUME NEW t \in SignIns,
               \/ CheckSubject(t) \/ CheckAddress(t) \/ Succeed(t) \/ Fail(t)
               \/ CountSubject(t) \/ CountAddress(t) \/ Crash(t)
        PROVE  ThrottleInv'
      BY <1>2, CheckSubjectKeeps, CheckAddressKeeps, SucceedKeeps, FailKeeps,
         CountSubjectKeeps, CountAddressKeeps, CrashKeeps
  <1>3. ASSUME NEW k \in WriteKeys, LimitWrite(k) PROVE ThrottleInv'
      BY <1>3, LimitWriteKeeps
  <1>4. ASSUME NEW k \in Keys, Forget(k) PROVE ThrottleInv'
      BY <1>4, ForgetKeeps
  <1>5. CASE UNCHANGED throttleVars
      <2>1. used' = used /\ counts' = counts /\ missed' = missed /\ signIn' = signIn
          BY <1>5 DEF throttleVars
      <2>2. \A k : Holders(k)' = Holders(k) /\ Owers(k)' = Owers(k)
          BY <2>1, SameThreads
      <2> QED BY <2>1, <2>2 DEF ThrottleInv, ThrottleTypeOK, FailuresOK, WritesOK
  <1> QED BY <1>1, <1>2, <1>3, <1>4, <1>5 DEF ThrottleNext

(* Types, failures counted, owed or missed, and room only for those that   *)
(* are past the limit (CredentialThrottle, RateLimitFilter).               *)
THEOREM ThrottleInvariant == ThrottleSpec => []ThrottleInv
  <1>1. ThrottleInit => ThrottleInv
      BY InitialThrottle
  <1>2. ThrottleInv /\ [ThrottleNext]_throttleVars => ThrottleInv'
      BY ThrottleStep
  <1> QED BY <1>1, <1>2, PTL DEF ThrottleSpec

(* No window lets through more than its limit and what overlaps, whatever  *)
(* Redis fails or forgets, for any limits and number of threads.           *)
THEOREM WindowsHoldAlways == ThrottleSpec => []WindowsHold
  <1>1. ThrottleInv => WindowsHold
      <2> SUFFICES ASSUME ThrottleInv PROVE WindowsHold
          OBVIOUS
      <2>1. ASSUME NEW k \in SubjectKeys \cup AddressKeys
            PROVE  /\ used[k] <= LimitOf[k] + Cardinality(SignIns) - 1 + missed[k]
                   /\ counts[k] <= used[k]
          <3>1. /\ used[k] \in Nat /\ counts[k] \in Nat /\ missed[k] \in Nat
                /\ LimitOf[k] \in Nat /\ k \in FailureKeys
              BY KeyTypes, KeysApart DEF ThrottleInv, FailureKeys
          <3>2. /\ Cardinality(Holders(k)) \in Nat /\ Cardinality(Owers(k)) \in Nat
                /\ Cardinality(SignIns) \in Nat
              BY ThreadsCounted
          <3>3. FailuresOK(k)
              BY <3>1 DEF ThrottleInv
          <3> QED BY <3>1, <3>2, <3>3 DEF FailuresOK
      <2>2. \A k \in WriteKeys : used[k] <= LimitOf[k] + missed[k]
          BY DEF ThrottleInv, WritesOK
      <2> QED BY <2>1, <2>2 DEF WindowsHold
  <1> QED BY <1>1, ThrottleInvariant, PTL
-----------------------------------------------------------------------------
(* The snapshot, for any workers, requests and lifetime.                   *)

Busy == [at : {"query", "stamp", "write"}, stamp : Nat, current : BOOLEAN, took : Nat]

(* A snapshot that is there.                                               *)
Kept == [there : {TRUE}, stamp : Nat, current : BOOLEAN, took : Nat]

(* What the variables of the computations and the snapshot can be.         *)
StatsTypeOK ==
    /\ snapshot = NoSnapshot \/ snapshot \in Kept
    /\ work \in [Workers \cup Readers -> {Resting} \cup Busy]
    /\ quiet \in Nat

(* How long ago computation c, which is doing w, began: a request's has no *)
(* age before its stamp.                                                   *)
Since(c, w) == IF c \in Readers /\ w.at # "write" THEN w.took ELSE w.stamp + w.took

(* What is out of date has been so no longer than the computation goes on. *)
WorkOK(c) == work[c] # Resting /\ ~work[c].current => quiet <= Since(c, work[c])

(* A snapshot that is out of date has been so no longer than its age and   *)
(* the time it took.                                                       *)
SnapshotOK == snapshot.there /\ ~snapshot.current => quiet <= snapshot.stamp + snapshot.took

(* The inductive invariant of the snapshot.                                *)
StatsInv == StatsTypeOK /\ SnapshotOK /\ \A c \in Workers \cup Readers : WorkOK(c)
-----------------------------------------------------------------------------
(* A computation that is under way has all its fields.                     *)
LEMMA BusyFields ==
    ASSUME StatsTypeOK, NEW c \in Workers \cup Readers, work[c].at # "rest"
    PROVE  work[c] \in Busy /\ work[c] # Resting
  BY DEF StatsTypeOK, Resting, Busy

(* Resting is no computation, and the empty snapshot none that is kept.    *)
LEMMA RestingFields == Resting.at = "rest" /\ Resting \notin Busy /\ NoSnapshot \notin Kept
                        /\ ~NoSnapshot.there
  BY DEF Resting, Busy, NoSnapshot, Kept

(* The initial states satisfy the invariant.                               *)
LEMMA InitialStats == StatsInit => StatsInv
  <1> SUFFICES ASSUME StatsInit PROVE StatsInv
      OBVIOUS
  <1>1. quiet = 0 /\ quiet \in Nat /\ work \in [Workers \cup Readers -> {Resting} \cup Busy]
      BY DEF StatsInit
  <1>3. ASSUME snapshot = NoSnapshot PROVE StatsTypeOK /\ SnapshotOK
      <2>1. SnapshotOK
          BY <1>3, RestingFields DEF SnapshotOK
      <2>2. StatsTypeOK
          BY <1>1, <1>3 DEF StatsTypeOK
      <2> QED BY <2>1, <2>2
  <1>4. ASSUME snapshot = [there |-> TRUE, stamp |-> Ttl + 1, current |-> FALSE, took |-> 0]
        PROVE  StatsTypeOK /\ SnapshotOK
      <2>1. Ttl + 1 \in Nat /\ snapshot.stamp = Ttl + 1 /\ snapshot.took = 0
          BY <1>4, StatsAssumption
      <2>2. snapshot \in Kept
          BY <1>4, <2>1 DEF Kept
      <2>3. StatsTypeOK
          BY <1>1, <2>2 DEF StatsTypeOK
      <2>4. SnapshotOK
          BY <1>1, <2>1 DEF SnapshotOK
      <2> QED BY <2>3, <2>4
  <1>5. StatsTypeOK /\ SnapshotOK
      BY <1>3, <1>4 DEF StatsInit
  <1>2. ASSUME NEW c \in Workers \cup Readers PROVE WorkOK(c)
      BY <1>2 DEF StatsInit, WorkOK
  <1> QED BY <1>2, <1>5 DEF StatsInv

(* A step of one computation leaves the others as they are.                *)
LEMMA OneMoves ==
    ASSUME StatsInv, NEW c \in Workers \cup Readers, NEW now \in {Resting} \cup Busy,
           Becomes(c, now), UNCHANGED quiet,
           now # Resting /\ ~now.current => quiet <= Since(c, now)
    PROVE  /\ work' \in [Workers \cup Readers -> {Resting} \cup Busy]
           /\ \A d \in Workers \cup Readers : WorkOK(d)'
  <1>1. work' \in [Workers \cup Readers -> {Resting} \cup Busy]
      BY DEF StatsInv, StatsTypeOK, Becomes
  <1>2. ASSUME NEW d \in Workers \cup Readers PROVE WorkOK(d)'
      <2>1. CASE d = c
          <3>1. work'[d] = now
              BY <2>1 DEF StatsInv, StatsTypeOK, Becomes
          <3> QED BY <2>1, <3>1 DEF WorkOK, Since
      <2>2. CASE d # c
          <3>1. work'[d] = work[d]
              BY <2>2 DEF StatsInv, StatsTypeOK, Becomes
          <3>2. WorkOK(d)
              BY DEF StatsInv
          <3> QED BY <3>1, <3>2 DEF WorkOK, Since
      <2> QED BY <2>1, <2>2
  <1> QED BY <1>1, <1>2

(* Changed alerts put what they change out of date, as of now.             *)
LEMMA OutdatedStep ==
    ASSUME StatsInv, NEW cs, \A c \in cs : work[c].at # "rest", Outdated(cs)
    PROVE  StatsInv'
  <1>0. StatsTypeOK
      BY DEF StatsInv
  <1>1. quiet' = 0
      BY DEF Outdated
  <1>2. snapshot' = NoSnapshot \/ snapshot' \in Kept
      BY <1>0 DEF Outdated, StatsTypeOK, Kept, NoSnapshot
  <1>3. ASSUME NEW c \in Workers \cup Readers
        PROVE  work'[c] \in {Resting} \cup Busy
      <2>1. CASE c \notin cs
          BY <1>0, <2>1 DEF Outdated, StatsTypeOK
      <2>2. CASE c \in cs
          <3>1. work[c] \in Busy
              BY <1>0, <2>2, BusyFields
          <3>2. work'[c] = [work[c] EXCEPT !.current = FALSE]
              BY <1>0, <2>2 DEF Outdated, StatsTypeOK
          <3> QED BY <3>1, <3>2 DEF Busy
      <2> QED BY <2>1, <2>2
  <1>4. work' \in [Workers \cup Readers -> {Resting} \cup Busy]
      BY <1>0, <1>3 DEF Outdated, StatsTypeOK
  <1>5. StatsTypeOK'
      BY <1>1, <1>2, <1>4 DEF StatsTypeOK
  <1>6. SnapshotOK'
      <2>1. CASE snapshot' = NoSnapshot
          BY <2>1, RestingFields DEF SnapshotOK
      <2>2. CASE snapshot' \in Kept
          <3>1. snapshot'.stamp \in Nat /\ snapshot'.took \in Nat
              BY <2>2 DEF Kept
          <3> QED BY <1>1, <3>1 DEF SnapshotOK
      <2> QED BY <1>2, <2>1, <2>2
  <1>7. ASSUME NEW c \in Workers \cup Readers PROVE WorkOK(c)'
      BY <1>1, <1>3 DEF WorkOK, Since, Busy
  <1> QED BY <1>5, <1>6, <1>7 DEF StatsInv

(* Every step keeps the invariant, or changes nothing.                     *)
LEMMA StatsStep == StatsInv /\ [StatsNext]_statsVars => StatsInv'
  <1> SUFFICES ASSUME StatsInv, [StatsNext]_statsVars PROVE StatsInv'
      OBVIOUS
  <1>0. StatsTypeOK /\ SnapshotOK
      BY DEF StatsInv
  <1>1. ASSUME NEW c \in Workers \cup Readers, Recompute(c) \/ Summary(c) PROVE StatsInv'
      <2> DEFINE now == [at |-> "query", stamp |-> 0, current |-> TRUE, took |-> 0]
      <2>1. now \in Busy /\ now.current /\ Becomes(c, now) /\ UNCHANGED <<snapshot, quiet>>
          BY <1>1 DEF Recompute, Summary, Busy
      <2> HIDE DEF now
      <2>2. QED BY <1>0, <2>1, OneMoves DEF StatsInv, StatsTypeOK, SnapshotOK
  <1>2. ASSUME NEW c \in Workers \cup Readers, Query(c) PROVE StatsInv'
      <2> DEFINE now == [work[c] EXCEPT !.at = IF c \in Readers THEN "stamp" ELSE "write"]
      <2>1. work[c] \in Busy /\ work[c] # Resting /\ work[c].at = "query" /\ WorkOK(c)
          BY <1>0, <1>2, BusyFields DEF Query, StatsInv
      <2>2. /\ now \in Busy /\ Becomes(c, now) /\ UNCHANGED <<snapshot, quiet>>
            /\ now.at = (IF c \in Readers THEN "stamp" ELSE "write")
            /\ now.stamp = work[c].stamp /\ now.took = work[c].took
            /\ now.current = work[c].current
          BY <1>2, <2>1 DEF Query, Busy
      <2>3. ~now.current => quiet <= Since(c, now)
          BY <2>1, <2>2 DEF WorkOK, Since
      <2> HIDE DEF now
      <2>4. QED BY <1>0, <2>2, <2>3, OneMoves DEF StatsInv, StatsTypeOK, SnapshotOK
  <1>3. ASSUME NEW c \in Readers, Stamp(c) PROVE StatsInv'
      <2> DEFINE now == [work[c] EXCEPT !.at = "write", !.stamp = 0]
      <2>1. work[c] \in Busy /\ work[c] # Resting /\ work[c].at = "stamp" /\ WorkOK(c)
          BY <1>0, <1>3, BusyFields DEF Stamp, StatsInv
      <2>2. /\ now \in Busy /\ Becomes(c, now) /\ UNCHANGED <<snapshot, quiet>>
            /\ now.at = "write" /\ now.stamp = 0 /\ now.took = work[c].took
            /\ now.current = work[c].current /\ now.took \in Nat
          BY <1>3, <2>1 DEF Stamp, Busy
      <2>3. ~now.current => quiet <= Since(c, now)
          BY <1>0, <2>1, <2>2 DEF WorkOK, Since, StatsTypeOK
      <2> HIDE DEF now
      <2>4. QED BY <1>0, <2>2, <2>3, OneMoves DEF StatsInv, StatsTypeOK, SnapshotOK
  <1>4. ASSUME NEW c \in Workers \cup Readers, GiveUp(c) PROVE StatsInv'
      BY <1>0, <1>4, OneMoves DEF GiveUp, StatsInv, StatsTypeOK, SnapshotOK
  <1>5. ASSUME NEW c \in Workers \cup Readers, WriteSnapshot(c) PROVE StatsInv'
      <2>1. work[c] \in Busy /\ work[c] # Resting /\ work[c].at = "write" /\ WorkOK(c)
          BY <1>0, <1>5, BusyFields DEF WriteSnapshot, StatsInv
      <2>2. /\ snapshot' \in Kept /\ snapshot'.current = work[c].current
            /\ snapshot'.stamp = work[c].stamp /\ snapshot'.took = work[c].took
          BY <1>5, <2>1 DEF WriteSnapshot, Snapshot, Busy, Kept
      <2>3. Becomes(c, Resting) /\ UNCHANGED quiet
          BY <1>5 DEF WriteSnapshot
      <2>4. SnapshotOK'
          BY <2>1, <2>2, <2>3 DEF SnapshotOK, WorkOK, Since
      <2> QED BY <1>0, <2>2, <2>3, <2>4, OneMoves DEF StatsInv, StatsTypeOK
  <1>6. CASE Change \/ Leave
      BY <1>6, OutdatedStep DEF Change, Leave
  <1>7. CASE Tick
      <2>1. quiet' = quiet + 1 /\ quiet \in Nat
          BY <1>0, <1>7 DEF Tick, StatsTypeOK
      <2>2. \/ snapshot' = NoSnapshot
            \/ /\ snapshot \in Kept /\ snapshot' \in Kept
               /\ snapshot' = [snapshot EXCEPT !.stamp = @ + 1]
          <3>1. CASE snapshot = NoSnapshot
              BY <1>7, <3>1, RestingFields DEF Tick
          <3>2. CASE snapshot \in Kept
              <4>1. snapshot.there /\ snapshot.stamp \in Nat /\ snapshot.stamp + 1 \in Nat
                  <5>1. snapshot.there = TRUE /\ snapshot.stamp \in Nat
                      BY <3>2 DEF Kept
                  <5> QED BY <5>1
              <4>2. snapshot' = [snapshot EXCEPT !.stamp = snapshot.stamp + 1]
                  BY <1>7, <4>1 DEF Tick
              <4> QED BY <3>2, <4>1, <4>2 DEF Kept
          <3> QED BY <1>0, <3>1, <3>2 DEF StatsTypeOK
      <2>3. ASSUME NEW c \in Workers \cup Readers
            PROVE  work'[c] \in {Resting} \cup Busy /\ WorkOK(c)'
          <3>0. WorkOK(c)
              BY DEF StatsInv
          <3>1. CASE work[c].at = "rest"
              BY <1>0, <1>7, <3>1 DEF Tick, StatsTypeOK, WorkOK
          <3>2. CASE c \in Readers /\ work[c].at \in {"query", "stamp"}
              <4>1. work[c] \in Busy /\ work[c] # Resting
                  BY <1>0, <3>2, BusyFields
              <4>2. work'[c] = [work[c] EXCEPT !.took = @ + 1]
                  BY <1>0, <1>7, <3>2 DEF Tick, StatsTypeOK
              <4> QED BY <2>1, <3>0, <3>2, <4>1, <4>2 DEF Busy, WorkOK, Since
          <3>3. CASE work[c].at = "write" \/ (c \notin Readers /\ work[c].at # "rest")
              <4>1. work[c] \in Busy /\ work[c] # Resting
                  BY <1>0, <3>3, BusyFields
              <4>2. work'[c] = [work[c] EXCEPT !.stamp = @ + 1]
                  BY <1>0, <1>7, <3>3 DEF Tick, StatsTypeOK
              <4> QED BY <2>1, <3>0, <3>3, <4>1, <4>2 DEF Busy, WorkOK, Since
          <3>4. work[c].at \in {"rest", "query", "stamp", "write"}
              BY <1>0, RestingFields DEF StatsTypeOK, Busy
          <3> QED BY <3>1, <3>2, <3>3, <3>4
      <2>4. work' \in [Workers \cup Readers -> {Resting} \cup Busy]
          BY <1>0, <1>7, <2>3 DEF Tick, StatsTypeOK
      <2>5. StatsTypeOK'
          BY <2>1, <2>2, <2>4 DEF StatsTypeOK
      <2>6. SnapshotOK'
          <3>1. CASE snapshot' = NoSnapshot
              BY <3>1, RestingFields DEF SnapshotOK
          <3>2. CASE snapshot \in Kept /\ snapshot' = [snapshot EXCEPT !.stamp = @ + 1]
              <4>1. /\ snapshot'.stamp = snapshot.stamp + 1 /\ snapshot'.took = snapshot.took
                    /\ snapshot'.current = snapshot.current /\ snapshot.there
                    /\ snapshot.stamp \in Nat /\ snapshot.took \in Nat
                  BY <3>2 DEF Kept
              <4> QED BY <1>0, <2>1, <4>1 DEF SnapshotOK
          <3> QED BY <2>2, <3>1, <3>2
      <2> QED BY <2>3, <2>5, <2>6 DEF StatsInv
  <1>8. CASE Expire
      <2>1. snapshot' = NoSnapshot /\ UNCHANGED <<work, quiet>>
          BY <1>8 DEF Expire
      <2>2. StatsTypeOK' /\ SnapshotOK'
          BY <1>0, <2>1, RestingFields DEF StatsTypeOK, SnapshotOK
      <2> QED BY <2>1, <2>2 DEF StatsInv, WorkOK, Since
  <1>9. CASE UNCHANGED statsVars
      BY <1>9 DEF statsVars, StatsInv, StatsTypeOK, SnapshotOK, WorkOK, Since
  <1> QED BY <1>1, <1>2, <1>3, <1>4, <1>5, <1>6, <1>7, <1>8, <1>9 DEF StatsNext

(* Every variable keeps its type, and what is out of date is so no longer  *)
(* than it is old.                                                         *)
THEOREM StatsInvariant == StatsSpec => []StatsInv
  BY InitialStats, StatsStep, PTL DEF StatsSpec

(* What the invariant says of a fresh snapshot is the property.            *)
LEMMA FreshIsCurrent == StatsInv => StatsCatchUp
  <1> SUFFICES ASSUME StatsInv, IsFresh(snapshot), quiet >= Ttl + snapshot.took,
                      ~snapshot.current
               PROVE  FALSE
      BY DEF StatsCatchUp
  <1>1. snapshot \in Kept /\ snapshot.there /\ snapshot.stamp < Ttl
      BY RestingFields DEF StatsInv, StatsTypeOK, IsFresh
  <1>2. quiet <= snapshot.stamp + snapshot.took
      BY <1>1 DEF StatsInv, SnapshotOK
  <1>3. snapshot.stamp \in Nat /\ snapshot.took \in Nat /\ quiet \in Nat /\ Ttl \in Nat
      BY <1>1, StatsAssumption DEF StatsInv, StatsTypeOK, Kept
  <1> QED BY <1>1, <1>2, <1>3

(* Whatever overlaps and whoever writes last: once the alerts have stayed  *)
(* as they are for the lifetime and as long as the API took to compute,    *)
(* what a request takes from Redis shows them (StatsService.summary).      *)
THEOREM CatchesUp == StatsSpec => []StatsCatchUp
  BY StatsInvariant, FreshIsCurrent, PTL
-----------------------------------------------------------------------------
(***************************************************************************)
(* Proofs about ZoneOwnership for any zones, endpoints, accounts,          *)
(* fingerprints and threads: types, the either-or of the owner columns,    *)
(* rightful owners, only holders change a zone, and a deleted zone stays   *)
(* deleted.                                                                *)
(***************************************************************************)

(* Whom a row belongs to follows from whom it was made for.                *)
Rightly(o, p) == o = p \/ Inherits(o, p)

RowsOK ==
    /\ \A z \in Zones : creator[z] # NONE =>
            creator[z].userId = NONE \/ creator[z].fingerprint = NONE
    /\ \A z \in Zones : zones[z] # NONE =>
            creator[z] # NONE /\ Rightly(zones[z].owner, creator[z])
    /\ \A e \in Endpoints : subs[e] # NONE =>
            /\ subs[e].owner \in ZoneOwner
            /\ saver[e] \in ZoneOwner
            /\ Rightly(subs[e].owner, saver[e])

(* The copies of transaction x were rightly owned, and x may write them.   *)
CopiesOK(x) ==
    \A z \in Zones : x.copy[z] # NONE =>
        /\ creator[z] # NONE
        /\ Rightly(x.copy[z].owner, creator[z])
        /\ \/ /\ x.op \in {"update", "delete"}
              /\ Owns(x.who, x.copy[z])
           \/ /\ x.op = "claim"
              /\ x.copy[z].owner.userId = NONE
              /\ x.copy[z].owner.fingerprint = x.who.fingerprint

(* Whom transaction x speaks for, and the rows its bulk UPDATE has locked. *)
BodyOK(x) ==
    /\ x.op \in {"update", "delete", "save", "unsubscribe"} => x.who \in ZoneOwner
    /\ x.op = "update" => x.body \in Bodies
    /\ x.op \in {"save", "unsubscribe"} => x.endpoint \in Endpoints
    /\ x.op = "claim" => /\ x.who \in Claimant
                         /\ <<x.who.userId, x.who.fingerprint>> \in presented
    /\ \A e \in x.moved : /\ x.op = "claim"
                          /\ subs[e] # NONE
                          /\ subs[e].owner.fingerprint = x.who.fingerprint

TxnsOK ==
    /\ \A t \in Txns : CopiesOK(tx[t]) /\ BodyOK(tx[t])
    /\ \A s, t \in Txns : s # t => tx[s].moved \cap tx[t].moved = {}

ZInv == ZoneTypeOK /\ RowsOK /\ TxnsOK
-----------------------------------------------------------------------------
(* What an idle thread holds: nothing.                                     *)
LEMMA IdleFacts ==
    /\ Idle \in Transaction /\ Idle.moved = {} /\ Idle.op = "none"
    /\ \A z \in Zones : Idle.copy[z] = NONE
    /\ Idle.phase = "idle" /\ Idle.who = Nobody
BY DEF Idle, Transaction, NoCopies, Nobody, Owner, RowOrNone

(* The types of a transaction's fields.                                    *)
LEMMA TxType ==
    ASSUME ZoneTypeOK, NEW t \in Txns
    PROVE  /\ tx[t] \in Transaction
           /\ tx[t].copy \in [Zones -> RowOrNone(ZoneRow)]
           /\ tx[t].moved \subseteq Endpoints
           /\ tx[t].who \in Owner
BY DEF ZoneTypeOK, Transaction

(* No row and no owner is the absent one, and who may own or claim is an   *)
(* owner.                                                                  *)
LEMMA NotNone ==
    /\ \A r \in ZoneRow : r # NONE
    /\ \A r \in SubRow : r # NONE
    /\ \A o \in Owner : o # NONE
    /\ ZoneOwner \subseteq Owner /\ Claimant \subseteq Owner
    /\ Nobody \in Owner
BY ZoneAssumption DEF Owner, ZoneOwner, Claimant, Nobody

(* An account got to an inheritance by a claim, so it is an account.       *)
LEMMA InheritsFacts ==
    ASSUME ZoneTypeOK, NEW o \in Owner, NEW p \in Owner, Inherits(o, p)
    PROVE  /\ o.userId \in Accounts /\ o.userId # NONE
           /\ p.fingerprint \in Fingerprints /\ p.fingerprint # NONE
           /\ o = [userId |-> o.userId, fingerprint |-> NONE]
<1>1. o.userId \in Accounts /\ p.fingerprint \in Fingerprints
  BY DEF Inherits, ZoneTypeOK
<1>2. QED
  BY <1>1, ZoneAssumption DEF Inherits, Owner

(* A claim leaves an anonymous row of its fingerprint to its account.      *)
LEMMA ClaimInherits ==
    ASSUME ZoneTypeOK, NEW c \in Claimant, NEW p \in Owner, NEW o \in Owner,
           <<c.userId, c.fingerprint>> \in presented,
           o.userId = NONE, o.fingerprint = c.fingerprint, Rightly(o, p)
    PROVE  /\ Claimed(o, c.userId) \in ZoneOwner
           /\ Inherits(Claimed(o, c.userId), p)
<1>1. o = p
  BY InheritsFacts DEF Rightly
<1>2. c.userId \in Accounts /\ c.userId # NONE
  BY ZoneAssumption DEF Claimant
<1>3. QED
  BY <1>1, <1>2 DEF Claimed, Inherits, ZoneOwner, Owner

(* The invariant holds at the start.                                       *)
LEMMA ZInit == Init => ZInv
<1> SUFFICES ASSUME Init PROVE ZInv
  OBVIOUS
<1> USE IdleFacts, NotNone
<1>1. ZoneTypeOK
  BY ZoneAssumption DEF Init, ZoneTypeOK, RowOrNone
<1>2. RowsOK
  BY DEF Init, RowsOK, Rightly, Nobody
<1>3. TxnsOK
  BY DEF Init, TxnsOK, CopiesOK, BodyOK
<1>4. QED
  BY <1>1, <1>2, <1>3 DEF ZInv

(* A transaction that begins loads rightful rows and holds no lock.        *)
LEMMA BeginIs ==
    ASSUME ZInv, NEW t \in Txns, NEW x \in Transaction,
           Begin(t, x), CopiesOK(x)', BodyOK(x)', x.moved = {},
           presented \subseteq presented', presented' \subseteq Accounts \X Fingerprints,
           UNCHANGED <<zones, subs, inserted, creator, saver>>
    PROVE  ZInv'
<1>1. ZoneTypeOK'
  BY DEF ZInv, ZoneTypeOK, Begin
<1>2. RowsOK'
  BY DEF ZInv, RowsOK, Rightly, Inherits
<1>3. \A s \in Txns : tx'[s] = IF s = t THEN x ELSE tx[s]
  BY DEF ZInv, ZoneTypeOK, Begin
<1>4. \A s \in Txns : CopiesOK(tx[s])'
  BY <1>3 DEF ZInv, TxnsOK, CopiesOK, Rightly, Inherits
<1>5. \A s \in Txns : BodyOK(tx[s])'
  BY <1>3 DEF ZInv, TxnsOK, BodyOK
<1>6. \A r, s \in Txns : r # s => tx'[r].moved \cap tx'[s].moved = {}
  BY <1>3 DEF ZInv, TxnsOK
<1>7. QED
  BY <1>1, <1>2, <1>4, <1>5, <1>6 DEF ZInv, TxnsOK

(* An update or a deletion that loads its zone.                            *)
LEMMA OnZoneKeeps ==
    ASSUME ZInv, NEW t \in Txns, NEW z \in Zones, NEW o \in ZoneOwner,
           NEW b \in RowOrNone(Bodies), NEW op \in {"update", "delete"},
           op = "update" => b \in Bodies, BeginOnZone(t, op, z, o, b)
    PROVE  ZInv'
<1>0. PICK x : x = [Idle EXCEPT !.op = op, !.phase = "loaded", !.who = o, !.body = b,
                                !.copy = [NoCopies EXCEPT ![z] = zones[z]]]
  OBVIOUS
<1>1. x \in Transaction /\ x.moved = {} /\ x.op = op /\ x.who = o /\ x.body = b
  BY <1>0, NotNone DEF ZInv, ZoneTypeOK, Transaction, Idle, NoCopies, RowOrNone
<1>2. \A y \in Zones : x.copy[y] = IF y = z THEN zones[z] ELSE NONE
  BY <1>0 DEF Idle, NoCopies
<1>3. CopiesOK(x)'
  BY <1>1, <1>2 DEF BeginOnZone, CopiesOK, ZInv, RowsOK, Rightly, Inherits
<1>4. BodyOK(x)'
  BY <1>1 DEF BodyOK
<1>5. QED
  BY <1>0, <1>1, <1>3, <1>4, BeginIs DEF BeginOnZone, ZInv, ZoneTypeOK

(* A claim that loads the zones it finds.                                  *)
LEMMA ClaimKeeps ==
    ASSUME ZInv, NEW t \in Txns, NEW c \in Claimant, BeginClaim(t, c)
    PROVE  ZInv'
<1>0. PICK x : x = [Idle EXCEPT !.op = "claim", !.phase = "loaded", !.who = c,
                                !.copy = [z \in Zones |->
                                            IF z \in Claimable(c.fingerprint)
                                            THEN zones[z] ELSE NONE]]
  OBVIOUS
<1>1. x \in Transaction /\ x.moved = {} /\ x.op = "claim" /\ x.who = c
  BY <1>0, NotNone DEF ZInv, ZoneTypeOK, Transaction, Idle, NoCopies, RowOrNone
<1>2. \A z \in Zones : x.copy[z] # NONE => /\ z \in Claimable(c.fingerprint)
                                           /\ x.copy[z] = zones[z]
  BY <1>0 DEF Idle
<1>3. CopiesOK(x)'
  BY <1>1, <1>2 DEF BeginClaim, CopiesOK, ZInv, RowsOK, Rightly, Inherits, Claimable
<1>4. BodyOK(x)'
  BY <1>1 DEF BodyOK, BeginClaim
<1>5. presented' \subseteq Accounts \X Fingerprints
  BY DEF BeginClaim, ZInv, ZoneTypeOK, Claimant
<1>6. QED
  BY <1>0, <1>1, <1>3, <1>4, <1>5, BeginIs DEF BeginClaim

(* A save or a deletion of a subscription that looks for its row.          *)
LEMMA SubscriptionKeeps ==
    ASSUME ZInv, NEW t \in Txns, NEW e \in Endpoints, NEW o \in ZoneOwner,
           BeginSave(t, e, o) \/ BeginUnsubscribe(t, e, o)
    PROVE  ZInv'
<1>1. PICK op \in {"save", "unsubscribe"} :
          Begin(t, [Idle EXCEPT !.op = op, !.phase = "loaded", !.who = o,
                                !.endpoint = e, !.seen = subs[e]])
  BY DEF BeginSave, BeginUnsubscribe
<1>0. PICK x : x = [Idle EXCEPT !.op = op, !.phase = "loaded", !.who = o,
                                !.endpoint = e, !.seen = subs[e]]
  OBVIOUS
<1>2. /\ x \in Transaction /\ x.moved = {} /\ x.op = op /\ x.who = o /\ x.endpoint = e
      /\ \A z \in Zones : x.copy[z] = NONE
  BY <1>0, NotNone DEF ZInv, ZoneTypeOK, Transaction, Idle, NoCopies, RowOrNone
<1>3. CopiesOK(x)' /\ BodyOK(x)'
  BY <1>2 DEF CopiesOK, BodyOK
<1>4. QED
  BY <1>0, <1>1, <1>2, <1>3, BeginIs DEF BeginSave, BeginUnsubscribe, ZInv, ZoneTypeOK
-----------------------------------------------------------------------------
(* The bulk UPDATE: what it has locked is anonymous and of its fingerprint.*)
LEMMA BulkKeeps ==
    ASSUME ZInv, NEW t \in Txns, ClaimSubscriptions(t)
    PROVE  ZInv'
<1>0. PICK M : M = SubscriptionsOf(tx[t].who.fingerprint)
  OBVIOUS
<1>1. /\ M \in SUBSET Endpoints
      /\ \A e \in M : subs[e] # NONE /\ subs[e].owner.fingerprint = tx[t].who.fingerprint
  BY <1>0 DEF SubscriptionsOf
<1>2. tx' = [tx EXCEPT ![t].phase = "moved", ![t].moved = M]
  BY <1>0 DEF ClaimSubscriptions
<1>3. tx[t].op = "claim" /\ \A s \in Txns \ {t} : M \cap tx[s].moved = {}
  BY <1>0 DEF ClaimSubscriptions, Locked
<1>4. UNCHANGED <<zones, subs, inserted, creator, saver, presented>>
  BY DEF ClaimSubscriptions
<1>5. tx \in [Txns -> Transaction]
  BY DEF ZInv, ZoneTypeOK
<1>6. \A s \in Txns \ {t} : tx'[s] = tx[s]
  BY <1>2, <1>5
<1>7. /\ tx'[t] \in Transaction /\ tx'[t].moved = M /\ tx'[t].op = tx[t].op
      /\ tx'[t].who = tx[t].who /\ tx'[t].copy = tx[t].copy
      /\ tx'[t].body = tx[t].body /\ tx'[t].endpoint = tx[t].endpoint
  <2>1. tx'[t] = [tx[t] EXCEPT !.phase = "moved", !.moved = M]
    BY <1>2, <1>5
  <2>2. tx[t] \in Transaction
    BY <1>5
  <2>3. M \in SUBSET Endpoints
    BY <1>1
  <2>4. PICK x, y : x = tx[t] /\ y = tx'[t]
    OBVIOUS
  <2>5. x \in Transaction /\ y = [x EXCEPT !.phase = "moved", !.moved = M]
    BY <2>1, <2>2, <2>4
  <2>6. /\ y \in Transaction /\ y.moved = M /\ y.op = x.op
        /\ y.who = x.who /\ y.copy = x.copy
        /\ y.body = x.body /\ y.endpoint = x.endpoint
    BY <2>3, <2>5 DEF Transaction
  <2>7. QED
    BY <2>4, <2>6
<1>8. ZoneTypeOK'
  <2>1. tx' \in [Txns -> Transaction]
    BY <1>2, <1>5, <1>6, <1>7
  <2>2. QED
    BY <1>4, <2>1 DEF ZInv, ZoneTypeOK
<1>9. RowsOK'
  BY <1>4 DEF ZInv, RowsOK, Rightly, Inherits
<1>10. \A s \in Txns : CopiesOK(tx[s])'
  <2> SUFFICES ASSUME NEW s \in Txns PROVE CopiesOK(tx[s])'
    OBVIOUS
  <2>1. /\ CopiesOK(tx[s])
        /\ tx'[s].copy = tx[s].copy /\ tx'[s].op = tx[s].op /\ tx'[s].who = tx[s].who
    BY <1>6, <1>7 DEF ZInv, TxnsOK
  <2>2. QED
    BY <1>4, <2>1 DEF CopiesOK, Rightly, Inherits
<1>11. \A s \in Txns : BodyOK(tx[s])'
  <2>1. \A s \in Txns : BodyOK(tx[s])
    BY DEF ZInv, TxnsOK
  <2>2. ASSUME NEW s \in Txns \ {t} PROVE BodyOK(tx[s])'
    BY <1>4, <1>6, <2>1 DEF BodyOK
  <2>3. BodyOK(tx[t])'
    BY <1>1, <1>3, <1>4, <1>7, <2>1 DEF BodyOK
  <2>4. QED
    BY <2>2, <2>3
<1>12. \A r, s \in Txns : r # s => tx'[r].moved \cap tx'[s].moved = {}
  BY <1>3, <1>6, <1>7 DEF ZInv, TxnsOK
<1>13. QED
  BY <1>8, <1>9, <1>10, <1>11, <1>12 DEF ZInv, TxnsOK

(* A transaction that ends leaves the others their copies and locks.       *)
LEMMA EndKeeps ==
    ASSUME ZInv, NEW t \in Txns, End(t), UNCHANGED <<creator, presented>>,
           \A s \in Txns \ {t} : \A e \in tx[s].moved : subs'[e] = subs[e]
    PROVE  TxnsOK' /\ tx' \in [Txns -> Transaction]
<1>1. \A s \in Txns : tx'[s] = IF s = t THEN Idle ELSE tx[s]
  BY DEF End, ZInv, ZoneTypeOK
<1>2. tx' \in [Txns -> Transaction]
  BY IdleFacts DEF End, ZInv, ZoneTypeOK
<1>3. \A s \in Txns : CopiesOK(tx[s])'
  BY <1>1, IdleFacts DEF ZInv, TxnsOK, CopiesOK, Rightly, Inherits
<1>4. \A s \in Txns : BodyOK(tx[s])'
  BY <1>1, IdleFacts DEF ZInv, TxnsOK, BodyOK
<1>5. \A r, s \in Txns : r # s => tx'[r].moved \cap tx'[s].moved = {}
  BY <1>1, IdleFacts DEF ZInv, TxnsOK
<1>6. QED
  BY <1>2, <1>3, <1>4, <1>5 DEF TxnsOK

(* What update and claim write back is a row, and rightly owned.           *)
LEMMA WrittenRight ==
    ASSUME ZInv, NEW t \in Txns, NEW z \in Loaded(tx[t]), tx[t].op \in {"update", "claim"}
    PROVE  /\ Written(tx[t], z) \in ZoneRow
           /\ creator[z] # NONE /\ creator[z] \in Owner
           /\ Rightly(Written(tx[t], z).owner, creator[z])
<1>1. /\ z \in Zones /\ tx[t].copy[z] \in ZoneRow
      /\ creator[z] # NONE /\ creator[z] \in Owner
      /\ Rightly(tx[t].copy[z].owner, creator[z])
  BY TxType DEF Loaded, ZInv, TxnsOK, CopiesOK, RowOrNone, ZoneTypeOK
<1>2. CASE tx[t].op = "update"
  <2>1. /\ Written(tx[t], z) = [tx[t].copy[z] EXCEPT !.body = tx[t].body]
        /\ tx[t].body \in Bodies
    BY <1>2 DEF Written, ZInv, TxnsOK, BodyOK
  <2>2. QED
    BY <1>1, <2>1 DEF ZoneRow
<1>3. CASE tx[t].op = "claim"
  <2>1. /\ tx[t].who \in Claimant
        /\ <<tx[t].who.userId, tx[t].who.fingerprint>> \in presented
        /\ tx[t].copy[z].owner.userId = NONE
        /\ tx[t].copy[z].owner.fingerprint = tx[t].who.fingerprint
    BY <1>1, <1>3, NotNone DEF ZInv, TxnsOK, CopiesOK, BodyOK
  <2>2. tx[t].copy[z].owner \in Owner
    BY <1>1 DEF ZoneRow
  <2>3. /\ Claimed(tx[t].copy[z].owner, tx[t].who.userId) \in ZoneOwner
        /\ Inherits(Claimed(tx[t].copy[z].owner, tx[t].who.userId), creator[z])
    BY <1>1, <2>1, <2>2, ClaimInherits DEF ZInv
  <2>4. Written(tx[t], z) = [tx[t].copy[z] EXCEPT !.owner = Claimed(@, tx[t].who.userId)]
    BY <1>3 DEF Written
  <2>5. QED
    BY <1>1, <2>3, <2>4 DEF ZoneRow, ZoneOwner, Rightly
<1>4. QED
  BY <1>2, <1>3

(* What a claim makes of a subscription it has locked.                     *)
LEMMA MovedRight ==
    ASSUME ZInv, NEW t \in Txns, NEW e \in tx[t].moved,
           NEW r, r = [subs[e] EXCEPT !.owner = Claimed(@, tx[t].who.userId)]
    PROVE  /\ e \in Endpoints /\ subs[e] # NONE
           /\ r \in SubRow /\ r.owner \in ZoneOwner
           /\ saver[e] \in ZoneOwner /\ Rightly(r.owner, saver[e])
<1>1. e \in Endpoints /\ subs[e] # NONE /\ subs[e] \in SubRow
  BY TxType DEF ZInv, TxnsOK, BodyOK, ZoneTypeOK, RowOrNone
<1>2. /\ tx[t].who \in Claimant
      /\ <<tx[t].who.userId, tx[t].who.fingerprint>> \in presented
      /\ subs[e].owner.fingerprint = tx[t].who.fingerprint
  BY DEF ZInv, TxnsOK, BodyOK
<1>3. /\ subs[e].owner \in ZoneOwner /\ saver[e] \in ZoneOwner
      /\ Rightly(subs[e].owner, saver[e])
  BY <1>1 DEF ZInv, RowsOK
<1>4. subs[e].owner.userId = NONE
  BY <1>2, <1>3, ZoneAssumption DEF ZoneOwner, Claimant
<1>5. /\ Claimed(subs[e].owner, tx[t].who.userId) \in ZoneOwner
      /\ Inherits(Claimed(subs[e].owner, tx[t].who.userId), saver[e])
  BY <1>2, <1>3, <1>4, ClaimInherits, NotNone DEF ZInv
<1>6. QED
  BY <1>1, <1>3, <1>5, NotNone DEF SubRow, Rightly
-----------------------------------------------------------------------------
(* A transaction that ends after changing one subscription, or none: only  *)
(* an endpoint no claim has locked.                                        *)
LEMMA OneSubKeeps ==
    ASSUME ZInv, NEW t \in Txns, NEW e \in Endpoints,
           subs' \in [Endpoints -> RowOrNone(SubRow)],
           saver' \in [Endpoints -> RowOrNone(Owner)],
           inserted' \in 0 .. MaxInserts,
           \A d \in Endpoints \ {e} : subs'[d] = subs[d] /\ saver'[d] = saver[d],
           subs'[e] # NONE => subs'[e].owner \in ZoneOwner /\ saver'[e] = subs'[e].owner,
           \A s \in Txns \ {t} : e \notin tx[s].moved,
           End(t), UNCHANGED <<zones, creator, presented>>
    PROVE  ZInv'
<1>1. TxnsOK' /\ tx' \in [Txns -> Transaction]
  <2>1. \A s \in Txns \ {t} : \A d \in tx[s].moved : subs'[d] = subs[d]
    BY TxType DEF ZInv
  <2>2. QED
    BY <2>1, EndKeeps
<1>2. ZoneTypeOK'
  BY <1>1 DEF ZInv, ZoneTypeOK
<1>3. RowsOK'
  BY DEF ZInv, RowsOK, Rightly, Inherits
<1>4. QED
  BY <1>1, <1>2, <1>3 DEF ZInv

(* The commit of a new subscription.                                       *)
LEMMA InsertKeeps ==
    ASSUME ZInv, NEW t \in Txns, CommitInsert(t)
    PROVE  ZInv'
<1>0. PICK e : e = tx[t].endpoint
  OBVIOUS
<1>1. /\ e \in Endpoints /\ tx[t].who \in ZoneOwner
      /\ subs[e] = NONE
      /\ \A s \in Txns : e \notin tx[s].moved
  BY <1>0 DEF CommitInsert, ZInv, TxnsOK, BodyOK
<1>2. PICK r : r = [id |-> inserted + 1, owner |-> tx[t].who]
  OBVIOUS
<1>3. /\ r \in SubRow /\ r.owner = tx[t].who /\ inserted' \in 0 .. MaxInserts
  BY <1>1, <1>2, NotNone, ZoneAssumption DEF SubRow, CommitInsert, ZInv, ZoneTypeOK
<1>4. /\ subs' = [subs EXCEPT ![e] = r] /\ saver' = [saver EXCEPT ![e] = tx[t].who]
      /\ End(t) /\ UNCHANGED <<zones, creator, presented>>
  BY <1>0, <1>2 DEF CommitInsert
<1>5. /\ subs \in [Endpoints -> RowOrNone(SubRow)] /\ saver \in [Endpoints -> RowOrNone(Owner)]
  BY DEF ZInv, ZoneTypeOK
<1>6. /\ subs' \in [Endpoints -> RowOrNone(SubRow)] /\ saver' \in [Endpoints -> RowOrNone(Owner)]
      /\ subs'[e] = r /\ saver'[e] = r.owner
      /\ \A d \in Endpoints \ {e} : subs'[d] = subs[d] /\ saver'[d] = saver[d]
  BY <1>1, <1>3, <1>4, <1>5, NotNone DEF RowOrNone
<1>7. QED
  BY <1>1, <1>3, <1>4, <1>6, OneSubKeeps

(* The commit of a save that found a row.                                  *)
LEMMA ReownKeeps ==
    ASSUME ZInv, NEW t \in Txns, CommitReown(t)
    PROVE  ZInv'
<1>0. PICK e : e = tx[t].endpoint
  OBVIOUS
<1>1. /\ e \in Endpoints /\ tx[t].who \in ZoneOwner
      /\ End(t) /\ UNCHANGED <<zones, inserted, creator, presented>>
  BY <1>0 DEF CommitReown, ZInv, TxnsOK, BodyOK
<1>2. /\ subs \in [Endpoints -> RowOrNone(SubRow)] /\ saver \in [Endpoints -> RowOrNone(Owner)]
      /\ inserted \in 0 .. MaxInserts
  BY DEF ZInv, ZoneTypeOK
<1>3. CASE tx[t].seen.owner = tx[t].who
  <2>1. UNCHANGED <<subs, saver>>
    BY <1>3 DEF CommitReown
  <2>2. TxnsOK' /\ tx' \in [Txns -> Transaction]
    BY <1>1, <2>1, EndKeeps
  <2>3. ZoneTypeOK'
    BY <1>1, <2>1, <2>2 DEF ZInv, ZoneTypeOK
  <2>4. RowsOK'
    BY <1>1, <2>1 DEF ZInv, RowsOK, Rightly, Inherits
  <2>5. QED
    BY <2>2, <2>3, <2>4 DEF ZInv
<1>4. CASE tx[t].seen.owner # tx[t].who
  <2>1. /\ subs[e] # NONE /\ \A s \in Txns \ {t} : e \notin tx[s].moved
        /\ subs' = [subs EXCEPT ![e].owner = tx[t].who]
        /\ saver' = [saver EXCEPT ![e] = tx[t].who]
    BY <1>0, <1>4 DEF CommitReown, StillThere, Locked
  <2>2. subs[e] \in SubRow
    BY <1>1, <1>2, <2>1 DEF RowOrNone
  <2>3. PICK r : r = [subs[e] EXCEPT !.owner = tx[t].who]
    OBVIOUS
  <2>4. r \in SubRow /\ r.owner = tx[t].who
    BY <1>1, <2>2, <2>3, NotNone DEF SubRow
  <2>5. subs' = [subs EXCEPT ![e] = r]
    BY <2>1, <2>3
  <2>6. /\ subs' \in [Endpoints -> RowOrNone(SubRow)]
        /\ saver' \in [Endpoints -> RowOrNone(Owner)]
        /\ subs'[e] = r /\ saver'[e] = r.owner
        /\ \A d \in Endpoints \ {e} : subs'[d] = subs[d] /\ saver'[d] = saver[d]
    BY <1>1, <1>2, <2>1, <2>4, <2>5, NotNone DEF RowOrNone
  <2>7. QED
    BY <1>1, <1>2, <2>1, <2>4, <2>6, OneSubKeeps
<1>5. QED
  BY <1>3, <1>4

(* The commit of a deleted subscription.                                   *)
LEMMA UnsubscribeKeeps ==
    ASSUME ZInv, NEW t \in Txns, CommitUnsubscribe(t)
    PROVE  ZInv'
<1>0. PICK e : e = tx[t].endpoint
  OBVIOUS
<1>1. e \in Endpoints
  BY <1>0 DEF CommitUnsubscribe, ZInv, TxnsOK, BodyOK
<1>2. /\ End(t) /\ UNCHANGED <<zones, inserted, creator, presented>>
      /\ \A s \in Txns \ {t} : e \notin tx[s].moved
      /\ subs' = [subs EXCEPT ![e] = NONE] /\ saver' = [saver EXCEPT ![e] = NONE]
  BY <1>0, <1>1 DEF CommitUnsubscribe, StillThere, Locked
<1>3. /\ subs \in [Endpoints -> RowOrNone(SubRow)] /\ saver \in [Endpoints -> RowOrNone(Owner)]
      /\ inserted \in 0 .. MaxInserts
  BY DEF ZInv, ZoneTypeOK
<1>4. /\ subs' \in [Endpoints -> RowOrNone(SubRow)] /\ saver' \in [Endpoints -> RowOrNone(Owner)]
      /\ subs'[e] = NONE
      /\ \A d \in Endpoints \ {e} : subs'[d] = subs[d] /\ saver'[d] = saver[d]
  BY <1>1, <1>2, <1>3 DEF RowOrNone
<1>5. QED
  BY <1>1, <1>2, <1>3, <1>4, OneSubKeeps

(* The worker's removal of a refused subscription.                         *)
LEMMA PruneKeeps ==
    ASSUME ZInv, NEW e \in Endpoints, Prune(e)
    PROVE  ZInv'
<1>1. /\ UNCHANGED <<zones, inserted, tx, creator, presented>>
      /\ \A s \in Txns : e \notin tx[s].moved
      /\ subs' = [subs EXCEPT ![e] = NONE] /\ saver' = [saver EXCEPT ![e] = NONE]
  BY DEF Prune
<1>2. /\ subs' \in [Endpoints -> RowOrNone(SubRow)] /\ saver' \in [Endpoints -> RowOrNone(Owner)]
      /\ subs'[e] = NONE
      /\ \A d \in Endpoints \ {e} : subs'[d] = subs[d] /\ saver'[d] = saver[d]
  BY <1>1 DEF RowOrNone, ZInv, ZoneTypeOK
<1>3. ZoneTypeOK'
  BY <1>1, <1>2 DEF ZInv, ZoneTypeOK
<1>4. RowsOK'
  BY <1>1, <1>2 DEF ZInv, RowsOK, Rightly, Inherits
<1>5. \A s \in Txns : CopiesOK(tx[s])'
  BY <1>1 DEF ZInv, TxnsOK, CopiesOK, Rightly, Inherits
<1>6. \A s \in Txns : BodyOK(tx[s])'
  <2>1. \A s \in Txns : \A d \in tx[s].moved : subs'[d] = subs[d]
    BY <1>1, <1>2, TxType DEF ZInv
  <2>2. QED
    BY <1>1, <2>1 DEF ZInv, TxnsOK, BodyOK
<1>7. QED
  BY <1>1, <1>3, <1>4, <1>5, <1>6 DEF ZInv, TxnsOK

(* A transaction that is rolled back.                                      *)
LEMMA AbortKeeps ==
    ASSUME ZInv, NEW t \in Txns, Abort(t)
    PROVE  ZInv'
<1>1. End(t) /\ UNCHANGED <<zones, subs, inserted, creator, saver, presented>>
  BY DEF Abort
<1>2. TxnsOK' /\ tx' \in [Txns -> Transaction]
  BY <1>1, EndKeeps
<1>3. ZoneTypeOK'
  BY <1>1, <1>2 DEF ZInv, ZoneTypeOK
<1>4. RowsOK'
  BY <1>1 DEF ZInv, RowsOK, Rightly, Inherits
<1>5. QED
  BY <1>2, <1>3, <1>4 DEF ZInv
-----------------------------------------------------------------------------
(* A new zone.                                                             *)
LEMMA CreateKeeps ==
    ASSUME ZInv, NEW z \in Zones, NEW o \in ZoneOwner, NEW b \in Bodies, CreateZone(z, o, b)
    PROVE  ZInv'
<1>0. PICK r : r = [owner |-> o, body |-> b]
  OBVIOUS
<1>1. r \in ZoneRow /\ r.owner = o /\ o \in Owner /\ o # NONE
  BY <1>0, NotNone DEF ZoneRow
<1>2. /\ creator[z] = NONE
      /\ zones' = [zones EXCEPT ![z] = r] /\ creator' = [creator EXCEPT ![z] = o]
      /\ UNCHANGED <<subs, inserted, tx, saver, presented>>
  BY <1>0 DEF CreateZone
<1>3. /\ zones' \in [Zones -> RowOrNone(ZoneRow)] /\ creator' \in [Zones -> RowOrNone(Owner)]
      /\ zones'[z] = r /\ creator'[z] = o
      /\ \A y \in Zones \ {z} : zones'[y] = zones[y] /\ creator'[y] = creator[y]
  BY <1>1, <1>2 DEF ZInv, ZoneTypeOK, RowOrNone
<1>4. ZoneTypeOK'
  BY <1>2, <1>3 DEF ZInv, ZoneTypeOK
<1>5. RowsOK'
  <2>1. o.userId = NONE \/ o.fingerprint = NONE
    BY DEF ZoneOwner
  <2>2. QED
    BY <1>1, <1>2, <1>3, <2>1 DEF ZInv, RowsOK, Rightly, Inherits
<1>6. \A s \in Txns : CopiesOK(tx[s])'
  <2> SUFFICES ASSUME NEW s \in Txns PROVE CopiesOK(tx[s])'
    OBVIOUS
  <2>1. CopiesOK(tx[s]) /\ UNCHANGED <<tx, presented>>
    BY <1>2 DEF ZInv, TxnsOK
  <2>2. \A y \in Zones : creator[y] # NONE => creator'[y] = creator[y]
    BY <1>2, <1>3
  <2>3. QED
    BY <2>1, <2>2 DEF CopiesOK, Rightly, Inherits
<1>7. \A s \in Txns : BodyOK(tx[s])'
  BY <1>2 DEF ZInv, TxnsOK, BodyOK
<1>8. QED
  BY <1>2, <1>4, <1>5, <1>6, <1>7 DEF ZInv, TxnsOK

(* The commit of an update or a claim, which writes copies.                *)
LEMMA CommitZonesKeeps ==
    ASSUME ZInv, NEW t \in Txns, CommitZones(t)
    PROVE  ZInv'
<1>1. /\ tx[t].op \in {"update", "claim"} /\ End(t)
      /\ UNCHANGED <<inserted, creator, saver, presented>>
  BY DEF CommitZones
<1>2. \A z \in Zones : /\ zones'[z] = IF z \in Dirty(tx[t]) THEN Written(tx[t], z) ELSE zones[z]
                       /\ z \in Dirty(tx[t]) => z \in Loaded(tx[t])
  BY DEF CommitZones, Dirty
<1>3. \A z \in Zones : \/ zones'[z] = zones[z]
                       \/ /\ zones'[z] \in ZoneRow /\ creator[z] # NONE
                          /\ Rightly(zones'[z].owner, creator[z])
  BY <1>1, <1>2, WrittenRight
<1>4. zones' \in [Zones -> RowOrNone(ZoneRow)]
  <2>1. zones' = [z \in Zones |-> zones'[z]]
    BY DEF CommitZones
  <2>2. \A z \in Zones : zones'[z] \in RowOrNone(ZoneRow)
    BY <1>3 DEF ZInv, ZoneTypeOK, RowOrNone
  <2>3. QED
    BY <2>1, <2>2
<1>5. \A e \in Endpoints :
          subs'[e] = IF e \in tx[t].moved
                     THEN [subs[e] EXCEPT !.owner = Claimed(@, tx[t].who.userId)]
                     ELSE subs[e]
  BY DEF CommitZones
<1>6. \A e \in Endpoints : \/ subs'[e] = subs[e]
                           \/ /\ subs'[e] \in SubRow /\ subs'[e].owner \in ZoneOwner
                              /\ saver[e] \in ZoneOwner /\ Rightly(subs'[e].owner, saver[e])
  BY <1>5, MovedRight
<1>7. subs' \in [Endpoints -> RowOrNone(SubRow)]
  <2>1. subs' = [e \in Endpoints |-> subs'[e]]
    BY DEF CommitZones
  <2>2. \A e \in Endpoints : subs'[e] \in RowOrNone(SubRow)
    BY <1>6 DEF ZInv, ZoneTypeOK, RowOrNone
  <2>3. QED
    BY <2>1, <2>2
<1>8. TxnsOK' /\ tx' \in [Txns -> Transaction]
  <2>1. \A s \in Txns \ {t} : \A e \in tx[s].moved : e \in Endpoints /\ e \notin tx[t].moved
    BY TxType DEF ZInv, TxnsOK
  <2>2. \A s \in Txns \ {t} : \A e \in tx[s].moved : subs'[e] = subs[e]
    BY <1>5, <2>1
  <2>3. QED
    BY <1>1, <2>2, EndKeeps
<1>9. ZoneTypeOK'
  BY <1>1, <1>4, <1>7, <1>8 DEF ZInv, ZoneTypeOK
<1>10. RowsOK'
  BY <1>1, <1>3, <1>6 DEF ZInv, RowsOK, Rightly, Inherits
<1>11. QED
  BY <1>8, <1>9, <1>10 DEF ZInv

(* The commit of a deleted zone.                                           *)
LEMMA DeleteKeeps ==
    ASSUME ZInv, NEW t \in Txns, CommitDelete(t)
    PROVE  ZInv'
<1>1. End(t) /\ UNCHANGED <<subs, inserted, creator, saver, presented>>
  BY DEF CommitDelete
<1>2. /\ zones' \in [Zones -> RowOrNone(ZoneRow)]
      /\ \A z \in Zones : zones'[z] = NONE \/ zones'[z] = zones[z]
  BY DEF CommitDelete, ZInv, ZoneTypeOK, RowOrNone
<1>3. TxnsOK' /\ tx' \in [Txns -> Transaction]
  BY <1>1, EndKeeps
<1>4. ZoneTypeOK'
  BY <1>1, <1>2, <1>3 DEF ZInv, ZoneTypeOK
<1>5. RowsOK'
  BY <1>1, <1>2 DEF ZInv, RowsOK, Rightly, Inherits
<1>6. QED
  BY <1>3, <1>4, <1>5 DEF ZInv

(* Every step keeps the invariant.                                         *)
LEMMA ZStep == ZInv /\ [Next]_vars => ZInv'
<1> SUFFICES ASSUME ZInv, [Next]_vars PROVE ZInv'
  OBVIOUS
<1>1. ASSUME NEW z \in Zones, NEW o \in ZoneOwner, NEW b \in Bodies, CreateZone(z, o, b)
      PROVE  ZInv'
  BY <1>1, CreateKeeps
<1>2. ASSUME NEW t \in Txns, Request(t) PROVE ZInv'
  <2>1. ASSUME NEW z \in Zones, NEW o \in ZoneOwner, NEW b \in Bodies, BeginUpdate(t, z, o, b)
        PROVE  ZInv'
    BY <2>1, OnZoneKeeps DEF BeginUpdate, RowOrNone
  <2>2. ASSUME NEW z \in Zones, NEW o \in ZoneOwner, BeginDelete(t, z, o) PROVE ZInv'
    BY <2>2, OnZoneKeeps DEF BeginDelete, RowOrNone
  <2>3. QED
    BY <1>2, <2>1, <2>2, ClaimKeeps, SubscriptionKeeps DEF Request
<1>3. ASSUME NEW t \in Txns, Finish(t) PROVE ZInv'
  BY <1>3, BulkKeeps, CommitZonesKeeps, DeleteKeeps, InsertKeeps, ReownKeeps,
     UnsubscribeKeeps, AbortKeeps DEF Finish
<1>4. ASSUME NEW e \in Endpoints, Prune(e) PROVE ZInv'
  BY <1>4, PruneKeeps
<1>5. CASE UNCHANGED vars
  <2>1. UNCHANGED <<zones, subs, inserted, tx, creator, saver, presented>>
    BY <1>5 DEF vars
  <2>2. ZoneTypeOK' /\ RowsOK'
    BY <2>1 DEF ZInv, ZoneTypeOK, RowsOK, Rightly, Inherits
  <2>3. TxnsOK'
    BY <2>1 DEF ZInv, TxnsOK, CopiesOK, BodyOK, Rightly, Inherits
  <2>4. QED
    BY <2>2, <2>3 DEF ZInv
<1>6. QED
  BY <1>1, <1>2, <1>3, <1>4, <1>5 DEF Next
-----------------------------------------------------------------------------
(* The invariant holds throughout.                                         *)
LEMMA ZInvariance == Spec => []ZInv
BY ZInit, ZStep, PTL DEF Spec

(* Types, for any number of rows, requests and threads.                    *)
THEOREM ZoneTypeCorrect == Spec => []ZoneTypeOK
<1>1. ZInv => ZoneTypeOK
  BY DEF ZInv
<1>2. QED
  BY <1>1, ZInvariance, PTL

(* The either-or of the owner columns (WatchZone.java, PushSubscription.java): *)
(* no overlap of claims, edits and saves leaves a row with two owners.     *)
THEOREM EitherOr == Spec => []OneOwnerEach
<1>1. ZInv => OneOwnerEach
  BY DEF ZInv, RowsOK, OneOwnerEach, Rightly, Inherits
<1>2. QED
  BY <1>1, ZInvariance, PTL

(* A zone or subscription belongs to whom it was made for, or to an        *)
(* account that claimed with that fingerprint (WatchZoneService.claim).    *)
THEOREM RightfulAlways == Spec => []RightfulOwners
<1>1. ZInv => RightfulOwners
  BY DEF ZInv, RowsOK, RightfulOwners, Rightly
<1>2. QED
  BY <1>1, ZInvariance, PTL

(* Deleted zones stay deleted: WatchZoneService.update and claim write     *)
(* with UPDATEs, which do not bring a row back.                            *)
THEOREM DeletedForGood == Spec => DeletedStays
<1>1. ASSUME ZInv, [Next]_vars, NEW z \in Zones, zones[z] = NONE, creator[z] # NONE
      PROVE  zones'[z] = NONE
  <2>1. ASSUME NEW y \in Zones, NEW o \in ZoneOwner, NEW b \in Bodies, CreateZone(y, o, b)
        PROVE  zones'[z] = NONE
    BY <1>1, <2>1 DEF CreateZone, ZInv, ZoneTypeOK
  <2>2. ASSUME NEW t \in Txns, Request(t) PROVE zones'[z] = NONE
    BY <1>1, <2>2 DEF Request, BeginUpdate, BeginDelete, BeginOnZone, BeginClaim,
       BeginSave, BeginUnsubscribe
  <2>3. ASSUME NEW t \in Txns, Finish(t) PROVE zones'[z] = NONE
    BY <1>1, <2>3 DEF Finish, ClaimSubscriptions, CommitZones, CommitDelete,
       CommitInsert, CommitReown, CommitUnsubscribe, Abort
  <2>4. QED
    BY <1>1, <2>1, <2>2, <2>3 DEF Next, Prune, vars
<1>2. ZInv /\ [Next]_vars => [\A z \in Zones : zones[z] = NONE /\ creator[z] # NONE
                                                => zones'[z] = NONE]_vars
  BY <1>1
<1>3. QED
  BY <1>2, ZInvariance, PTL DEF Spec, DeletedStays

(* Who may write a zone that a transaction has loaded.                     *)
LEMMA LoadedSpeaks ==
    ASSUME ZInv, NEW t \in Txns, NEW z \in Loaded(tx[t])
    PROVE  SpeaksFor(tx[t], z)
<1>0. PICK c, w, p : c = tx[t].copy[z].owner /\ w = tx[t].who /\ p = creator[z]
  OBVIOUS
<1>1. /\ z \in Zones /\ tx[t].copy[z] \in ZoneRow /\ creator[z] # NONE
      /\ c \in Owner /\ w \in Owner /\ p \in Owner
      /\ Rightly(c, p)
  BY <1>0, TxType DEF Loaded, ZInv, TxnsOK, CopiesOK, RowOrNone, ZoneTypeOK, ZoneRow
<1>2. p.userId = NONE \/ p.fingerprint = NONE
  BY <1>0, <1>1 DEF ZInv, RowsOK
<1>3. \/ tx[t].op \in {"update", "delete"} /\ Owns(w, tx[t].copy[z])
      \/ tx[t].op = "claim" /\ c.userId = NONE /\ c.fingerprint = w.fingerprint
  BY <1>0, <1>1 DEF Loaded, ZInv, TxnsOK, CopiesOK
<1>4. CASE tx[t].op = "claim"
  <2>1. w \in Claimant /\ <<w.userId, w.fingerprint>> \in presented
    BY <1>0, <1>4 DEF ZInv, TxnsOK, BodyOK
  <2>2. c.userId = NONE /\ c.fingerprint = w.fingerprint
    BY <1>3, <1>4
  <2>3. c = p
    BY <1>1, <2>2, InheritsFacts DEF Rightly, ZInv
  <2>4. Inherits(Claimed(w, w.userId), p)
    BY <2>1, <2>2, <2>3 DEF Inherits, Claimed
  <2>5. QED
    BY <1>0, <2>4 DEF SpeaksFor
<1>5. CASE tx[t].op \in {"update", "delete"}
  <2>1. w \in ZoneOwner
    BY <1>0, <1>5 DEF ZInv, TxnsOK, BodyOK
  <2>2. Owns(w, tx[t].copy[z])
    BY <1>3, <1>5
  <2>3. CASE w.userId # NONE
    <3>1. w.fingerprint = NONE /\ c.userId = w.userId
      BY <1>0, <2>1, <2>2, <2>3 DEF ZoneOwner, Owns
    <3>2. CASE c = p
      <4>1. w = p
        BY <1>1, <1>2, <2>3, <3>1, <3>2 DEF Owner
      <4>2. QED
        BY <1>0, <4>1 DEF SpeaksFor
    <3>3. CASE Inherits(c, p)
      BY <1>0, <3>1, <3>3 DEF SpeaksFor, Inherits, Claimed
    <3>4. QED
      BY <1>1, <3>2, <3>3 DEF Rightly
  <2>4. CASE w.userId = NONE
    <3>1. c.userId = NONE /\ c.fingerprint = w.fingerprint /\ c.fingerprint # NONE
      BY <1>0, <2>2, <2>4 DEF Owns
    <3>2. c = p /\ w = c
      BY <1>1, <2>4, <3>1, InheritsFacts DEF Rightly, Owner, ZInv
    <3>3. QED
      BY <1>0, <3>2 DEF SpeaksFor
  <2>5. QED
    BY <2>3, <2>4
<1>6. QED
  BY <1>3, <1>4, <1>5

(* findOwned's check holds to the commit: what changes a stored zone is a  *)
(* request of its creator or of an account that claimed it.                *)
THEOREM HoldersOnly == Spec => OnlyHoldersChange
<1>1. ASSUME ZInv, [Next]_vars, NEW z \in Zones, zones[z] # NONE, zones'[z] # zones[z]
      PROVE  \E t \in Txns : Running(t) /\ ~Running(t)' /\ SpeaksFor(tx[t], z)
  <2>1. ASSUME NEW t \in Txns, CommitZones(t) \/ CommitDelete(t)
        PROVE  Running(t) /\ ~Running(t)' /\ SpeaksFor(tx[t], z)
    <3>1. z \in Loaded(tx[t])
      BY <1>1, <2>1 DEF CommitZones, CommitDelete, Dirty
    <3>2. Running(t)
      BY <2>1 DEF CommitZones, CommitDelete, Running
    <3>3. tx'[t] = Idle
      BY <1>1, <2>1 DEF CommitZones, CommitDelete, End, ZInv, ZoneTypeOK
    <3>4. QED
      BY <1>1, <3>1, <3>2, <3>3, LoadedSpeaks, IdleFacts DEF Running
  <2>2. ASSUME NEW y \in Zones, NEW o \in ZoneOwner, NEW b \in Bodies, CreateZone(y, o, b)
        PROVE  FALSE
    <3>1. y # z
      BY <1>1, <2>2 DEF CreateZone, ZInv, RowsOK
    <3>2. QED
      BY <1>1, <2>2, <3>1 DEF CreateZone, ZInv, ZoneTypeOK
  <2>3. ASSUME NEW t \in Txns, Request(t) PROVE FALSE
    BY <1>1, <2>3 DEF Request, BeginUpdate, BeginDelete, BeginOnZone, BeginClaim,
       BeginSave, BeginUnsubscribe
  <2>4. ASSUME NEW t \in Txns, Finish(t) PROVE CommitZones(t) \/ CommitDelete(t)
    BY <1>1, <2>4 DEF Finish, ClaimSubscriptions, CommitInsert, CommitReown,
       CommitUnsubscribe, Abort
  <2>5. QED
    BY <1>1, <2>1, <2>2, <2>3, <2>4 DEF Next, Prune, vars
<1>2. ZInv /\ [Next]_vars =>
        [\A z \in Zones : zones[z] # NONE /\ zones'[z] # zones[z] =>
            \E t \in Txns : Running(t) /\ ~Running(t)' /\ SpeaksFor(tx[t], z)]_vars
  BY <1>1
<1>3. QED
  BY <1>2, ZInvariance, PTL DEF Spec, OnlyHoldersChange
=============================================================================
