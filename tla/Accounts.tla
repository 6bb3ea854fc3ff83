------------------------------- MODULE Accounts -------------------------------
(***************************************************************************)
(* The rows of users and password_reset_tokens: signing up, asking for a   *)
(* reset, resetting the password, changing a setting of the profile        *)
(* (AuthService, PasswordResetService, ProfileService).                    *)
(*                                                                         *)
(* Each request is a transaction under READ COMMITTED.  Its reads see what *)
(* is committed then; its writes take effect at the commit, a row at a     *)
(* time and whole, for no entity here has a version.                       *)
(***************************************************************************)
EXTENDS Integers, FiniteSets

CONSTANTS
    Emails,
    Passwords,
    Options,     \* of the profile: digest frequency and danger reach
    Tokens,      \* what requestReset draws
    Requests     \* request threads

ASSUME AccountsAssumption == IsFiniteSet(Requests) /\ Requests # {}

VARIABLES
    users,       \* the rows by e-mail
    tokens,      \* the rows by token
    request,     \* how far each request is, with what it has read
    chosen,      \* of each account: the password last chosen by its owner
    uses,        \* of each token: the resets it was good for
    takenBack    \* accounts whose password an overlapping save took back

accountVars == <<users, tokens, request, chosen, uses, takenBack>>

NoRow == [there |-> FALSE]
User(password, option) == [there |-> TRUE, password |-> password, option |-> option]
Ready == [at |-> "ready"]

AccountsInit ==
    /\ users = [e \in Emails |-> NoRow]
    /\ tokens = [t \in Tokens |-> NoRow]
    /\ request = [r \in Requests |-> Ready]
    /\ chosen \in [Emails -> Passwords]
    /\ uses = [t \in Tokens |-> 0] /\ takenBack = {}

Proceed(r, to) == request' = [request EXCEPT ![r] = to]
-----------------------------------------------------------------------------
(* signup: findByEmail, or "An account with this email already exists".    *)
SignUp(r, e, p, o) ==
    /\ request[r].at = "ready" /\ ~users[e].there
    /\ Proceed(r, [at |-> "new", email |-> e, row |-> User(p, o)])
    /\ UNCHANGED <<users, tokens, chosen, uses, takenBack>>

(* The insert.  The constraint on the e-mail refuses the second of two.    *)
CommitSignUp(r) ==
    /\ request[r].at = "new"
    /\ LET e == request[r].email
       IN IF users[e].there THEN UNCHANGED <<users, chosen>>
          ELSE /\ users' = [users EXCEPT ![e] = request[r].row]
               /\ chosen' = [chosen EXCEPT ![e] = request[r].row.password]
    /\ Proceed(r, Ready)
    /\ UNCHANGED <<tokens, uses, takenBack>>

(* requestReset: the e-mail goes out before the commit, which may fail.    *)
RequestReset(e, t) ==
    /\ users[e].there /\ ~tokens[t].there
    /\ tokens' = [tokens EXCEPT ![t] =
                     [there |-> TRUE, email |-> e, used |-> FALSE, expired |-> FALSE]]
    /\ UNCHANGED <<users, request, chosen, uses, takenBack>>

ExpireToken(t) ==
    /\ tokens[t].there /\ ~tokens[t].expired
    /\ tokens' = [tokens EXCEPT ![t].expired = TRUE]
    /\ UNCHANGED <<users, request, chosen, uses, takenBack>>

(* Fault: a token is good until it expires.                                *)
FaultyUsable(t) == tokens[t].there /\ ~tokens[t].expired

Usable(t) == tokens[t].there /\ ~tokens[t].used /\ ~tokens[t].expired

(* resetPassword: findByTokenHash, ...                                     *)
FindToken(r, t, p) ==
    /\ request[r].at = "ready" /\ Usable(t)
    /\ Proceed(r, [at |-> "token", token |-> t, password |-> p])
    /\ UNCHANGED <<users, tokens, chosen, uses, takenBack>>

(* ... findById, ...                                                       *)
FindUser(r) ==
    /\ request[r].at = "token"
    /\ LET e == tokens[request[r].token].email
       IN Proceed(r, [at |-> "reset", token |-> request[r].token, email |-> e,
                      row |-> [users[e] EXCEPT !.password = request[r].password]])
    /\ UNCHANGED <<users, tokens, chosen, uses, takenBack>>

(* ... and both rows.                                                      *)
CommitReset(r) ==
    /\ request[r].at = "reset"
    /\ LET e == request[r].email
           t == request[r].token
       IN /\ users' = [users EXCEPT ![e] = request[r].row]
          /\ chosen' = [chosen EXCEPT ![e] = request[r].row.password]
          /\ tokens' = [tokens EXCEPT ![t].used = TRUE]
          /\ uses' = [uses EXCEPT ![t] = @ + 1]
          /\ takenBack' = takenBack \ {e}
    /\ Proceed(r, Ready)

(* updateDigestFrequency, updateDangerReach: the same value writes nothing. *)
ChangeOption(r, e, o) ==
    /\ request[r].at = "ready" /\ users[e].there /\ users[e].option # o
    /\ Proceed(r, [at |-> "profile", email |-> e, read |-> users[e],
                   row |-> [users[e] EXCEPT !.option = o]])
    /\ UNCHANGED <<users, tokens, chosen, uses, takenBack>>

(* It takes a password back that was written since it read the row.        *)
CommitOption(r) ==
    /\ request[r].at = "profile"
    /\ LET e == request[r].email
       IN /\ users' = [users EXCEPT ![e] = request[r].row]
          /\ takenBack' = IF users[e].password # request[r].read.password
                          THEN takenBack \cup {e} ELSE takenBack
    /\ Proceed(r, Ready)
    /\ UNCHANGED <<tokens, chosen, uses>>

(* The request fails, the database does, the API is restarted.             *)
RollBack(r) ==
    /\ request[r].at # "ready"
    /\ Proceed(r, Ready)
    /\ UNCHANGED <<users, tokens, chosen, uses, takenBack>>

AccountsNext ==
    \/ \E r \in Requests :
          \/ \E e \in Emails, p \in Passwords, o \in Options : SignUp(r, e, p, o)
          \/ \E t \in Tokens, p \in Passwords : FindToken(r, t, p)
          \/ \E e \in Emails, o \in Options : ChangeOption(r, e, o)
          \/ CommitSignUp(r) \/ FindUser(r) \/ CommitReset(r)
          \/ CommitOption(r) \/ RollBack(r)
    \/ \E e \in Emails, t \in Tokens : RequestReset(e, t)
    \/ \E t \in Tokens : ExpireToken(t)

AccountsSpec == AccountsInit /\ [][AccountsNext]_accountVars
-----------------------------------------------------------------------------
ResetBy(r, t) == request[r].at \in {"token", "reset"} /\ request[r].token = t

(* "A single-use password reset token" (PasswordResetToken.java:14) is     *)
(* good for its first use and for the resets that overlap it, never for    *)
(* one that begins later.  And the password of an account is the one last  *)
(* chosen for it, by who signed up with the e-mail first or held one of    *)
(* its tokens, unless a change of the profile overlapped the reset.        *)
ResetsHold ==
    /\ \A t \in Tokens :
          uses[t] + Cardinality({r \in Requests : ResetBy(r, t)})
              <= Cardinality(Requests)
    /\ \A e \in Emails :
          users[e].there => users[e].password = chosen[e] \/ e \in takenBack
=============================================================================
