----------------------------- MODULE AccountSettings -----------------------------
(***************************************************************************)
(* The e-mail digest and the danger warnings of an account, as the panel   *)
(* "My watch zones" shows and changes them (MyZonesPanel.tsx).  A change   *)
(* is shown at once and taken back when it fails.  The panel belongs to    *)
(* the session that the dashboard knows of; its requests go out in the     *)
(* name of the session that is stored in the browser, which other tabs     *)
(* change and which expires.                                               *)
(*                                                                         *)
(* The server loads the whole row of the account, changes one column and   *)
(* writes the whole row back (ProfileService).                             *)
(***************************************************************************)
EXTENDS Integers, FiniteSets

CONSTANTS
    Accounts, Nobody,
    Values,       \* of either setting
    Unloaded,     \* digest === null, ! dangerLoaded
    MaxChanges    \* changes on their way at a time

ASSUME SettingsAssumption == Nobody \notin Accounts /\ Unloaded \notin Values

VARIABLES
    profile,      \* the server's settings of every account
    session,      \* the dashboard's session, or Nobody
    stored,       \* the stored one
    settings,     \* whether the panel is there
    showing,      \* digest and dangerReach
    busy,         \* digestBusy and dangerBusy
    profileLoad,  \* the fetch that is not cancelled
    changes,      \* changes on their way
    doubted       \* settings that may be shown wrong, for a reason named below

settingsVars == <<profile, session, stored, settings, showing, busy,
                  profileLoad, changes, doubted>>

Settings == {"digest", "reach"}
NoProfileLoad == [on |-> FALSE]
NothingLoaded == [s \in Settings |-> Unloaded]
NoneBusy == [s \in Settings |-> FALSE]
Pending(s) == {c \in changes : c.of = s /\ c.mine}

SettingsInit ==
    /\ profile \in [Accounts -> [Settings -> Values]]
    /\ session = Nobody /\ stored = Nobody /\ settings = FALSE
    /\ showing = NothingLoaded /\ busy = NoneBusy
    /\ profileLoad = NoProfileLoad /\ changes = {} /\ doubted = {}
-----------------------------------------------------------------------------
(* In whose name request() sends: the stored session's.                    *)
Bearer == stored

(* The effect of [session].                                                *)
FetchProfile(who) == [on |-> TRUE, as |-> who, phase |-> "sent", late |-> {}]

(* A new panel.                                                            *)
OpenSettings ==
    /\ ~settings /\ settings' = TRUE
    /\ profileLoad' = IF session = Nobody THEN NoProfileLoad ELSE FetchProfile(Bearer)
    /\ UNCHANGED <<profile, session, stored, showing, busy, changes, doubted>>

(* A change nobody awaits the answer of.                                   *)
Orphan(c) == [c EXCEPT !.mine = FALSE, !.previous = Unloaded]

(* The panel and its state are gone; what it has sent is on its way.       *)
CloseSettings ==
    /\ settings /\ settings' = FALSE
    /\ showing' = NothingLoaded /\ busy' = NoneBusy /\ doubted' = {}
    /\ profileLoad' = NoProfileLoad
    /\ changes' = {Orphan(c) : c \in changes}
    /\ UNCHANGED <<profile, session, stored>>

(* storeSession and onAuthed.  The panel goes on showing what it showed    *)
(* the session before.                                                     *)
SignInAs(a) ==
    /\ session = Nobody
    /\ session' = a /\ stored' = a
    /\ profileLoad' = IF settings THEN FetchProfile(a) ELSE NoProfileLoad
    /\ doubted' = IF settings THEN Settings ELSE {}
    /\ UNCHANGED <<profile, settings, showing, busy, changes>>

(* handleSignOut.                                                          *)
SignOutHere ==
    /\ session # Nobody
    /\ session' = Nobody /\ stored' = Nobody
    /\ profileLoad' = NoProfileLoad
    /\ UNCHANGED <<profile, settings, showing, busy, changes, doubted>>

(* Another tab signs in or out, or the stored session has expired.  The    *)
(* dashboard does not notice.                                              *)
StoredChanges(who) ==
    /\ stored' = who
    /\ UNCHANGED <<profile, session, settings, showing, busy, profileLoad, changes, doubted>>
-----------------------------------------------------------------------------
ServeProfile ==
    /\ profileLoad.on /\ profileLoad.phase = "sent" /\ profileLoad.as # Nobody
    /\ profileLoad' = [on |-> TRUE, as |-> profileLoad.as, phase |-> "answered",
                       late |-> {}, found |-> profile[profileLoad.as]]
    /\ UNCHANGED <<profile, session, stored, settings, showing, busy, changes, doubted>>

(* It is in doubt what the answer says of a setting that has been changed  *)
(* since, that is being changed, or that is another account's.             *)
ReceiveProfile ==
    /\ profileLoad.on /\ profileLoad.phase = "answered"
    /\ showing' = profileLoad.found
    /\ doubted' = {s \in Settings :
                     \/ s \in profileLoad.late \/ profileLoad.as # session
                     \/ \E c \in changes : c.of = s /\ c.phase # "written"}
    /\ profileLoad' = NoProfileLoad
    /\ UNCHANGED <<profile, session, stored, settings, busy, changes>>

ProfileFails ==
    /\ profileLoad.on
    /\ profileLoad' = NoProfileLoad
    /\ UNCHANGED <<profile, session, stored, settings, showing, busy, changes, doubted>>
-----------------------------------------------------------------------------
(* The setting's controls are there and not disabled.                      *)
Enabled(s) == settings /\ session # Nobody /\ showing[s] # Unloaded /\ ~busy[s]

(* changeDigest and changeDangerReach.                                     *)
Change(s, value) ==
    /\ Enabled(s) /\ showing[s] # value
    /\ Cardinality(changes) < MaxChanges
    /\ showing' = [showing EXCEPT ![s] = value]
    /\ busy' = [busy EXCEPT ![s] = TRUE]
    /\ changes' = changes \cup {[of |-> s, to |-> value, as |-> Bearer,
                                 previous |-> showing[s], mine |-> TRUE, phase |-> "sent"]}
    /\ doubted' = IF stored = session THEN doubted ELSE doubted \cup {s}
    /\ UNCHANGED <<profile, session, stored, settings, profileLoad>>

(* findUser.                                                               *)
ReadRow(c) ==
    /\ c.phase = "sent" /\ c.as # Nobody
    /\ changes' = (changes \ {c}) \cup
                  {[of |-> c.of, to |-> c.to, as |-> c.as, previous |-> c.previous,
                    mine |-> c.mine, phase |-> "read", row |-> profile[c.as]]}
    /\ UNCHANGED <<profile, session, stored, settings, showing, busy, profileLoad, doubted>>

(* save: a whole row, which takes back what was written to it since.       *)
WriteRow(c) ==
    /\ c.phase = "read"
    /\ profile' = [profile EXCEPT ![c.as] = [c.row EXCEPT ![c.of] = c.to]]
    /\ changes' = (changes \ {c}) \cup {[c EXCEPT !.phase = "written"]}
    /\ LET undone == {s \in Settings \ {c.of} : profile[c.as][s] # c.row[s]}
       IN doubted' = doubted \cup undone
    /\ profileLoad' = IF profileLoad.on /\ profileLoad.as = c.as
                      THEN [profileLoad EXCEPT !.late = @ \cup
                              {s \in Settings : profile'[c.as][s] # profile[c.as][s]}]
                      ELSE profileLoad
    /\ UNCHANGED <<session, stored, settings, showing, busy>>

(* Only the control is freed: the answer's profile is not looked at.       *)
ChangeDone(c) ==
    /\ c.phase = "written"
    /\ changes' = changes \ {c}
    /\ busy' = IF c.mine THEN [busy EXCEPT ![c.of] = FALSE] ELSE busy
    /\ UNCHANGED <<profile, session, stored, settings, showing, profileLoad, doubted>>

(* Fault: what a change that failed had shown stays.                       *)
FaultyTakeBack(c) ==
    /\ busy' = IF c.mine THEN [busy EXCEPT ![c.of] = FALSE] ELSE busy
    /\ UNCHANGED showing

(* The catch and the finally of a change.                                  *)
TakeBack(c) ==
    IF c.mine THEN /\ showing' = [showing EXCEPT ![c.of] = c.previous]
                   /\ busy' = [busy EXCEPT ![c.of] = FALSE]
              ELSE UNCHANGED <<showing, busy>>

ChangeRefused(c) ==
    /\ c.phase # "written"
    /\ TakeBack(c)
    /\ changes' = changes \ {c}
    /\ UNCHANGED <<profile, session, stored, settings, profileLoad, doubted>>

(* The answer is lost, and the server carries the change out.              *)
ChangeLost(c) ==
    /\ c.mine
    /\ TakeBack(c)
    /\ changes' = (changes \ {c}) \cup {Orphan(c)}
    /\ doubted' = doubted \cup {c.of}
    /\ UNCHANGED <<profile, session, stored, settings, profileLoad>>

SettingsNext ==
    \/ OpenSettings \/ CloseSettings \/ SignOutHere
    \/ \E a \in Accounts : SignInAs(a)
    \/ \E who \in Accounts \cup {Nobody} : StoredChanges(who)
    \/ ServeProfile \/ ReceiveProfile \/ ProfileFails
    \/ \E s \in Settings, value \in Values : Change(s, value)
    \/ \E c \in changes :
          \/ ReadRow(c) \/ WriteRow(c) \/ ChangeDone(c)
          \/ ChangeRefused(c) \/ ChangeLost(c)
SettingsSpec == SettingsInit /\ [][SettingsNext]_settingsVars
-----------------------------------------------------------------------------
(* A setting that is shown, and not just being changed, is the account's;  *)
(* unless a change's answer was lost, a load and a change overtook each    *)
(* other, a change of the other setting wrote the row back as it was       *)
(* before, or the session changed under the panel, here or in another tab. *)
(* And a control is disabled no longer than its change takes.              *)
SettingsTrue ==
    \A s \in Settings :
        /\ settings => (busy[s] <=> Pending(s) # {})
        /\ \/ ~settings \/ session = Nobody \/ showing[s] = Unloaded
           \/ s \in doubted \/ Pending(s) # {}
           \/ showing[s] = profile[session][s]
=============================================================================
