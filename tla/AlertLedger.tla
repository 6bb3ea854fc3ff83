---------------------------- MODULE AlertLedger ----------------------------
(***************************************************************************)
(* What the stored alert promises the community, with no transactions in   *)
(* it: an alert is filed once, accounts other than the reporter's vouch    *)
(* for it one at a time and once each, and it shows VERIFIED only on       *)
(* enough of them.  Nothing is promised about which status follows which:  *)
(* AlertRow shows that a stale copy may put any earlier status back.       *)
(***************************************************************************)
CONSTANTS
    Users,
    Reporter,
    Quorums    \* the sets of accounts that are enough to verify an alert

VARIABLES status, confirmers

ledgerVars == <<status, confirmers>>

Stored == {"ACTIVE", "VERIFIED", "RESOLVED", "EXPIRED"}

Allowed(s, vouched) == s = "VERIFIED" => vouched \in Quorums

Init == status = "ABSENT" /\ confirmers = {}

File == status = "ABSENT" /\ status' = "ACTIVE" /\ UNCHANGED confirmers

Vouch(u) ==
    /\ status \in Stored
    /\ u \notin confirmers
    /\ confirmers' = confirmers \cup {u}
    /\ status' \in Stored
    /\ Allowed(status', confirmers')

Move ==
    /\ status \in Stored
    /\ status' \in Stored
    /\ Allowed(status', confirmers)
    /\ UNCHANGED confirmers

Next == File \/ (\E u \in Users \ {Reporter} : Vouch(u)) \/ Move

Spec == Init /\ [][Next]_ledgerVars
=============================================================================
