---------------------------- MODULE MCServer ----------------------------
(* What the services keep besides alerts, zones and messages: the accounts *)
(* with their reset tokens, the counters of the limits, the statistics.    *)
(* They share no variable and no action, so that what each does among the  *)
(* others is what it does while they stand still: a run moves one of them. *)
EXTENDS Accounts, Throttle, StatsSnapshot, TLC

CONSTANTS s, u, a, w    \* two accounts, an address, whoever writes
VARIABLE part

MCLimitOf == [k \in {s, u, a, w} |-> IF k = u THEN 1 ELSE 2]
Alike == Permutations(SignIns) \cup Permutations(Workers)

Init ==
    /\ part \in {"accounts", "limits", "stats"}
    /\ AccountsInit /\ ThrottleInit /\ StatsInit
    /\ \E p \in Passwords : chosen = [e \in Emails |-> p]
    /\ part # "stats" => ~snapshot.there

Next ==
    /\ UNCHANGED part
    /\ \/ part = "accounts" /\ AccountsNext
       \/ part # "accounts" /\ UNCHANGED accountVars
    /\ \/ part = "limits" /\ ThrottleNext
       \/ part # "limits" /\ UNCHANGED throttleVars
    /\ \/ part = "stats" /\ StatsNext
       \/ part # "stats" /\ UNCHANGED statsVars

Spec == Init /\ [][Next]_<<part, accountVars, throttleVars, statsVars>>

(* Bound: Redis fails or forgets twice, a window sees five sign-ins fail,  *)
(* or five writes and no sign-in, and the clock runs for two lifetimes.    *)
Few ==
    /\ \A k \in Keys : used[k] <= 5 /\ counts[k] <= 5
    /\ missed[s] + missed[u] + missed[a] + missed[w] <= 2
    /\ used[w] + counts[w] > 0 => signIn = [t \in SignIns |-> NoSignIn] /\ used[a] = 0
    /\ quiet <= 2 * Ttl
    /\ \A c \in Workers \cup Readers :
          work[c].at # "rest" => work[c].stamp <= Ttl /\ work[c].took <= 1
    /\ snapshot.there => snapshot.stamp <= Ttl + 1
=============================================================================
