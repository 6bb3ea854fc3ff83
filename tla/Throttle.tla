------------------------------- MODULE Throttle -------------------------------
(***************************************************************************)
(* The counters that the API keeps in Redis: failed sign-ins by account    *)
(* and by address (CredentialThrottle), and writes by account or address   *)
(* (RateLimitFilter).  A key is a principal in a window of time, so that   *)
(* clocks do not matter: what is said of a key is said of every window.    *)
(*                                                                         *)
(* A sign-in reads its two counters, has its password checked, and adds to *)
(* them when the password was wrong; others do the same meanwhile.  A      *)
(* write adds first and looks afterwards.  Redis may fail any call and     *)
(* forget any counter.                                                     *)
(***************************************************************************)
EXTENDS Integers, FiniteSets

CONSTANTS
    SubjectKeys, AddressKeys, WriteKeys,
    LimitOf,     \* failuresPerSubject, failuresPerAddress, maxPerMinute
    SignIns      \* request threads that sign somebody in

Keys == SubjectKeys \cup AddressKeys \cup WriteKeys

ASSUME ThrottleAssumption ==
    /\ LimitOf \in [Keys -> Nat \ {0}]
    /\ IsFiniteSet(SignIns) /\ SignIns # {}
    /\ SubjectKeys \cap AddressKeys = {} /\ WriteKeys \cap (SubjectKeys \cup AddressKeys) = {}

VARIABLES
    counts,    \* the counters in Redis; 0 when there is none
    signIn,    \* how far each thread is, with which keys
    used,      \* of each key: sign-ins that failed, writes let through
    missed     \* of each key: how much of that Redis has not, or not any more,
               \* and how often it was not there to say no

throttleVars == <<counts, signIn, used, missed>>

NoSignIn == [at |-> "idle"]
KeysOf(t) == IF signIn[t].at = "idle" THEN {} ELSE {signIn[t].subject, signIn[t].address}

ThrottleInit ==
    /\ counts = [k \in Keys |-> 0]
    /\ signIn = [t \in SignIns |-> NoSignIn]
    /\ used = [k \in Keys |-> 0] /\ missed = [k \in Keys |-> 0]

Go(t, at) == signIn' = [signIn EXCEPT ![t].at = at]
-----------------------------------------------------------------------------
(* guard: the keys are those of the window the request came in.            *)
BeginSignIn(t, subject, address) ==
    /\ signIn[t].at = "idle"
    /\ signIn' = [signIn EXCEPT ![t] =
                     [at |-> "subject", subject |-> subject, address |-> address]]
    /\ UNCHANGED <<counts, used, missed>>

(* Fault: one more than the limit.                                         *)
FaultyIsOver(k) == counts[k] > LimitOf[k]

IsOver(k) == counts[k] >= LimitOf[k]

(* isOver of the one key and then of the other: "Too many failed sign-in   *)
(* attempts", on to what is next, or on because Redis does not answer.     *)
Check(t, at, k, next) ==
    /\ signIn[t].at = at
    /\ \/ signIn' = [signIn EXCEPT ![t] = IF IsOver(k) THEN NoSignIn ELSE [@ EXCEPT !.at = next]]
          /\ UNCHANGED missed
       \/ Go(t, next) /\ missed' = [missed EXCEPT ![k] = @ + 1]
    /\ UNCHANGED <<counts, used>>

CheckSubject(t) == Check(t, "subject", signIn[t].subject, "address")
CheckAddress(t) == Check(t, "address", signIn[t].address, "trying")

(* attempt.get(): signed in, or any failure but that of the password.      *)
Succeed(t) ==
    /\ signIn[t].at = "trying"
    /\ signIn' = [signIn EXCEPT ![t] = NoSignIn]
    /\ UNCHANGED <<counts, used, missed>>

(* UnauthorizedException                                                   *)
Fail(t) ==
    /\ signIn[t].at = "trying"
    /\ Go(t, "failed")
    /\ used' = [k \in Keys |-> IF k \in KeysOf(t) THEN used[k] + 1 ELSE used[k]]
    /\ UNCHANGED <<counts, missed>>

(* Adds one to the counter of k, or Redis does not answer.                 *)
CountFailure(k) ==
    \/ counts' = [counts EXCEPT ![k] = @ + 1] /\ UNCHANGED missed
    \/ missed' = [missed EXCEPT ![k] = @ + 1] /\ UNCHANGED counts

CountSubject(t) ==
    /\ signIn[t].at = "failed"
    /\ CountFailure(signIn[t].subject)
    /\ Go(t, "half")
    /\ UNCHANGED used

CountAddress(t) ==
    /\ signIn[t].at = "half"
    /\ CountFailure(signIn[t].address)
    /\ signIn' = [signIn EXCEPT ![t] = NoSignIn]
    /\ UNCHANGED used

(* The API dies with the request; failures it has not counted stay so.     *)
Crash(t) ==
    /\ signIn[t].at # "idle"
    /\ signIn' = [signIn EXCEPT ![t] = NoSignIn]
    /\ missed' = [k \in Keys |->
                    IF \/ signIn[t].at = "failed" /\ k \in KeysOf(t)
                       \/ signIn[t].at = "half" /\ k = signIn[t].address
                    THEN missed[k] + 1 ELSE missed[k]]
    /\ UNCHANGED <<counts, used>>
-----------------------------------------------------------------------------
(* doFilterInternal: INCR answers with the new count, or the call fails,   *)
(* done or not.                                                            *)
LimitWrite(k) ==
    /\ \/ /\ counts' = [counts EXCEPT ![k] = @ + 1]
          /\ used' = [used EXCEPT ![k] = IF counts'[k] > LimitOf[k] THEN @ ELSE @ + 1]
          /\ UNCHANGED missed
       \/ /\ used' = [used EXCEPT ![k] = @ + 1]
          /\ missed' = [missed EXCEPT ![k] = @ + 1]
          /\ counts' \in {counts, [counts EXCEPT ![k] = @ + 1]}
    /\ UNCHANGED signIn

(* A counter outlived its window, or Redis lost it.                        *)
Forget(k) ==
    /\ counts[k] > 0
    /\ counts' = [counts EXCEPT ![k] = 0]
    /\ missed' = [missed EXCEPT ![k] = @ + counts[k]]
    /\ UNCHANGED <<signIn, used>>

ThrottleNext ==
    \/ \E t \in SignIns :
          \/ \E subject \in SubjectKeys, address \in AddressKeys :
                BeginSignIn(t, subject, address)
          \/ CheckSubject(t) \/ CheckAddress(t) \/ Succeed(t) \/ Fail(t)
          \/ CountSubject(t) \/ CountAddress(t) \/ Crash(t)
    \/ \E k \in WriteKeys : LimitWrite(k)
    \/ \E k \in Keys : Forget(k)

ThrottleSpec == ThrottleInit /\ [][ThrottleNext]_throttleVars
-----------------------------------------------------------------------------
(* No window lets through more than its limit and what overlaps: however   *)
(* many sign-ins are under way when the last free place is taken, each of  *)
(* them may fail once more, and no other; writes, which are counted before *)
(* they are let through, keep to the limit.  Except as often as Redis      *)
(* failed or forgot.  And "a successful attempt consumes none of the       *)
(* failure budget": nobody is refused for what did not fail.               *)
WindowsHold ==
    /\ \A k \in SubjectKeys \cup AddressKeys :
          /\ used[k] <= LimitOf[k] + Cardinality(SignIns) - 1 + missed[k]
          /\ counts[k] <= used[k]
    /\ \A k \in WriteKeys : used[k] <= LimitOf[k] + missed[k]
=============================================================================
