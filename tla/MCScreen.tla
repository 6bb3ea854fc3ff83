---------------------------- MODULE MCScreen ----------------------------
(* What stands on the dashboard's screen: the surfaces, the notices and    *)
(* the sheet.  They share no variable and no action, so that what each     *)
(* does among the others is what it does while they stand still: a run     *)
(* moves one of them.                                                      *)
EXTENDS Surfaces, Notices, BottomSheet

VARIABLE part

Init ==
    /\ part \in {"surfaces", "notices", "sheet"}
    /\ SurfacesInit /\ NoticesInit /\ SheetInit
    /\ part # "surfaces" => ~session
    /\ part # "sheet" => ~narrow /\ \A h \in Heights : viewport <= h

Next ==
    /\ UNCHANGED part
    /\ \/ part = "surfaces" /\ SurfacesNext
       \/ part # "surfaces" /\ UNCHANGED surfacesVars
    /\ \/ part = "notices" /\ NoticesNext
       \/ part # "notices" /\ UNCHANGED noticeVars
    /\ \/ part = "sheet" /\ SheetNext
       \/ part # "sheet" /\ UNCHANGED sheetVars

Spec == Init /\ [][Next]_<<part, surfacesVars, noticeVars, sheetVars>>

(* Bound: four surfaces are asked for or on their way out at a time, and   *)
(* one request is on its way.                                              *)
Few ==
    /\ Cardinality(asked \cup mounted) <= 4
    /\ Cardinality({k \in Requests : waiting[k] > 0}) <= 1
=============================================================================
