------------------------ MODULE MCNotificationDispatch ------------------------
(* NotificationDispatch with one account that owns every zone and device,  *)
(* so that all of them compete for its notifications.                      *)
EXTENDS NotificationDispatch, TLC

CONSTANTS u

OwnerOf == [z \in Zones |-> u]
HolderOf == [d \in Devices |-> u]

Inside == [hears |-> "match", edge |-> 0]
Around == [hears |-> "escalation", edge |-> 2]
Near == [hears |-> "none", edge |-> 1]
Nearer == [hears |-> "none", edge |-> 0]

MCPlaces == {Inside, Around, Near, Nearer}
Interchangeable == Permutations(Handlers) \cup Permutations(Zones)
=============================================================================
