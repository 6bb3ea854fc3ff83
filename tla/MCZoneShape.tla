---------------------------- MODULE MCZoneShape ----------------------------
(* ZoneShape on a small grid: corners have even coordinates, so that the   *)
(* probes between them lie off the edges.                                  *)
EXTENDS ZoneShape

MCGrid == [x : {0, 2, 4}, y : {0, 2}]
MCProbes == [x : 0..4, y : 0..2]
=============================================================================
