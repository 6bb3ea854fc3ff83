--------------------------- MODULE MCZoneOwnership ---------------------------
(* ZoneOwnership with the symmetry of the model values its runs use.       *)
EXTENDS ZoneOwnership, TLC

Interchangeable == Permutations(Accounts) \cup Permutations(Fingerprints)
                     \cup Permutations(Bodies) \cup Permutations(Txns)
                     \cup Permutations(Zones \ Legacy)
=============================================================================
