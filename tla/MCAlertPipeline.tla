--------------------------- MODULE MCAlertPipeline ---------------------------
(* AlertPipeline with one reporting thread beside the replicas' threads.   *)
EXTENDS AlertPipeline

MCScorers == {"m1", "m2"}
MCListeners == {"l1", "l2"}
MCTxns == MCListeners \cup {"api"}
=============================================================================
