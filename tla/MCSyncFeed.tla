----------------------------- MODULE MCSyncFeed -----------------------------
(* Instances of SyncFeed.  Settled devices have followed since the journal   *)
(* was empty, the others may pair and take their baseline at any time.       *)
EXTENDS SyncFeed, TLC

CONSTANTS d1, d2, hub

MCWriter == Device \cup {hub}
AllFaults == {"hub_crash", "outcome_lost", "op_failed"}
OneEach == [d \in Device |-> 1]
OnlySecond == [d \in Device |-> IF d = d2 THEN 1 ELSE 0]
=============================================================================
