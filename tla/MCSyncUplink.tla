---------------------------- MODULE MCSyncUplink ----------------------------
(* Instances of SyncUplink.  The safety run has two machines of different    *)
(* builds, a process on each; the run about re-pairing has the first alone.  *)
EXTENDS SyncUplink, TLC

CONSTANTS m1, m2, p1, p2, d1, d2, hub

TwoMachines == {m1, m2}
TwoWriters == {m1, m2, hub}
OneWriter == {m1, hub}
MCHome == [p \in Proc |-> IF p = p2 THEN m2 ELSE m1]
Builds == [m \in Machine |-> IF m = m1 THEN {1} ELSE {2}]
Quota == [m \in Machine |-> IF m = m1 THEN 2 ELSE 1]
AllFaults == FaultKind
Alike == Permutations({d1, d2})
=============================================================================
