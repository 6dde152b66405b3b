---------------------------- MODULE MCSyncPulse -----------------------------
(* One machine with a proxy and another process over one outbox.             *)
EXTENDS SyncPulse

CONSTANTS m1, p1, p2, d1, hub

OneWriter == {m1, hub}
MCHome == [p \in Proc |-> m1]
MCProxy == [m \in Machine |-> p1]
AllOps == [m \in Machine |-> Op]
Quota == [m \in Machine |-> 2]
AllFaults == FaultKind
=============================================================================
