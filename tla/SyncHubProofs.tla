--------------------------- MODULE SyncHubProofs ---------------------------
(***************************************************************************)
(* What the steps of the hub do to the types of its state; used by the     *)
(* theorems about both directions of sync.                                 *)
(***************************************************************************)
EXTENDS SyncHub, SequenceTheorems, TLAPS

(* What the hub's steps do to the types of the hub's state.                *)
LEMMA HubStepTypes ==
  ASSUME HubTypeOK
  PROVE  /\ \A d \in Device : AddDevice(d) \/ RevokeDevice(d) => HubTypeOK'
         /\ \A e \in Envelope : Reserve(e) \/ Resume(e) => HubTypeOK'
         /\ RunOp \/ HubCrash \/ UpgradeHub => HubTypeOK'
         /\ \A lost \in BOOLEAN : StampOutcome(lost) => HubTypeOK'
<1>1. ASSUME NEW d \in Device, AddDevice(d) \/ RevokeDevice(d) PROVE HubTypeOK'
  BY <1>1 DEF HubTypeOK, AddDevice, RevokeDevice, Live
<1>2. ASSUME NEW e \in Envelope, Reserve(e) PROVE HubTypeOK'
  <2>1. Reserved(e) \in Row
    BY DEF Reserved, Row, Envelope, Outcome
  <2>2. journal' \in Seq(Row) /\ Len(journal') = Len(journal) + 1
    BY <1>2, <2>1 DEF HubTypeOK, Reserve
  <2>3. e.dev \in Device /\ e.seq \in Nat
    BY DEF Envelope
  <2>4. devices' \in [Device -> [paired: BOOLEAN, revoked: BOOLEAN, last: Nat]]
    BY <1>2, <2>3 DEF HubTypeOK, Reserve
  <2>5. running' \in 0 .. Len(journal')
    BY <1>2, <2>2 DEF HubTypeOK, Reserve
  <2> QED
    BY <1>2, <2>2, <2>4, <2>5 DEF HubTypeOK, Reserve
<1>3. ASSUME NEW e \in Envelope, Resume(e) PROVE HubTypeOK'
  BY <1>3 DEF HubTypeOK, Resume, Prior, Rows
<1>4. CASE RunOp
  <2>1. journal[running] \in Row
    BY <1>4 DEF HubTypeOK, RunOp
  <2>2. journal[running].event \in Event
    BY <2>1 DEF Row
  <2>3. result' \in {"ok", "failed"} /\ hubMind' \subseteq Event
    BY <1>4, <2>2 DEF HubTypeOK, RunOp
  <2> QED
    BY <1>4, <2>3 DEF HubTypeOK, RunOp
<1>5. ASSUME NEW lost \in BOOLEAN, StampOutcome(lost) PROVE HubTypeOK'
  <2>1. running \in DOMAIN journal /\ journal[running] \in Row /\ result \in Outcome
    BY <1>5 DEF HubTypeOK, StampOutcome, Outcome
  <2>2. journal' \in Seq(Row) /\ Len(journal') = Len(journal)
    <3>1. CASE lost
      BY <1>5, <3>1 DEF HubTypeOK, StampOutcome
    <3>2. CASE ~lost
      <4>1. [journal[running] EXCEPT !.outcome = result] \in Row
        BY <2>1 DEF Row
      <4>2. journal' = [journal EXCEPT ![running] = [journal[running] EXCEPT !.outcome = result]]
        BY <1>5, <3>2 DEF StampOutcome
      <4> QED
        BY <2>1, <4>1, <4>2 DEF HubTypeOK
    <3> QED
      BY <3>1, <3>2
  <2> QED
    BY <1>5, <2>2 DEF HubTypeOK, StampOutcome
<1>6. CASE HubCrash
  BY <1>6 DEF HubTypeOK, HubCrash
<1>7. CASE UpgradeHub
  BY <1>7, OpAssumption DEF HubTypeOK, UpgradeHub
<1> QED
  BY <1>1, <1>2, <1>3, <1>4, <1>5, <1>6, <1>7

(* A step that leaves the hub alone keeps its types.                       *)
LEMMA HubUnchangedTypes == HubTypeOK /\ UNCHANGED hubVars => HubTypeOK'
BY DEF HubTypeOK, hubVars

=============================================================================
