-------------------------- MODULE SyncUplinkProofs --------------------------
(***************************************************************************)
(* Theorems about SyncUplink, for every set of devices, machines and       *)
(* processes and every value of the bounds.                                *)
(***************************************************************************)
EXTENDS SyncUplink, SyncHubProofs

(* The initial state has every type.                                       *)
LEMMA InitTypeOK == UplinkInit => TypeOK
<1> SUFFICES ASSUME UplinkInit PROVE TypeOK
  OBVIOUS
<1>1. HubTypeOK
  BY OpAssumption DEF UplinkInit, HubInit, HubTypeOK
<1>2. Idle \in Call
  BY DEF Idle, Call, Errors
<1>3. outbox \in [Machine -> Seq(OutboxRow)] /\ \A m \in Machine : DOMAIN outbox[m] = {}
  BY DEF UplinkInit
<1> QED
  BY <1>1, <1>2, <1>3 DEF UplinkInit, TypeOK

(* Marking a row sent changes nothing else about the outbox.               *)
LEMMA AckedBox ==
  ASSUME TypeOK, NEW p \in Proc, flushing[p].gseq \in Nat
  PROVE  /\ Acked(p) \in Seq(OutboxRow)
         /\ DOMAIN Acked(p) = DOMAIN outbox[Home[p]]
         /\ \A k \in DOMAIN outbox[Home[p]] :
              /\ Wire(Acked(p)[k]) = Wire(outbox[Home[p]][k])
              /\ Acked(p)[k].seq = k
              /\ k # flushing[p].seq => Acked(p)[k] = outbox[Home[p]][k]
              /\ k = flushing[p].seq => Acked(p)[k].gseq = flushing[p].gseq
<1> DEFINE box == outbox[Home[p]]
           j == flushing[p].seq
           row == [box[j] EXCEPT !.gseq = flushing[p].gseq]
<1>1. box \in Seq(OutboxRow) /\ \A k \in DOMAIN box : box[k].seq = k /\ box[k] \in OutboxRow
  BY HomeAssumption DEF TypeOK
<1>2. Acked(p) = [box EXCEPT ![j] = row]
  BY DEF Acked
<1>3. CASE j \in DOMAIN box
  <2>1. row \in OutboxRow /\ Wire(row) = Wire(box[j]) /\ row.seq = box[j].seq
          /\ row.gseq = flushing[p].gseq
    BY <1>1, <1>3 DEF OutboxRow, Wire
  <2> HIDE DEF box, j, row
  <2>2. [box EXCEPT ![j] = row] \in Seq(OutboxRow)
    BY <1>1, <1>3, <2>1
  <2>3. /\ DOMAIN [box EXCEPT ![j] = row] = DOMAIN box
        /\ [box EXCEPT ![j] = row][j] = row
        /\ \A k \in DOMAIN box : k # j => [box EXCEPT ![j] = row][k] = box[k]
    BY <1>1, <1>3
  <2> QED
    BY <1>1, <1>2, <2>1, <2>2, <2>3 DEF box, j
<1>4. CASE j \notin DOMAIN box
  <2>1. Acked(p) = box
    BY <1>1, <1>2, <1>4
  <2> QED
    BY <1>1, <1>4, <2>1
<1> QED
  BY <1>3, <1>4

(* Pruning sets no field but "pruned".                                     *)
LEMMA PrunedBox ==
  ASSUME NEW box \in Seq(OutboxRow)
  PROVE  /\ Prune(box) \in Seq(OutboxRow)
         /\ DOMAIN Prune(box) = DOMAIN box
         /\ \A k \in DOMAIN box :
              /\ Wire(Prune(box)[k]) = Wire(box[k])
              /\ Prune(box)[k].seq = box[k].seq
              /\ Prune(box)[k].gseq = box[k].gseq
<1> DEFINE row(k) == [box[k] EXCEPT !.pruned = @ \/ k \in Stale(box)]
<1>1. DOMAIN box = 1 .. Len(box) /\ Len(box) \in Nat /\ \A k \in DOMAIN box : box[k] \in OutboxRow
  OBVIOUS
<1>2. \A k \in DOMAIN box :
        /\ row(k) \in OutboxRow
        /\ Wire(row(k)) = Wire(box[k])
        /\ row(k).seq = box[k].seq
        /\ row(k).gseq = box[k].gseq
  BY <1>1 DEF OutboxRow, Wire
<1>3. Prune(box) = [k \in DOMAIN box |-> row(k)]
  BY DEF Prune
<1> HIDE DEF row
<1>4. Prune(box) \in Seq(OutboxRow)
  BY <1>1, <1>2, <1>3, IsASeq
<1> QED
  BY <1>1, <1>2, <1>3, <1>4

(* A posted row makes a well-typed call and request.                       *)
LEMMA PostTypes ==
  ASSUME TypeOK, NEW p \in Proc, NEW tok \in Device \cup {NoDevice},
         NEW k \in DOMAIN outbox[Home[p]]
  PROVE  Waiting(tok, k) \in Call /\ Post(p, tok, k) \in Request
<1>1. outbox[Home[p]][k] \in OutboxRow /\ k \in Nat
  BY HomeAssumption DEF TypeOK
<1>2. Wire(outbox[Home[p]][k]) \in Envelope
  BY <1>1 DEF Wire, OutboxRow, Envelope
<1> QED
  BY <1>1, <1>2 DEF Waiting, Call, Errors, Post, Request

(* An answer leaves every call well typed.                                 *)
LEMMA ReplyTypes ==
  ASSUME TypeOK, NEW isLive \in BOOLEAN, NEW p, isLive => p \in Proc, NEW g \in Nat,
         NEW err \in Errors, Reply(isLive, p, g, err)
  PROVE  flushing' \in [Proc -> Call]
BY DEF TypeOK, Reply, Call

(* Every step keeps every type: one step of the proof per action.          *)
LEMMA NextTypeOK == TypeOK /\ [UplinkNext]_vars => TypeOK'
<1> SUFFICES ASSUME TypeOK, [UplinkNext]_vars PROVE TypeOK'
  OBVIOUS
<1> USE HomeAssumption, NoneAssumption
<1>h. HubTypeOK
  BY DEF TypeOK
<1>u. UNCHANGED hubVars => HubTypeOK'
  BY <1>h, HubUnchangedTypes
<1>1. ASSUME NEW d \in Device, Pair(d) \/ Revoke(d) PROVE TypeOK'
  <2>1. HubTypeOK'
    BY <1>1, <1>h, HubStepTypes DEF Pair, Revoke
  <2> QED
    BY <1>1, <2>1 DEF TypeOK, Pair, Revoke, uplinkVars
<1>2. ASSUME NEW m \in Machine, NEW d \in Device, Adopt(m, d) PROVE TypeOK'
  BY <1>2, <1>u DEF TypeOK, Adopt
<1>3. ASSUME NEW m \in Machine, Disconnect(m) PROVE TypeOK'
  BY <1>3, <1>u DEF TypeOK, Disconnect
<1>4. CASE Upgrade
  <2>1. HubTypeOK'
    BY <1>4, <1>h, HubStepTypes DEF Upgrade
  <2> QED
    BY <1>4, <2>1 DEF TypeOK, Upgrade, uplinkVars
<1>5. ASSUME NEW m \in Machine, NEW op \in Op, QueueWrite(m, op) PROVE TypeOK'
  <2> DEFINE box == outbox[m]
             row == [dev |-> config[m], seq |-> Len(box) + 1, event |-> <<m, Len(box) + 1>>,
                     op |-> op, gseq |-> 0, pruned |-> FALSE]
  <2>1. box \in Seq(OutboxRow) /\ Len(box) \in Nat /\ config[m] \in Device
    BY <1>5 DEF TypeOK, QueueWrite
  <2>2. row \in OutboxRow
    BY <2>1, MachineAssumption DEF OutboxRow, Event
  <2>3. outbox' = [outbox EXCEPT ![m] = Append(box, row)]
    BY <1>5 DEF QueueWrite
  <2>4. \A k \in DOMAIN Append(box, row) : Append(box, row)[k].seq = k
    BY <2>1, <2>2 DEF TypeOK
  <2>5. Append(box, row) \in Seq(OutboxRow)
    BY <2>1, <2>2
  <2> HIDE DEF row
  <2>6. outbox' \in [Machine -> Seq(OutboxRow)]
          /\ \A n \in Machine : \A k \in DOMAIN outbox'[n] : outbox'[n][k].seq = k
    BY <2>3, <2>4, <2>5 DEF TypeOK
  <2> QED
    BY <1>5, <1>u, <2>6 DEF TypeOK, QueueWrite
<1>6. ASSUME NEW p \in Proc, StartFlush(p) PROVE TypeOK'
  <2>1. PICK k \in DOMAIN outbox[Home[p]] :
          /\ flushing' = [flushing EXCEPT ![p] = Waiting(config[Home[p]], k)]
          /\ requests' = requests \cup {Post(p, config[Home[p]], k)}
    BY <1>6 DEF StartFlush
  <2>2. Waiting(config[Home[p]], k) \in Call /\ Post(p, config[Home[p]], k) \in Request
    BY PostTypes DEF TypeOK
  <2> QED
    BY <1>6, <1>u, <2>1, <2>2 DEF TypeOK, StartFlush
<1>7. ASSUME NEW p \in Proc, FlushBlocked(p) PROVE TypeOK'
  <2>1. Idle \in Call
    BY DEF Idle, Call, Errors
  <2> QED
    BY <1>7, <1>u, <2>1 DEF TypeOK, FlushBlocked
<1>8. ASSUME NEW p \in Proc, FlushAcked(p) PROVE TypeOK'
  <2> DEFINE m == Home[p]
             tok == flushing[p].tok
             box == Acked(p)
  <2>1. flushing[p].gseq \in Nat /\ tok \in Device \cup {NoDevice}
    BY DEF TypeOK, Call
  <2>2. /\ box \in Seq(OutboxRow)
        /\ DOMAIN box = DOMAIN outbox[m]
        /\ \A k \in DOMAIN box : box[k].seq = k
    BY <2>1, AckedBox
  <2>3. CASE \E k \in DOMAIN box :
          /\ outbox' = [outbox EXCEPT ![m] = box]
          /\ flushing' = [flushing EXCEPT ![p] = Waiting(tok, k)]
          /\ requests' = requests \cup {Post(p, tok, k)}
    <3>1. PICK k \in DOMAIN box :
          /\ outbox' = [outbox EXCEPT ![m] = box]
          /\ flushing' = [flushing EXCEPT ![p] = Waiting(tok, k)]
          /\ requests' = requests \cup {Post(p, tok, k)}
      BY <2>3
    <3>2. Waiting(tok, k) \in Call /\ Post(p, tok, k) \in Request
      BY <2>1, <2>2, PostTypes
    <3> QED
      BY <1>8, <1>u, <2>2, <3>1, <3>2 DEF TypeOK, FlushAcked
  <2>4. CASE /\ outbox' = [outbox EXCEPT ![m] = Prune(box)]
             /\ flushing' = [flushing EXCEPT ![p] = Idle]
             /\ UNCHANGED requests
    <3>1. /\ Prune(box) \in Seq(OutboxRow)
          /\ \A k \in DOMAIN Prune(box) : Prune(box)[k].seq = k
      BY <2>2, PrunedBox
    <3>2. Idle \in Call
      BY DEF Idle, Call, Errors
    <3> QED
      BY <1>8, <1>u, <2>4, <3>1, <3>2 DEF TypeOK, FlushAcked
  <2> QED
    BY <1>8, <2>3, <2>4 DEF FlushAcked
<1>9. ASSUME NEW p \in Proc, LoseCall(p) PROVE TypeOK'
  <2>1. Idle \in Call
    BY DEF Idle, Call, Errors
  <2>3. \A q \in requests : q \in Request /\ [q EXCEPT !.live = FALSE] \in Request
    BY DEF TypeOK, Request
  <2>2. requests' \subseteq Request
    BY <1>9, <2>3 DEF LoseCall
  <2>4. losses' \in Nat
    BY <1>9 DEF TypeOK, LoseCall, Lose
  <2> QED
    BY <1>9, <1>u, <2>1, <2>2, <2>4 DEF TypeOK, LoseCall
<1>10. ASSUME NEW q \in requests, TurnAway(q) PROVE TypeOK'
  <2>1. q.live \in BOOLEAN /\ q.proc \in Proc
    BY DEF TypeOK, Request
  <2>2. flushing' \in [Proc -> Call]
    BY <1>10, <2>1, ReplyTypes DEF TurnAway, Errors, RefusalErrors
  <2> QED
    BY <1>10, <1>u, <2>2 DEF TypeOK, TurnAway
<1>11. ASSUME NEW q \in requests, NEW err \in RefusalErrors, Refuse(q, err) PROVE TypeOK'
  <2>1. q.live \in BOOLEAN /\ q.proc \in Proc
    BY DEF TypeOK, Request
  <2>2. flushing' \in [Proc -> Call]
    BY <1>11, <2>1, ReplyTypes DEF Refuse, Errors
  <2> QED
    BY <1>11, <1>u, <2>2 DEF TypeOK, Refuse
<1>12. ASSUME NEW q \in requests, AnswerReplay(q) PROVE TypeOK'
  <2>1. q.live \in BOOLEAN /\ q.proc \in Proc
    BY DEF TypeOK, Request
  <2>2. PICK g \in DOMAIN journal : Reply(q.live, q.proc, g, "")
    BY <1>12 DEF AnswerReplay
  <2>3. g \in Nat
    BY DEF TypeOK, HubTypeOK
  <2>4. flushing' \in [Proc -> Call]
    BY <2>1, <2>2, <2>3, ReplyTypes DEF Errors
  <2> QED
    BY <1>12, <1>u, <2>4 DEF TypeOK, AnswerReplay
<1>13. ASSUME NEW q \in requests, Begin(q) PROVE TypeOK'
  <2>1. q.proc \in Proc /\ q.env \in Envelope
    BY DEF TypeOK, Request
  <2>2. HubTypeOK'
    BY <1>13, <1>h, <2>1, HubStepTypes DEF Begin
  <2> QED
    BY <1>13, <2>1, <2>2 DEF TypeOK, Begin
<1>14. CASE Run
  <2>1. HubTypeOK'
    BY <1>14, <1>h, HubStepTypes DEF Run
  <2> QED
    BY <1>14, <2>1 DEF TypeOK, Run, uplinkVars
<1>15. CASE Finish
  <2>1. HubTypeOK'
    BY <1>15, <1>h, HubStepTypes DEF Finish
  <2>2. Reply(caller # NoProc, caller, running, "")
    BY <1>15 DEF Finish
  <2>3. running \in Nat /\ (caller # NoProc => caller \in Proc) /\ "" \in Errors
    BY DEF TypeOK, HubTypeOK, Errors
  <2>4. flushing' \in [Proc -> Call]
    BY <2>2, <2>3, ReplyTypes
  <2>5. losses' = losses \/ losses' = losses + 1
    BY <1>15 DEF Finish, Lose
  <2>6. losses' \in Nat
    BY <2>5 DEF TypeOK
  <2> QED
    BY <1>15, <2>1, <2>4, <2>6 DEF TypeOK, Finish
<1>16. CASE Crash
  <2>1. HubTypeOK'
    BY <1>16, <1>h, HubStepTypes DEF Crash
  <2>2. flushing' \in [Proc -> Call]
    BY <1>16, ReplyTypes DEF Crash, TypeOK, Errors
  <2>3. losses' \in Nat
    BY <1>16 DEF Crash, Lose, TypeOK
  <2> QED
    BY <1>16, <2>1, <2>2, <2>3 DEF TypeOK, Crash
<1>17. CASE HubWrite
  <2> DEFINE e == <<HubId, hubSeq + 1>>
             row == [dev |-> HubId, seq |-> hubSeq + 1, event |-> e, op |-> 1, outcome |-> "ok"]
  <2>1. e \in Event /\ hubSeq' \in Nat
    BY <1>17, HubIdAssumption DEF TypeOK, HubTypeOK, HubWrite, JournalLocal, Event
  <2>2. row \in Row
    BY <1>h, <2>1, OpAssumption DEF HubTypeOK, Row, Outcome
  <2>3. journal' = Append(journal, row) /\ hubMind' = hubMind \cup {e}
    BY <1>17 DEF HubWrite, JournalLocal
  <2> HIDE DEF row, e
  <2>4. journal' \in Seq(Row) /\ Len(journal') = Len(journal) + 1
    BY <1>h, <2>2, <2>3 DEF HubTypeOK
  <2>5. running' \in 0 .. Len(journal')
    BY <1>17, <1>h, <2>4 DEF HubTypeOK, HubWrite, JournalLocal
  <2>6. HubTypeOK'
    BY <1>17, <1>h, <2>1, <2>3, <2>4, <2>5 DEF HubTypeOK, HubWrite, JournalLocal
  <2> QED
    BY <1>17, <2>6 DEF TypeOK, HubWrite, uplinkVars
<1>18. CASE UNCHANGED vars
  BY <1>18, <1>u DEF TypeOK, vars, uplinkVars
<1> QED
  BY <1>1, <1>2, <1>3, <1>4, <1>5, <1>6, <1>7, <1>8, <1>9, <1>10, <1>11, <1>12, <1>13,
     <1>14, <1>15, <1>16, <1>17, <1>18
  DEF UplinkNext, OperatorStep, ConnectWithCode, ConnectByHand, SatelliteStep, HubStep

(* Type correctness, for any number of devices, machines and processes.    *)
THEOREM UplinkTypeCorrect == UplinkSpec => []TypeOK
<1>1. UplinkInit => TypeOK
  BY InitTypeOK
<1>2. TypeOK /\ [UplinkNext]_vars => TypeOK'
  BY NextTypeOK
<1> QED
  BY <1>1, <1>2, PTL DEF UplinkSpec

-----------------------------------------------------------------------------
(* How one step may change the journal.                                    *)

SameJournal ==
  /\ DOMAIN journal' = DOMAIN journal
  /\ \A g \in DOMAIN journal : Wire(journal'[g]) = Wire(journal[g])
  /\ \A d \in Device : devices'[d].last = devices[d].last
  /\ UNCHANGED hubSeq

\* Append e's row, and move nothing but e's watermark.
Appends(row) ==
  /\ DOMAIN journal' = 1 .. Len(journal) + 1
  /\ \A g \in DOMAIN journal : journal'[g] = journal[g]
  /\ journal'[Len(journal) + 1] = row

Accepts(e) ==
  /\ e \in Envelope
  /\ e.seq = devices[e.dev].last + 1
  /\ Appends(Reserved(e))
  /\ \A d \in Device : devices'[d].last = IF d = e.dev THEN e.seq ELSE devices[d].last
  /\ UNCHANGED hubSeq

OwnRow ==
  /\ \E row \in Row : /\ row.dev = HubId /\ row.seq = hubSeq + 1
                       /\ row.event = <<HubId, hubSeq + 1>> /\ Appends(row)
  /\ hubSeq' = hubSeq + 1
  /\ UNCHANGED devices

(* The journal stays, or takes in one accepted envelope, or the hub's own.  *)
LEMMA JournalStep ==
  ASSUME TypeOK, [UplinkNext]_vars
  PROVE  SameJournal \/ (\E q \in requests : Accepts(q.env)) \/ OwnRow
<1>h. HubTypeOK
  BY DEF TypeOK
<1>u. UNCHANGED hubVars => SameJournal
  BY DEF hubVars, SameJournal
<1>1. ASSUME NEW d \in Device, Pair(d) \/ Revoke(d) PROVE SameJournal
  <2>1. \A c \in Device : devices'[c].last = devices[c].last
    BY <1>1, <1>h DEF Pair, Revoke, AddDevice, RevokeDevice, HubTypeOK
  <2>2. UNCHANGED <<journal, hubSeq>>
    BY <1>1 DEF Pair, Revoke, AddDevice, RevokeDevice
  <2> QED
    BY <2>1, <2>2 DEF SameJournal
<1>2. ASSUME UNCHANGED <<devices, journal, hubSeq>> PROVE SameJournal
  BY <1>2 DEF SameJournal
<1>3. ASSUME NEW q \in requests, Reserve(q.env) PROVE Accepts(q.env)
  <2>1. q.env \in Envelope /\ q.env.dev \in Device /\ q.env.seq \in Nat
    BY DEF TypeOK, Request, Envelope
  <2>2. Reserved(q.env) \in Row
    BY <2>1 DEF Reserved, Row, Envelope, Outcome
  <2>3. Appends(Reserved(q.env))
    BY <1>3, <1>h, <2>2, AppendProperties DEF Reserve, HubTypeOK, Appends
  <2>4. \A d \in Device : devices'[d].last = IF d = q.env.dev THEN q.env.seq ELSE devices[d].last
    BY <1>3, <1>h, <2>1 DEF Reserve, HubTypeOK
  <2> QED
    BY <1>3, <2>1, <2>3, <2>4 DEF Reserve, IsNext, Accepts
<1>4. ASSUME NEW lost \in BOOLEAN, StampOutcome(lost) PROVE SameJournal
  <2>1. CASE lost
    BY <1>4, <2>1, <1>2 DEF StampOutcome
  <2>2. CASE ~lost
    <3>1. journal' = [journal EXCEPT ![running].outcome = result] /\ UNCHANGED <<devices, hubSeq>>
      BY <1>4, <2>2 DEF StampOutcome
    <3>2. \A g \in DOMAIN journal : journal[g] \in Row
      BY <1>h DEF HubTypeOK
    <3>3. \A g \in DOMAIN journal : Wire(journal'[g]) = Wire(journal[g])
      BY <3>1, <3>2 DEF Wire, Row
    <3> QED
      BY <3>1, <3>3 DEF SameJournal
  <2> QED
    BY <2>1, <2>2
<1>5. CASE HubWrite
  <2> DEFINE row == [dev |-> HubId, seq |-> hubSeq + 1, event |-> <<HubId, hubSeq + 1>>,
                     op |-> 1, outcome |-> "ok"]
  <2>1. row \in Row
    BY <1>h, HubIdAssumption, OpAssumption DEF HubTypeOK, Row, Event, Outcome
  <2>2. /\ journal' = Append(journal, row) /\ UNCHANGED devices /\ hubSeq' = hubSeq + 1
        /\ row.dev = HubId /\ row.seq = hubSeq + 1 /\ row.event = <<HubId, hubSeq + 1>>
    BY <1>5 DEF HubWrite, JournalLocal
  <2> HIDE DEF row
  <2>3. Appends(row)
    BY <1>h, <2>1, <2>2, AppendProperties DEF HubTypeOK, Appends
  <2> QED
    BY <2>1, <2>2, <2>3 DEF OwnRow
<1>6. ASSUME NEW q \in requests, Begin(q) PROVE SameJournal \/ Accepts(q.env)
  BY <1>6, <1>2, <1>3 DEF Begin, Resume
<1>7. CASE OperatorStep
  BY <1>7, <1>1, <1>2, <1>u
  DEF OperatorStep, ConnectWithCode, ConnectByHand, Adopt, Disconnect, Upgrade, UpgradeHub
<1>8. CASE SatelliteStep
  BY <1>8, <1>u DEF SatelliteStep, QueueWrite, StartFlush, FlushBlocked, FlushAcked, LoseCall
<1>9. ASSUME NEW q \in requests, NEW err \in RefusalErrors,
             TurnAway(q) \/ Refuse(q, err) \/ AnswerReplay(q)
      PROVE  SameJournal
  BY <1>9, <1>u DEF TurnAway, Refuse, AnswerReplay
<1>10. CASE Run \/ Crash
  BY <1>10, <1>2 DEF Run, RunOp, Crash, HubCrash
<1>11. CASE Finish
  BY <1>11, <1>4 DEF Finish
<1>12. CASE UNCHANGED vars
  BY <1>12, <1>2 DEF vars, hubVars
<1>13. "sequence_gap" \in RefusalErrors
  BY DEF RefusalErrors
<1>14. CASE HubStep
  BY <1>14, <1>5, <1>6, <1>9, <1>10, <1>11, <1>13 DEF HubStep
<1> QED
  BY <1>7, <1>8, <1>12, <1>14 DEF UplinkNext

-----------------------------------------------------------------------------
(* The watermark.                                                          *)

(* Whatever a step does, watermark and journal rows move together.         *)
LEMMA WatermarkStep ==
  ASSUME TypeOK, TypeOK', WatermarkIsJournal, [UplinkNext]_vars
  PROVE  WatermarkIsJournal'
<1> DEFINE Seqs(d) == {journal[g].seq : g \in {h \in DOMAIN journal : journal[h].dev = d}}
           Ordered(d) == \A g, h \in DOMAIN journal :
             g < h /\ journal[g].dev = d /\ journal[h].dev = d => journal[g].seq < journal[h].seq
<1>0. /\ DOMAIN journal = 1 .. Len(journal) /\ Len(journal) \in Nat
      /\ \A g \in DOMAIN journal : journal[g].seq \in Nat
      /\ \A d \in Device : devices[d].last \in Nat
  <2>1. journal \in Seq(Row) /\ \A d \in Device : devices[d].last \in Nat
    BY DEF TypeOK, HubTypeOK
  <2>2. DOMAIN journal = 1 .. Len(journal) /\ Len(journal) \in Nat
        /\ \A g \in DOMAIN journal : journal[g] \in Row
    BY <2>1
  <2> QED
    BY <2>1, <2>2 DEF Row
<1>1. CASE SameJournal
  <2>1. \A g \in DOMAIN journal : journal'[g].dev = journal[g].dev /\ journal'[g].seq = journal[g].seq
    BY <1>1 DEF SameJournal, Wire
  <2>2. DOMAIN journal' = DOMAIN journal /\ \A d \in Device : devices'[d].last = devices[d].last
    BY <1>1 DEF SameJournal
  <2>3. ASSUME NEW d \in Device PROVE Seqs(d)' = Seqs(d) /\ (Ordered(d) => Ordered(d)')
    BY <2>1, <2>2
  <2> QED
    BY <2>2, <2>3 DEF WatermarkIsJournal
<1>2. ASSUME NEW row, Appends(row), NEW d \in Device, row.dev # d,
             devices'[d].last = devices[d].last
      PROVE  Seqs(d)' = 1 .. devices'[d].last /\ Ordered(d)'
  <2>1. Seqs(d) = 1 .. devices[d].last /\ Ordered(d)
    BY DEF WatermarkIsJournal
  <2>2. Seqs(d)' = Seqs(d)
    BY <1>0, <1>2 DEF Appends
  <2>3. Ordered(d)'
    BY <1>0, <1>2, <2>1 DEF Appends
  <2> QED
    BY <1>2, <2>1, <2>2, <2>3
<1>3. ASSUME NEW q \in requests, Accepts(q.env) PROVE WatermarkIsJournal'
  <2> DEFINE e == q.env
             d == e.dev
             last == devices[d].last
  <2>1. /\ d \in Device /\ e.seq = last + 1 /\ Reserved(e).dev = d /\ Reserved(e).seq = e.seq
        /\ Appends(Reserved(e)) /\ devices'[d].last = last + 1
        /\ \A c \in Device : c # d => devices'[c].last = devices[c].last
    BY <1>3 DEF Accepts, Envelope, Reserved
  <2>2. Seqs(d) = 1 .. last /\ Ordered(d)
    BY <2>1 DEF WatermarkIsJournal
  <2>3. Seqs(d)' = Seqs(d) \cup {last + 1}
    BY <1>0, <2>1 DEF Appends
  <2>4. 1 .. last + 1 = (1 .. last) \cup {last + 1}
    BY <1>0, <2>1
  <2>5. \A g \in DOMAIN journal : journal[g].dev = d => journal[g].seq \in 1 .. last
    BY <2>2
  <2>6. Ordered(d)'
    <3> DEFINE n == Len(journal) + 1
    <3>1. /\ DOMAIN journal' = 1 .. n /\ journal'[n].seq = last + 1
          /\ \A g \in DOMAIN journal : journal'[g] = journal[g]
      BY <2>1 DEF Appends
    <3> SUFFICES ASSUME NEW g \in DOMAIN journal', NEW h \in DOMAIN journal', g < h,
                        journal'[g].dev = d, journal'[h].dev = d
                 PROVE  journal'[g].seq < journal'[h].seq
      OBVIOUS
    <3>2. g \in DOMAIN journal /\ (h \in DOMAIN journal \/ h = n)
      BY <1>0, <3>1
    <3>3. CASE h \in DOMAIN journal
      BY <2>2, <3>1, <3>2, <3>3
    <3>4. CASE h = n
      <4>1. journal[g].seq \in 1 .. last
        BY <2>5, <3>1, <3>2
      <4> QED
        BY <1>0, <2>1, <3>1, <3>2, <3>4, <4>1
    <3> QED
      BY <3>2, <3>3, <3>4
  <2>7. \A c \in Device : c # d => Seqs(c)' = 1 .. devices'[c].last /\ Ordered(c)'
    BY <1>2, <2>1
  <2>8. \A c \in Device : Seqs(c)' = 1 .. devices'[c].last /\ Ordered(c)'
    BY <2>1, <2>2, <2>3, <2>4, <2>6, <2>7
  <2> QED
    BY <2>8 DEF WatermarkIsJournal
<1>4. CASE OwnRow
  <2>1. \A d \in Device : Seqs(d)' = 1 .. devices'[d].last /\ Ordered(d)'
    BY <1>2, <1>4, HubIdAssumption DEF OwnRow
  <2> QED
    BY <2>1 DEF WatermarkIsJournal
<1> QED
  BY <1>1, <1>3, <1>4, JournalStep

(* hub.js:11: every device's rows in the journal are numbered 1 to its     *)
(* watermark, each number once and in order.                               *)
THEOREM WatermarkCorrect == UplinkSpec => []WatermarkIsJournal
<1>1. UplinkInit => WatermarkIsJournal
  <2>1. UplinkInit => DOMAIN journal = {} /\ \A d \in Device : devices[d].last = 0
    BY DEF UplinkInit, HubInit
  <2>2. 1 .. 0 = {}
    OBVIOUS
  <2> QED
    BY <2>1, <2>2 DEF WatermarkIsJournal
<1>2. TypeOK /\ TypeOK' /\ WatermarkIsJournal /\ [UplinkNext]_vars => WatermarkIsJournal'
  BY WatermarkStep
<1> QED
  BY <1>1, <1>2, UplinkTypeCorrect, PTL DEF UplinkSpec

-----------------------------------------------------------------------------
(* Calls and answers.                                                      *)

JournalGrows ==
  \A g \in DOMAIN journal : g \in DOMAIN journal' /\ Wire(journal'[g]) = Wire(journal[g])

OutboxGrows ==
  \A m \in Machine : \A k \in DOMAIN outbox[m] :
    k \in DOMAIN outbox'[m] /\ Wire(outbox'[m][k]) = Wire(outbox[m][k])

(* hub.js keeps what it journaled, whatever the step.                      *)
LEMMA JournalGrowsStep ==
  ASSUME TypeOK, [UplinkNext]_vars
  PROVE  JournalGrows
<1>1. DOMAIN journal = 1 .. Len(journal) /\ Len(journal) \in Nat
  BY DEF TypeOK, HubTypeOK
<1>2. ASSUME NEW row, Appends(row) PROVE JournalGrows
  BY <1>1, <1>2 DEF Appends, JournalGrows
<1> QED
  BY <1>2, JournalStep DEF SameJournal, Accepts, OwnRow, JournalGrows

(* remote-client.js never changes an envelope it queued.                   *)
LEMMA OutboxGrowsStep ==
  ASSUME TypeOK, OutboxIsOwn, [UplinkNext]_vars
  PROVE  OutboxGrows /\ OutboxIsOwn'
<1>0. \A m \in Machine : outbox[m] \in Seq(OutboxRow)
  BY DEF TypeOK
<1>1. CASE UNCHANGED outbox
  BY <1>1 DEF OutboxGrows, OutboxIsOwn
<1>2. ASSUME NEW m \in Machine, NEW op \in Op, QueueWrite(m, op)
      PROVE  OutboxGrows /\ OutboxIsOwn'
  <2> DEFINE box == outbox[m]
             row == [dev |-> config[m], seq |-> Len(box) + 1, event |-> <<m, Len(box) + 1>>,
                     op |-> op, gseq |-> 0, pruned |-> FALSE]
  <2>1. config[m] \in Device /\ Len(box) \in Nat
    BY <1>0, <1>2 DEF TypeOK, QueueWrite
  <2>2. row \in OutboxRow /\ row.event = <<m, Len(box) + 1>>
    BY <2>1, MachineAssumption DEF OutboxRow, Event
  <2>3. outbox' = [outbox EXCEPT ![m] = Append(box, row)]
    BY <1>2 DEF QueueWrite
  <2> HIDE DEF row
  <2>4. /\ DOMAIN Append(box, row) = 1 .. Len(box) + 1
        /\ DOMAIN box = 1 .. Len(box)
        /\ \A k \in DOMAIN box : Append(box, row)[k] = box[k]
        /\ Append(box, row)[Len(box) + 1] = row
    BY <1>0, <2>2, AppendProperties
  <2>5. outbox'[m] = Append(box, row) /\ \A n \in Machine : n # m => outbox'[n] = outbox[n]
    BY <2>3 DEF TypeOK
  <2>6. \A k \in DOMAIN outbox'[m] : k \in DOMAIN box \/ k = Len(box) + 1
    BY <2>1, <2>4, <2>5
  <2>7. OutboxGrows
    BY <2>1, <2>4, <2>5 DEF OutboxGrows
  <2>8. OutboxIsOwn'
    BY <2>2, <2>4, <2>5, <2>6 DEF OutboxIsOwn
  <2> QED
    BY <2>7, <2>8
<1>3. ASSUME NEW p \in Proc, FlushAcked(p) PROVE OutboxGrows /\ OutboxIsOwn'
  <2> DEFINE m == Home[p]
             box == Acked(p)
  <2>0. m \in Machine /\ flushing[p].gseq \in Nat
    BY HomeAssumption DEF TypeOK, Call
  <2>1. /\ box \in Seq(OutboxRow)
        /\ DOMAIN box = DOMAIN outbox[m]
        /\ \A k \in DOMAIN outbox[m] : Wire(box[k]) = Wire(outbox[m][k])
    BY <2>0, AckedBox
  <2>2. /\ DOMAIN Prune(box) = DOMAIN outbox[m]
        /\ \A k \in DOMAIN outbox[m] : Wire(Prune(box)[k]) = Wire(outbox[m][k])
    BY <2>1, PrunedBox
  <2>3. PICK new \in {box, Prune(box)} : outbox' = [outbox EXCEPT ![m] = new]
    BY <1>3 DEF FlushAcked
  <2>4. /\ DOMAIN outbox'[m] = DOMAIN outbox[m]
        /\ \A k \in DOMAIN outbox[m] : Wire(outbox'[m][k]) = Wire(outbox[m][k])
        /\ \A n \in Machine : n # m => outbox'[n] = outbox[n]
    BY <2>0, <2>1, <2>2, <2>3 DEF TypeOK
  <2>5. \A k \in DOMAIN outbox[m] : outbox'[m][k].event = outbox[m][k].event
    BY <2>4 DEF Wire
  <2>6. OutboxGrows
    BY <2>4 DEF OutboxGrows
  <2>7. OutboxIsOwn'
    BY <2>4, <2>5 DEF OutboxIsOwn
  <2> QED
    BY <2>6, <2>7
<1>4. CASE OperatorStep
  BY <1>1, <1>4
  DEF OperatorStep, Pair, Revoke, ConnectWithCode, ConnectByHand, Adopt, Disconnect, Upgrade,
      uplinkVars
<1>5. CASE SatelliteStep
  BY <1>1, <1>2, <1>3, <1>5 DEF SatelliteStep, StartFlush, FlushBlocked, LoseCall
<1>6. CASE HubStep
  BY <1>1, <1>6
  DEF HubStep, TurnAway, Refuse, AnswerReplay, Begin, Run, Finish, Crash, HubWrite, uplinkVars
<1>7. CASE UNCHANGED vars
  BY <1>1, <1>7 DEF vars, uplinkVars
<1> QED
  BY <1>4, <1>5, <1>6, <1>7 DEF UplinkNext

(* A device's journal row stays the row some machine queued.               *)
LEMMA JournalIsQueuedStep ==
  ASSUME TypeOK, JournalIsQueued, OutboxIsOwn, RequestsAreQueued, [UplinkNext]_vars
  PROVE  JournalIsQueued'
<1> DEFINE Queued(r, boxes) == \E m \in Machine : \E k \in DOMAIN boxes[m] :
                                 r.event = <<m, k>> /\ Wire(r) = Wire(boxes[m][k])
<1>0. OutboxGrows /\ DOMAIN journal = 1 .. Len(journal) /\ Len(journal) \in Nat
  BY OutboxGrowsStep DEF TypeOK, HubTypeOK
<1>1. ASSUME NEW r, NEW s, Wire(r) = Wire(s), Queued(r, outbox) PROVE Queued(s, outbox')
  <2>1. r.event = s.event
    BY <1>1 DEF Wire
  <2> QED
    BY <1>0, <1>1, <2>1 DEF OutboxGrows
<1>2. CASE SameJournal
  <2>1. ASSUME NEW g \in DOMAIN journal', journal'[g].dev \in Device PROVE Queued(journal'[g], outbox')
    <3>1. g \in DOMAIN journal /\ Wire(journal[g]) = Wire(journal'[g])
      BY <1>2, <2>1 DEF SameJournal
    <3>2. journal[g].dev \in Device
      BY <2>1, <3>1 DEF Wire
    <3> QED
      BY <1>1, <3>1, <3>2 DEF JournalIsQueued
  <2> QED
    BY <2>1 DEF JournalIsQueued
<1>3. ASSUME NEW row, Appends(row), row.dev \in Device => Queued(row, outbox')
      PROVE  JournalIsQueued'
  <2>1. ASSUME NEW g \in DOMAIN journal', journal'[g].dev \in Device PROVE Queued(journal'[g], outbox')
    <3>1. CASE g \in DOMAIN journal
      BY <1>1, <1>3, <2>1, <3>1 DEF Appends, JournalIsQueued
    <3>2. CASE g = Len(journal) + 1
      BY <1>3, <2>1, <3>2 DEF Appends
    <3> QED
      BY <1>0, <1>3, <3>1, <3>2 DEF Appends
  <2> QED
    BY <2>1 DEF JournalIsQueued
<1>4. ASSUME NEW q \in requests, Accepts(q.env) PROVE JournalIsQueued'
  <2> DEFINE m == Home[q.proc]
             r == outbox[m][q.env.seq]
  <2>1. m \in Machine /\ q.env.seq \in DOMAIN outbox[m] /\ q.env = Wire(r)
    BY HomeAssumption DEF TypeOK, Request, RequestsAreQueued
  <2>2. r.event = <<m, q.env.seq>>
    BY <2>1 DEF OutboxIsOwn
  <2>3. Queued(r, outbox)
    BY <2>1, <2>2
  <2>4. Wire(Reserved(q.env)) = Wire(r)
    BY <2>1 DEF Wire, Reserved
  <2>5. Queued(Reserved(q.env), outbox')
    BY <1>1, <2>3, <2>4
  <2> QED
    BY <1>3, <1>4, <2>5 DEF Accepts
<1>5. CASE OwnRow
  BY <1>3, <1>5, HubIdAssumption DEF OwnRow
<1> QED
  BY <1>2, <1>4, <1>5, JournalStep

(* Requests speak of outbox rows, however long they are on their way.      *)
LEMMA RequestsAreQueuedStep ==
  ASSUME TypeOK, OutboxIsOwn, RequestsAreQueued, [UplinkNext]_vars
  PROVE  RequestsAreQueued'
<1>0. OutboxGrows /\ \A q \in requests : Home[q.proc] \in Machine
  BY OutboxGrowsStep, HomeAssumption DEF TypeOK, Request
<1>1. ASSUME NEW q, NEW r \in requests, q.proc = r.proc, q.env = r.env
      PROVE  /\ q.env.seq \in DOMAIN outbox'[Home[q.proc]]
             /\ q.env = Wire(outbox'[Home[q.proc]][q.env.seq])
  BY <1>0, <1>1 DEF RequestsAreQueued, OutboxGrows
<1>2. CASE requests' \subseteq requests
  BY <1>1, <1>2 DEF RequestsAreQueued
<1>3. ASSUME NEW p \in Proc, NEW tok, NEW k \in DOMAIN outbox[Home[p]],
             requests' = requests \cup {Post(p, tok, k)}
      PROVE  RequestsAreQueued'
  <2> DEFINE q == Post(p, tok, k)
  <2>1. Home[p] \in Machine
    BY HomeAssumption
  <2>2. outbox[Home[p]][k].seq = k
    BY <2>1 DEF TypeOK
  <2>3. q.env = Wire(outbox[Home[p]][k]) /\ q.proc = p /\ q.env.seq = k
    BY <2>2 DEF Post, Wire
  <2>4. q.env.seq \in DOMAIN outbox'[Home[q.proc]] /\ q.env = Wire(outbox'[Home[q.proc]][q.env.seq])
    BY <1>0, <2>1, <2>3 DEF OutboxGrows
  <2> HIDE DEF q
  <2> QED
    BY <1>1, <1>3, <2>4 DEF RequestsAreQueued, q
<1>4. ASSUME NEW p \in Proc, LoseCall(p) PROVE RequestsAreQueued'
  <2>1. \A q \in requests' : \E r \in requests : q.proc = r.proc /\ q.env = r.env
    BY <1>4 DEF LoseCall, TypeOK, Request
  <2> QED
    BY <1>1, <2>1 DEF RequestsAreQueued
<1>5. ASSUME NEW p \in Proc, FlushAcked(p) PROVE RequestsAreQueued'
  <2>1. DOMAIN Acked(p) = DOMAIN outbox[Home[p]]
    BY AckedBox DEF TypeOK, Call
  <2> QED
    BY <1>2, <1>3, <1>5, <2>1 DEF FlushAcked
<1>6. ASSUME NEW p \in Proc, StartFlush(p) PROVE RequestsAreQueued'
  BY <1>3, <1>6 DEF StartFlush
<1>7. CASE OperatorStep
  BY <1>2, <1>7
  DEF OperatorStep, Pair, Revoke, ConnectWithCode, ConnectByHand, Adopt, Disconnect, Upgrade,
      uplinkVars
<1>8. CASE SatelliteStep
  BY <1>2, <1>4, <1>5, <1>6, <1>8 DEF SatelliteStep, QueueWrite, FlushBlocked
<1>9. CASE HubStep
  BY <1>2, <1>9
  DEF HubStep, TurnAway, Refuse, AnswerReplay, Begin, Run, Finish, Crash, HubWrite, uplinkVars
<1>10. CASE UNCHANGED vars
  BY <1>2, <1>10 DEF vars, uplinkVars
<1> QED
  BY <1>7, <1>8, <1>9, <1>10 DEF UplinkNext

(* The prior row that answers a replay is the row of the replayed envelope. *)
LEMMA PriorIsRow ==
  ASSUME TypeOK, CallInv, NEW q \in requests, NEW g \in Prior(q.env)
  PROVE  g \in DOMAIN journal /\ Wire(journal[g]) = q.env
<1> DEFINE m == Home[q.proc]
<1>0. q.env \in Envelope /\ m \in Machine
  BY HomeAssumption DEF TypeOK, Request
<1>1. g \in DOMAIN journal /\ journal[g].dev \in Device /\ journal[g].event = q.env.event
  BY <1>0 DEF Prior, Rows, Envelope
<1>2. PICK n \in Machine : \E k \in DOMAIN outbox[n] :
        journal[g].event = <<n, k>> /\ Wire(journal[g]) = Wire(outbox[n][k])
  BY <1>1 DEF CallInv, JournalIsQueued
<1>3. PICK k \in DOMAIN outbox[n] :
        journal[g].event = <<n, k>> /\ Wire(journal[g]) = Wire(outbox[n][k])
  BY <1>2
<1>4. q.env.seq \in DOMAIN outbox[m] /\ q.env = Wire(outbox[m][q.env.seq])
  BY DEF CallInv, RequestsAreQueued
<1>5. q.env.event = <<m, q.env.seq>>
  BY <1>0, <1>4 DEF CallInv, OutboxIsOwn, Wire
<1>6. n = m /\ k = q.env.seq
  <2>1. <<n, k>> = <<m, q.env.seq>>
    BY <1>1, <1>3, <1>5, Zenon
  <2> HIDE DEF m
  <2> QED
    BY <2>1
<1>7. Wire(journal[g]) = Wire(outbox[m][q.env.seq])
  BY <1>3, <1>6
<1> QED
  BY <1>1, <1>4, <1>7

(* A reserved or resumed row is the row of the envelope that took it up.   *)
LEMMA BeginTakesUp ==
  ASSUME TypeOK, CallInv, NEW q \in requests, Reserve(q.env) \/ Resume(q.env)
  PROVE  running' \in DOMAIN journal' /\ Wire(journal'[running']) = q.env
<1>0. journal \in Seq(Row) /\ q.env \in Envelope
  BY DEF TypeOK, HubTypeOK, Request
<1>1. CASE Reserve(q.env)
  <2>1. Reserved(q.env) \in Row /\ Wire(Reserved(q.env)) = q.env
    BY <1>0 DEF Reserved, Row, Envelope, Outcome, Wire
  <2>2. journal' = Append(journal, Reserved(q.env)) /\ running' = Len(journal) + 1
    BY <1>1 DEF Reserve
  <2> QED
    BY <1>0, <2>1, <2>2, AppendProperties
<1>2. CASE Resume(q.env)
  BY <1>2, PriorIsRow DEF Resume
<1> QED
  BY <1>1, <1>2

(* No answer reaches a caller that asked for another row.                  *)
LEMMA CallsStep ==
  ASSUME TypeOK, TypeOK', CallInv, [UplinkNext]_vars
  PROVE  OneCallEach' /\ AnswersMatchCalls'
<1> USE HomeAssumption, NoneAssumption
<1>0. JournalGrows /\ OutboxGrows
  BY JournalGrowsStep, OutboxGrowsStep DEF CallInv
<1>t. /\ \A q \in requests : q.proc \in Proc /\ q.live \in BOOLEAN
      /\ \A p \in Proc : Home[p] \in Machine /\ flushing[p].gseq \in Nat
      /\ flushing \in [Proc -> Call]
      /\ caller \in Proc \cup {NoProc}
      /\ DOMAIN journal = 1 .. Len(journal) /\ Len(journal) \in Nat
  <2>1. /\ requests \subseteq Request
        /\ flushing \in [Proc -> Call]
        /\ caller \in Proc \cup {NoProc}
        /\ journal \in Seq(Row)
    BY DEF TypeOK, HubTypeOK
  <2>2. \A q \in requests : q.proc \in Proc /\ q.live \in BOOLEAN
    BY <2>1 DEF Request
  <2>3. \A p \in Proc : Home[p] \in Machine /\ flushing[p].gseq \in Nat
    BY <2>1 DEF Call
  <2>4. DOMAIN journal = 1 .. Len(journal) /\ Len(journal) \in Nat
    BY <2>1
  <2> QED
    BY <2>1, <2>2, <2>3, <2>4
<1>c. caller # NoProc => running \in DOMAIN journal /\ running # 0
  BY <1>t DEF CallInv, AnswersMatchCalls, AsksFor
\* What a call asked for stays asked for.
<1>k. ASSUME NEW p \in Proc, flushing[p].seq \in DOMAIN outbox[Home[p]],
             flushing'[p].seq = flushing[p].seq
      PROVE  /\ flushing'[p].seq \in DOMAIN outbox'[Home[p]]
             /\ \A g \in Nat : AsksFor(p, g) =>
                  g \in DOMAIN journal' /\ Wire(journal'[g]) = Wire(outbox'[Home[p]][flushing'[p].seq])
  BY <1>0, <1>t, <1>k DEF JournalGrows, OutboxGrows, AsksFor
\* A step that answers p, or nobody, and at most forgets requests and caller.
<1>r. ASSUME NEW isLive \in BOOLEAN, NEW p, NEW g \in Nat, NEW err,
             Reply(isLive, p, g, err),
             isLive => /\ p \in Proc /\ flushing[p].state = "waiting"
                       /\ g # 0 => AsksFor(p, g),
             requests' \subseteq requests,
             \A r \in requests' : r.live /\ isLive => r.proc # p,
             caller' = NoProc \/ (caller' = caller /\ running' = running),
             isLive => caller' # p
      PROVE  OneCallEach' /\ AnswersMatchCalls'
  <2>1. \A r \in Proc : r # p \/ ~isLive => flushing'[r] = flushing[r]
    BY <1>r, <1>t DEF Reply
  <2>2. isLive => /\ flushing'[p].state = "answered" /\ flushing'[p].gseq = g
                  /\ flushing'[p].seq = flushing[p].seq
    BY <1>r, <1>t DEF Reply, Call
  <2>3. OneCallEach'
    BY <1>r, <1>t, <2>1 DEF CallInv, OneCallEach
  <2>4. ASSUME NEW r \in Proc
        PROVE  /\ flushing'[r].state # "idle" => flushing'[r].seq \in DOMAIN outbox'[Home[r]]
               /\ flushing'[r].state = "answered" /\ flushing'[r].gseq # 0 => AsksFor(r, flushing[r].gseq)'
    <3>1. CASE r = p /\ isLive
      BY <1>k, <1>r, <2>2, <3>1 DEF CallInv, AnswersMatchCalls, AsksFor
    <3>2. CASE ~(r = p /\ isLive)
      BY <1>k, <1>t, <2>1, <3>2 DEF CallInv, AnswersMatchCalls, AsksFor
    <3> QED
      BY <3>1, <3>2
  <2>5. caller' # NoProc => flushing'[caller'].state = "waiting" /\ AsksFor(caller, running)'
    <3> SUFFICES ASSUME caller' # NoProc
                 PROVE  flushing'[caller'].state = "waiting" /\ AsksFor(caller, running)'
      OBVIOUS
    <3>1. caller' = caller /\ running' = running /\ caller \in Proc
      BY <1>r, <1>t
    <3>2. flushing[caller].state = "waiting" /\ AsksFor(caller, running)
            /\ flushing[caller].seq \in DOMAIN outbox[Home[caller]]
      BY <1>t, <3>1 DEF CallInv, AnswersMatchCalls
    <3>3. flushing'[caller] = flushing[caller]
      BY <1>r, <2>1, <3>1
    <3> QED
      BY <1>c, <1>k, <1>t, <3>1, <3>2, <3>3 DEF AsksFor
  <2> QED
    BY <2>3, <2>4, <2>5 DEF AnswersMatchCalls
\* A step that leaves calls, requests and the row in hand alone.
<1>s. ASSUME UNCHANGED <<flushing, requests, caller, running>>
      PROVE  OneCallEach' /\ AnswersMatchCalls'
  <2>1. Reply(FALSE, NoProc, 0, "")
    BY <1>s DEF Reply
  <2> QED
    BY <1>r, <1>s, <2>1
\* A step that sends p, which waits for nothing, to new, with at most one post.
<1>p. ASSUME NEW p \in Proc, flushing[p].state # "waiting",
             NEW new \in Call, flushing' = [flushing EXCEPT ![p] = new],
             UNCHANGED <<caller, running>>,
             \/ new = Idle /\ UNCHANGED requests
             \/ \E tok : \E k \in DOMAIN outbox[Home[p]] :
                  /\ new = Waiting(tok, k)
                  /\ requests' = requests \cup {Post(p, tok, k)}
      PROVE  OneCallEach' /\ AnswersMatchCalls'
  <2>1. (\A r \in requests : r.live => r.proc # p) /\ caller # p
    BY <1>p DEF CallInv, OneCallEach, AnswersMatchCalls
  <2>2. flushing'[p] = new /\ \A r \in Proc : r # p => flushing'[r] = flushing[r]
    BY <1>p, <1>t
  <2>3. \A r \in Proc : r # p =>
          /\ flushing'[r].state # "idle" => flushing'[r].seq \in DOMAIN outbox'[Home[r]]
          /\ flushing'[r].state = "answered" /\ flushing'[r].gseq # 0 =>
               AsksFor(r, flushing[r].gseq)'
    BY <1>k, <1>t, <2>2 DEF CallInv, AnswersMatchCalls, AsksFor
  <2>4. caller' # NoProc => flushing'[caller'].state = "waiting" /\ AsksFor(caller, running)'
    <3> SUFFICES ASSUME caller' # NoProc
                 PROVE  flushing'[caller'].state = "waiting" /\ AsksFor(caller, running)'
      OBVIOUS
    <3>1. caller' = caller /\ running' = running /\ caller \in Proc
      BY <1>p, <1>t
    <3>2. flushing[caller].state = "waiting" /\ AsksFor(caller, running)
            /\ flushing[caller].seq \in DOMAIN outbox[Home[caller]]
      BY <1>t, <3>1 DEF CallInv, AnswersMatchCalls
    <3>3. flushing'[caller] = flushing[caller]
      BY <2>1, <2>2, <3>1
    <3> QED
      BY <1>c, <1>k, <1>t, <3>1, <3>2, <3>3 DEF AsksFor
  <2>5. CASE new = Idle /\ UNCHANGED requests
    <3>1. flushing'[p] = Idle /\ Idle.state = "idle"
      BY <2>2, <2>5 DEF Idle
    <3>2. OneCallEach'
      BY <1>p, <1>t, <2>1, <2>2, <2>5 DEF CallInv, OneCallEach
    <3> QED
      BY <2>3, <2>4, <3>1, <3>2 DEF AnswersMatchCalls
  <2>6. ASSUME NEW tok, NEW k \in DOMAIN outbox[Home[p]], new = Waiting(tok, k),
               requests' = requests \cup {Post(p, tok, k)}
        PROVE  OneCallEach' /\ AnswersMatchCalls'
    <3> DEFINE q == Post(p, tok, k)
    <3>0. outbox[Home[p]][k].seq = k
      BY <1>t, <2>6 DEF TypeOK
    <3>w. flushing'[p] = Waiting(tok, k)
      BY <2>2, <2>6
    <3>1. /\ q.proc = p /\ q.live = TRUE /\ q.env.seq = k
          /\ flushing'[p].state = "waiting" /\ flushing'[p].seq = k
      <4>1. q.proc = p /\ q.live = TRUE
        BY DEF Post
      <4>2. q.env.seq = k
        BY <3>0 DEF Post, Wire
      <4>3. Waiting(tok, k).state = "waiting" /\ Waiting(tok, k).seq = k
        BY DEF Waiting
      <4> QED
        BY <3>w, <4>1, <4>2, <4>3, Zenon
    <3> HIDE DEF q
    <3>2. OneCallEach'
      BY <1>p, <1>t, <2>1, <2>2, <2>6, <3>1 DEF CallInv, OneCallEach, q
    <3>3. flushing'[p].seq \in DOMAIN outbox'[Home[p]]
      BY <1>0, <1>t, <3>1 DEF OutboxGrows
    <3> QED
      BY <2>3, <2>4, <3>1, <3>2, <3>3 DEF AnswersMatchCalls
  <2> QED
    BY <1>p, <2>5, <2>6
<1>1. CASE OperatorStep
  BY <1>1, <1>s DEF OperatorStep, Pair, Revoke, ConnectWithCode, ConnectByHand, Adopt, Disconnect, Upgrade,
     AddDevice, RevokeDevice, UpgradeHub, hubVars, uplinkVars
<1>2. ASSUME NEW m \in Machine, NEW op \in Op, QueueWrite(m, op)
      PROVE  OneCallEach' /\ AnswersMatchCalls'
  BY <1>2, <1>s DEF QueueWrite, hubVars
<1>3. ASSUME NEW p \in Proc, StartFlush(p) PROVE OneCallEach' /\ AnswersMatchCalls'
  <2>1. PICK k \in DOMAIN outbox[Home[p]] :
          /\ flushing' = [flushing EXCEPT ![p] = Waiting(config[Home[p]], k)]
          /\ requests' = requests \cup {Post(p, config[Home[p]], k)}
    BY <1>3 DEF StartFlush
  <2>2. Waiting(config[Home[p]], k) \in Call
    BY <1>t, PostTypes DEF TypeOK
  <2> QED
    BY <1>3, <1>p, <2>1, <2>2 DEF StartFlush, hubVars
<1>4. ASSUME NEW p \in Proc, FlushBlocked(p) PROVE OneCallEach' /\ AnswersMatchCalls'
  <2>1. Idle \in Call
    BY DEF Idle, Call, Errors
  <2> QED
    BY <1>4, <1>p, <2>1 DEF FlushBlocked, hubVars
<1>5. ASSUME NEW p \in Proc, FlushAcked(p) PROVE OneCallEach' /\ AnswersMatchCalls'
  <2> DEFINE tok == flushing[p].tok
  <2>0. UNCHANGED <<caller, running>> /\ flushing[p].state # "waiting"
    BY <1>5 DEF FlushAcked, hubVars
  <2>1. DOMAIN Acked(p) = DOMAIN outbox[Home[p]] /\ tok \in Device \cup {NoDevice}
    BY AckedBox DEF TypeOK, Call
  <2>2. CASE UNCHANGED requests /\ flushing' = [flushing EXCEPT ![p] = Idle]
    <3>1. Idle \in Call
      BY DEF Idle, Call, Errors
    <3> QED
      BY <1>p, <2>0, <2>2, <3>1
  <2>3. ASSUME NEW k \in DOMAIN Acked(p),
               flushing' = [flushing EXCEPT ![p] = Waiting(tok, k)],
               requests' = requests \cup {Post(p, tok, k)}
        PROVE  OneCallEach' /\ AnswersMatchCalls'
    <3>1. k \in DOMAIN outbox[Home[p]] /\ Waiting(tok, k) \in Call
      BY <2>1, <2>3, PostTypes
    <3> QED
      BY <1>p, <2>0, <2>3, <3>1
  <2> QED
    BY <1>5, <2>2, <2>3 DEF FlushAcked
<1>6. ASSUME NEW p \in Proc, LoseCall(p) PROVE OneCallEach' /\ AnswersMatchCalls'
  <2>0. /\ UNCHANGED <<running, outbox, journal>>
        /\ flushing'[p] = Idle /\ \A r \in Proc : r # p => flushing'[r] = flushing[r]
        /\ caller' = IF caller = p THEN NoProc ELSE caller
    BY <1>6, <1>t DEF LoseCall, hubVars
  <2>1. \A q \in requests' : q.live => q \in requests /\ q.proc # p
    BY <1>6, <1>t DEF LoseCall, TypeOK, Request
  <2>2. OneCallEach'
    <3> SUFFICES ASSUME NEW q \in requests', q.live
                 PROVE  /\ flushing'[q.proc].state = "waiting"
                        /\ flushing'[q.proc].seq = q.env.seq
                        /\ caller' # q.proc
                        /\ \A r \in requests' : r.live /\ r.proc = q.proc => r = q
      BY DEF OneCallEach
    <3>1. q \in requests /\ q.proc # p /\ q.proc \in Proc
      BY <1>t, <2>1
    <3> QED
      BY <2>0, <2>1, <3>1 DEF CallInv, OneCallEach
  <2>3. \A r \in Proc :
          /\ flushing'[r].state # "idle" => flushing'[r].seq \in DOMAIN outbox'[Home[r]]
          /\ flushing'[r].state = "answered" /\ flushing'[r].gseq # 0 =>
               AsksFor(r, flushing[r].gseq)'
    <3>1. Idle.state = "idle"
      BY DEF Idle
    <3> QED
      BY <2>0, <1>t, <3>1 DEF CallInv, AnswersMatchCalls, AsksFor
  <2>4. caller' # NoProc => flushing'[caller'].state = "waiting" /\ AsksFor(caller, running)'
    BY <2>0, <1>t DEF CallInv, AnswersMatchCalls, AsksFor
  <2> QED
    BY <2>2, <2>3, <2>4 DEF AnswersMatchCalls
\* A live request's caller waits for the row the request is about.
<1>q. ASSUME NEW q \in requests, q.live
      PROVE  /\ q.proc \in Proc /\ flushing[q.proc].state = "waiting" /\ caller # q.proc
             /\ Wire(outbox[Home[q.proc]][flushing[q.proc].seq]) = q.env
             /\ flushing[q.proc].seq \in DOMAIN outbox[Home[q.proc]]
             /\ \A r \in requests \ {q} : r.live => r.proc # q.proc
  BY <1>q, <1>t DEF CallInv, OneCallEach, RequestsAreQueued
\* A request is answered from the journal, or not at all, and is gone.
<1>v. ASSUME NEW q \in requests, NEW err, NEW g \in Nat, Reply(q.live, q.proc, g, err),
             q.live /\ g # 0 => AsksFor(q.proc, g),
             requests' = requests \ {q}, UNCHANGED <<caller, running>>
      PROVE  OneCallEach' /\ AnswersMatchCalls'
  <2>1. q.live \in BOOLEAN
    BY <1>t
  <2>2. q.live => /\ q.proc \in Proc /\ flushing[q.proc].state = "waiting"
                  /\ g # 0 => AsksFor(q.proc, g)
    BY <1>q, <1>v
  <2>3. requests' \subseteq requests
    BY <1>v
  <2>4. \A r \in requests' : r.live /\ q.live => r.proc # q.proc
    BY <1>q, <1>v
  <2>5. caller' = caller /\ running' = running
    BY <1>v
  <2>6. q.live => caller' # q.proc
    BY <1>q, <2>5
  <2> QED
    BY <1>r, <1>v, <2>1, <2>2, <2>3, <2>4, <2>5, <2>6, Zenon
<1>7. ASSUME NEW q \in requests, TurnAway(q) PROVE OneCallEach' /\ AnswersMatchCalls'
  <2> DEFINE err == IF Live(q.tok) THEN "device_id_mismatch" ELSE "unknown_device"
  <2>1. /\ Reply(q.live, q.proc, 0, err)
        /\ requests' = requests \ {q} /\ UNCHANGED <<caller, running>>
    BY <1>7 DEF TurnAway, hubVars
  <2> HIDE DEF err
  <2> QED
    BY <1>v, <2>1
<1>8. ASSUME NEW q \in requests, NEW err \in RefusalErrors, Refuse(q, err)
      PROVE  OneCallEach' /\ AnswersMatchCalls'
  <2>1. /\ Reply(q.live, q.proc, 0, err)
        /\ requests' = requests \ {q} /\ UNCHANGED <<caller, running>>
    BY <1>8 DEF Refuse, hubVars
  <2> QED
    BY <1>v, <2>1
<1>9. ASSUME NEW q \in requests, AnswerReplay(q) PROVE OneCallEach' /\ AnswersMatchCalls'
  <2>1. PICK g \in DOMAIN journal : AnswersFromJournal(q.env, g) /\ Reply(q.live, q.proc, g, "")
    BY <1>9 DEF AnswerReplay
  <2>2. requests' = requests \ {q} /\ UNCHANGED <<caller, running>>
    BY <1>9 DEF AnswerReplay, hubVars
  <2>d. g \in DOMAIN journal /\ DOMAIN journal = 1 .. Len(journal) /\ Len(journal) \in Nat
    BY <1>t
  <2>g. g \in Nat /\ g \in DOMAIN journal
    BY <2>d
  <2>3. Wire(journal[g]) = q.env
    BY <2>1, PriorIsRow DEF AnswersFromJournal
  <2>4. q.live => AsksFor(q.proc, g)
    BY <1>q, <2>3, <2>g DEF AsksFor
  <2> QED
    BY <1>v, <2>1, <2>2, <2>4, <2>g
<1>10. ASSUME NEW q \in requests, Begin(q) PROVE OneCallEach' /\ AnswersMatchCalls'
  <2>1. /\ Reserve(q.env) \/ Resume(q.env)
        /\ requests' = requests \ {q} /\ UNCHANGED <<flushing, outbox>>
        /\ caller' = IF q.live THEN q.proc ELSE NoProc
    BY <1>10 DEF Begin
  <2>2. running' \in DOMAIN journal' /\ Wire(journal'[running']) = q.env
    BY <2>1, BeginTakesUp
  <2>3. OneCallEach'
    BY <1>q, <1>t, <2>1 DEF CallInv, OneCallEach
  <2>4. \A p \in Proc :
          /\ flushing'[p].state # "idle" => flushing'[p].seq \in DOMAIN outbox'[Home[p]]
          /\ flushing'[p].state = "answered" /\ flushing'[p].gseq # 0 => AsksFor(p, flushing[p].gseq)'
    BY <1>k, <1>t, <2>1 DEF CallInv, AnswersMatchCalls, AsksFor
  <2>5. caller' # NoProc => flushing'[caller'].state = "waiting" /\ AsksFor(caller, running)'
    BY <1>q, <2>1, <2>2 DEF AsksFor
  <2> QED
    BY <2>3, <2>4, <2>5 DEF AnswersMatchCalls
<1>11. CASE Run \/ HubWrite
  BY <1>11, <1>s DEF Run, RunOp, HubWrite, JournalLocal, uplinkVars
\* Finish and Crash answer the caller of the row in hand.
<1>12. ASSUME NEW err, NEW g \in {0, running}, Reply(caller # NoProc, caller, g, err),
              requests' = requests, caller' = NoProc
       PROVE  OneCallEach' /\ AnswersMatchCalls'
  <2>1. caller # NoProc =>
          /\ caller \in Proc /\ flushing[caller].state = "waiting" /\ AsksFor(caller, running)
          /\ \A r \in requests : r.live => r.proc # caller
    BY <1>t DEF CallInv, OneCallEach, AnswersMatchCalls
  <2> DEFINE isLive == caller # NoProc
  <2>2. g \in Nat /\ (g = 0 \/ g = running)
    BY <1>12 DEF TypeOK, HubTypeOK
  <2>3. isLive => /\ caller \in Proc /\ flushing[caller].state = "waiting"
                  /\ g # 0 => AsksFor(caller, g)
    BY <2>1, <2>2
  <2>4. requests' \subseteq requests /\ \A r \in requests' : r.live /\ isLive => r.proc # caller
    BY <1>12, <2>1
  <2>5. isLive => caller' # caller
    BY <1>12
  <2>6. isLive \in BOOLEAN /\ Reply(isLive, caller, g, err)
    BY <1>12
  <2> HIDE DEF isLive
  <2> QED
    BY <1>12, <1>r, <2>2, <2>3, <2>4, <2>5, <2>6, Zenon
<1>13. CASE Finish
  BY <1>12, <1>13 DEF Finish
<1>14. CASE Crash
  BY <1>12, <1>14 DEF Crash
<1>15. CASE UNCHANGED vars
  BY <1>15, <1>s DEF vars, hubVars, uplinkVars
<1>16. CASE SatelliteStep
  BY <1>16, <1>2, <1>3, <1>4, <1>5, <1>6 DEF SatelliteStep
<1>17. CASE HubStep
  BY <1>17, <1>7, <1>8, <1>9, <1>10, <1>11, <1>13, <1>14 DEF HubStep
<1> QED
  BY <1>1, <1>15, <1>16, <1>17 DEF UplinkNext

-----------------------------------------------------------------------------
(* The invariant that ties journal, requests and calls to the outboxes.    *)

(* It is inductive, given the types.                                       *)
LEMMA CallInvStep ==
  ASSUME TypeOK, TypeOK', CallInv, [UplinkNext]_vars
  PROVE  CallInv'
<1>1. JournalIsQueued'
  BY JournalIsQueuedStep DEF CallInv
<1>2. OutboxIsOwn'
  BY OutboxGrowsStep DEF CallInv
<1>3. RequestsAreQueued'
  BY RequestsAreQueuedStep DEF CallInv
<1> QED
  BY <1>1, <1>2, <1>3, CallsStep DEF CallInv

(* It holds when nothing was queued, sent or journaled yet.                *)
LEMMA CallInvInit == UplinkInit => CallInv
<1> SUFFICES ASSUME UplinkInit PROVE CallInv
  OBVIOUS
<1> USE HomeAssumption, NoneAssumption
<1>1. /\ DOMAIN journal = {} /\ requests = {} /\ caller = NoProc
      /\ \A m \in Machine : DOMAIN outbox[m] = {}
      /\ \A p \in Proc : flushing[p] = Idle
  BY DEF UplinkInit, HubInit
<1>i. Idle.state = "idle"
  BY DEF Idle
<1>2. JournalIsQueued /\ OutboxIsOwn
  BY <1>1 DEF JournalIsQueued, OutboxIsOwn
<1>3. RequestsAreQueued /\ OneCallEach
  BY <1>1 DEF RequestsAreQueued, OneCallEach
<1>4. AnswersMatchCalls
  BY <1>1, <1>i DEF AnswersMatchCalls
<1> QED
  BY <1>2, <1>3, <1>4 DEF CallInv

LEMMA CallInvCorrect == UplinkSpec => []CallInv
<1>1. TypeOK /\ TypeOK' /\ CallInv /\ [UplinkNext]_vars => CallInv'
  BY CallInvStep
<1> QED
  BY <1>1, CallInvInit, UplinkTypeCorrect, PTL DEF UplinkSpec

(* remote-client.js:126-145: no answer is ever booked by a caller that     *)
(* asked for another row.                                                  *)
THEOREM AnswersCorrect == UplinkSpec => []AnswersMatchCalls
<1>1. CallInv => AnswersMatchCalls
  BY DEF CallInv
<1> QED
  BY <1>1, CallInvCorrect, PTL

-----------------------------------------------------------------------------
(* Sent rows.                                                              *)

(* Only an acknowledged answer marks a row sent, and only the row its      *)
(* caller posted.                                                          *)
LEMMA SentStep ==
  ASSUME TypeOK, [UplinkNext]_vars, NEW m \in Machine, NEW k \in DOMAIN outbox'[m],
         outbox'[m][k].gseq # 0
  PROVE  \/ k \in DOMAIN outbox[m] /\ outbox'[m][k].gseq = outbox[m][k].gseq
         \/ \E p \in Proc :
              /\ Home[p] = m /\ flushing[p].seq = k
              /\ flushing[p].state = "answered" /\ flushing[p].gseq # 0
              /\ outbox'[m][k].gseq = flushing[p].gseq
<1> DEFINE Kept == k \in DOMAIN outbox[m] /\ outbox'[m][k].gseq = outbox[m][k].gseq
<1>0. \A n \in Machine : outbox[n] \in Seq(OutboxRow)
  BY DEF TypeOK
<1>1. CASE UNCHANGED outbox
  BY <1>1
<1>2. ASSUME NEW n \in Machine, NEW op \in Op, QueueWrite(n, op) PROVE Kept
  <2> DEFINE box == outbox[n]
             row == [dev |-> config[n], seq |-> Len(box) + 1, event |-> <<n, Len(box) + 1>>,
                     op |-> op, gseq |-> 0, pruned |-> FALSE]
  <2>1. config[n] \in Device /\ Len(box) \in Nat
    BY <1>0, <1>2 DEF TypeOK, QueueWrite
  <2>2. row \in OutboxRow /\ row.gseq = 0
    BY <2>1, MachineAssumption DEF OutboxRow, Event
  <2>3. outbox' = [outbox EXCEPT ![n] = Append(box, row)]
    BY <1>2 DEF QueueWrite
  <2> HIDE DEF row
  <2>4. /\ DOMAIN Append(box, row) = 1 .. Len(box) + 1
        /\ DOMAIN box = 1 .. Len(box)
        /\ \A j \in DOMAIN box : Append(box, row)[j] = box[j]
        /\ Append(box, row)[Len(box) + 1] = row
    BY <1>0, <2>2, AppendProperties
  <2>5. outbox'[n] = Append(box, row) /\ (m # n => outbox'[m] = outbox[m])
    BY <2>3 DEF TypeOK
  <2> QED
    BY <2>1, <2>2, <2>4, <2>5
<1>3. ASSUME NEW p \in Proc, FlushAcked(p)
      PROVE  \/ Kept
             \/ /\ Home[p] = m /\ flushing[p].seq = k
                /\ flushing[p].state = "answered" /\ flushing[p].gseq # 0
                /\ outbox'[m][k].gseq = flushing[p].gseq
  <2> DEFINE box == Acked(p)
  <2>0. Home[p] \in Machine /\ flushing[p].gseq \in Nat
    BY HomeAssumption DEF TypeOK, Call
  <2>1. /\ box \in Seq(OutboxRow)
        /\ DOMAIN box = DOMAIN outbox[Home[p]]
        /\ \A j \in DOMAIN box :
             /\ j # flushing[p].seq => box[j] = outbox[Home[p]][j]
             /\ j = flushing[p].seq => box[j].gseq = flushing[p].gseq
    BY <2>0, AckedBox
  <2>2. /\ DOMAIN Prune(box) = DOMAIN box
        /\ \A j \in DOMAIN box : Prune(box)[j].gseq = box[j].gseq
    BY <2>1, PrunedBox
  <2>3. PICK new \in {box, Prune(box)} : outbox' = [outbox EXCEPT ![Home[p]] = new]
    BY <1>3 DEF FlushAcked
  <2>4. m # Home[p] => outbox'[m] = outbox[m]
    BY <2>3 DEF TypeOK
  <2>5. m = Home[p] => DOMAIN outbox'[m] = DOMAIN box /\ outbox'[m][k].gseq = box[k].gseq
    BY <2>0, <2>2, <2>3 DEF TypeOK
  <2>6. flushing[p].state = "answered" /\ flushing[p].gseq # 0
    BY <1>3 DEF FlushAcked
  <2> QED
    BY <2>1, <2>4, <2>5, <2>6
<1>4. CASE OperatorStep
  BY <1>1, <1>4
  DEF OperatorStep, Pair, Revoke, ConnectWithCode, ConnectByHand, Adopt, Disconnect, Upgrade,
      uplinkVars
<1>5. CASE SatelliteStep
  BY <1>1, <1>2, <1>3, <1>5 DEF SatelliteStep, StartFlush, FlushBlocked, LoseCall
<1>6. CASE HubStep
  BY <1>1, <1>6
  DEF HubStep, TurnAway, Refuse, AnswerReplay, Begin, Run, Finish, Crash, HubWrite, uplinkVars
<1>7. CASE UNCHANGED vars
  BY <1>1, <1>7 DEF vars, uplinkVars
<1> QED
  BY <1>4, <1>5, <1>6, <1>7 DEF UplinkNext

(* remote-client.js:119-145: a row marked sent names the journal row of    *)
(* that very event.                                                        *)
THEOREM SentIsJournaledCorrect == UplinkSpec => []SentIsJournaled
<1>1. UplinkInit => SentIsJournaled
  <2>1. UplinkInit => \A m \in Machine : DOMAIN outbox[m] = {}
    BY DEF UplinkInit
  <2> QED
    BY <2>1 DEF SentIsJournaled
<1>2. TypeOK /\ CallInv /\ SentIsJournaled /\ [UplinkNext]_vars => SentIsJournaled'
  <2> SUFFICES ASSUME TypeOK, CallInv, SentIsJournaled, [UplinkNext]_vars,
                      NEW m \in Machine, NEW k \in DOMAIN outbox'[m], outbox'[m][k].gseq # 0
               PROVE  /\ outbox'[m][k].gseq \in DOMAIN journal'
                      /\ Wire(journal'[outbox'[m][k].gseq]) = Wire(outbox'[m][k])
    BY DEF SentIsJournaled
  <2>1. JournalGrows /\ OutboxGrows
    BY JournalGrowsStep, OutboxGrowsStep DEF CallInv
  <2>2. CASE k \in DOMAIN outbox[m] /\ outbox'[m][k].gseq = outbox[m][k].gseq
    BY <2>1, <2>2 DEF SentIsJournaled, JournalGrows, OutboxGrows
  <2>3. ASSUME NEW p \in Proc, Home[p] = m, flushing[p].seq = k,
               flushing[p].state = "answered", flushing[p].gseq # 0,
               outbox'[m][k].gseq = flushing[p].gseq
        PROVE  /\ outbox'[m][k].gseq \in DOMAIN journal'
               /\ Wire(journal'[outbox'[m][k].gseq]) = Wire(outbox'[m][k])
    <3>1. k \in DOMAIN outbox[m] /\ AsksFor(p, flushing[p].gseq)
      BY <2>3 DEF CallInv, AnswersMatchCalls
    <3> QED
      BY <2>1, <2>3, <3>1 DEF AsksFor, JournalGrows, OutboxGrows
  <2> QED
    BY <2>2, <2>3, SentStep
<1> QED
  BY <1>1, <1>2, UplinkTypeCorrect, CallInvCorrect, PTL DEF UplinkSpec

=============================================================================
