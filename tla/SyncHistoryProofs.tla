------------------------- MODULE SyncHistoryProofs -------------------------
(***************************************************************************)
(* What the uplink keeps of the devices' histories, for every instance:    *)
(* rows are sent in their order, are never rewritten, the hub and the      *)
(* devices never disagree, and together they implement SharedLog.          *)
(***************************************************************************)
EXTENDS SyncUplinkProofs

-----------------------------------------------------------------------------
(* How one step may change the outboxes and the calls.                     *)

SameOutbox ==
  \A m \in Machine :
    /\ DOMAIN outbox'[m] = DOMAIN outbox[m]
    /\ \A k \in DOMAIN outbox[m] : /\ Wire(outbox'[m][k]) = Wire(outbox[m][k])
                                   /\ outbox[m][k].gseq # 0 => outbox'[m][k].gseq # 0

\* Machine m queues one more row r.
Queues(m, r) ==
  /\ config[m] \in Device
  /\ r.dev = config[m] /\ r.seq = Len(outbox[m]) + 1 /\ r.gseq = 0
  /\ DOMAIN outbox'[m] = 1 .. Len(outbox[m]) + 1
  /\ outbox'[m][Len(outbox[m]) + 1] = r
  /\ \A k \in DOMAIN outbox[m] : outbox'[m][k] = outbox[m][k]
  /\ \A n \in Machine \ {m} : outbox'[n] = outbox[n]
  /\ UNCHANGED <<hubVars, config, flushing, requests, caller, losses>>

(* An outbox grows at its end, and a sent row stays sent.                  *)
LEMMA OutboxStep ==
  ASSUME TypeOK, [UplinkNext]_vars
  PROVE  SameOutbox \/ \E m \in Machine : \E r \in OutboxRow : Queues(m, r)
<1>0. \A m \in Machine : outbox[m] \in Seq(OutboxRow)
  BY DEF TypeOK
<1>1. CASE UNCHANGED outbox
  BY <1>1 DEF SameOutbox
<1>2. ASSUME NEW m \in Machine, NEW op \in Op, QueueWrite(m, op)
      PROVE  \E r \in OutboxRow : Queues(m, r)
  <2> DEFINE box == outbox[m]
             row == [dev |-> config[m], seq |-> Len(box) + 1, event |-> <<m, Len(box) + 1>>,
                     op |-> op, gseq |-> 0, pruned |-> FALSE]
  <2>1. config[m] \in Device /\ Len(box) \in Nat
    BY <1>0, <1>2 DEF TypeOK, QueueWrite
  <2>2. row \in OutboxRow /\ row.dev = config[m] /\ row.seq = Len(box) + 1 /\ row.gseq = 0
    BY <2>1, MachineAssumption DEF OutboxRow, Event
  <2>3. outbox' = [outbox EXCEPT ![m] = Append(box, row)]
    BY <1>2 DEF QueueWrite
  <2> HIDE DEF row
  <2>4. /\ DOMAIN Append(box, row) = 1 .. Len(box) + 1
        /\ \A k \in DOMAIN box : Append(box, row)[k] = box[k]
        /\ Append(box, row)[Len(box) + 1] = row
    BY <1>0, <2>2, AppendProperties
  <2>5. outbox'[m] = Append(box, row) /\ \A n \in Machine \ {m} : outbox'[n] = outbox[n]
    BY <2>3 DEF TypeOK
  <2>6. Queues(m, row)
    BY <1>2, <2>1, <2>2, <2>4, <2>5 DEF Queues, QueueWrite
  <2> QED
    BY <2>2, <2>6
<1>3. ASSUME NEW p \in Proc, FlushAcked(p) PROVE SameOutbox
  <2> DEFINE m == Home[p]
             box == Acked(p)
  <2>0. m \in Machine /\ flushing[p].gseq \in Nat /\ flushing[p].gseq # 0
    BY <1>3, HomeAssumption DEF TypeOK, Call, FlushAcked
  <2>1. /\ box \in Seq(OutboxRow)
        /\ DOMAIN box = DOMAIN outbox[m]
        /\ \A k \in DOMAIN outbox[m] :
             /\ Wire(box[k]) = Wire(outbox[m][k])
             /\ outbox[m][k].gseq # 0 => box[k].gseq # 0
    BY <2>0, AckedBox
  <2>2. /\ DOMAIN Prune(box) = DOMAIN outbox[m]
        /\ \A k \in DOMAIN outbox[m] : /\ Wire(Prune(box)[k]) = Wire(box[k])
                                       /\ Prune(box)[k].gseq = box[k].gseq
    BY <2>1, PrunedBox
  <2>3. PICK new \in {box, Prune(box)} : outbox' = [outbox EXCEPT ![m] = new]
    BY <1>3 DEF FlushAcked
  <2>4. outbox'[m] = new /\ \A n \in Machine : n # m => outbox'[n] = outbox[n]
    BY <2>0, <2>3 DEF TypeOK
  <2>5. /\ DOMAIN new = DOMAIN outbox[m]
        /\ \A k \in DOMAIN outbox[m] : /\ Wire(new[k]) = Wire(outbox[m][k])
                                       /\ outbox[m][k].gseq # 0 => new[k].gseq # 0
    BY <2>1, <2>2, <2>3
  <2> QED
    BY <2>4, <2>5 DEF SameOutbox
<1>4. CASE OperatorStep
  BY <1>1, <1>4
  DEF OperatorStep, Pair, Revoke, ConnectWithCode, ConnectByHand, Adopt, Disconnect, Upgrade,
      uplinkVars
<1>5. CASE SatelliteStep
  BY <1>1, <1>2, <1>3, <1>5 DEF SatelliteStep, StartFlush, FlushBlocked, LoseCall
<1>6. CASE HubStep
  BY <1>1, <1>6
  DEF HubStep, TurnAway, Refuse, AnswerReplay, Begin, Run, Finish, Crash, HubWrite, uplinkVars
<1>7. CASE UNCHANGED vars
  BY <1>1, <1>7 DEF vars, uplinkVars
<1> QED
  BY <1>4, <1>5, <1>6, <1>7 DEF UplinkNext

(* A call is kept, or its process posts the oldest row it has not sent.    *)
LEMMA PostStep ==
  ASSUME TypeOK, CallInv, [UplinkNext]_vars, NEW p \in Proc, flushing'[p].state # "idle"
  PROVE  \/ flushing[p].state # "idle" /\ flushing'[p].seq = flushing[p].seq
         \/ IsOldest(flushing'[p].seq, outbox'[Home[p]])
<1> USE HomeAssumption, NoneAssumption
<1> DEFINE Kept == flushing[p].state # "idle" /\ flushing'[p].seq = flushing[p].seq
           Oldest == IsOldest(flushing'[p].seq, outbox'[Home[p]])
<1>t. /\ flushing \in [Proc -> Call]
      /\ flushing' = flushing => Kept
      /\ \A q \in requests : q.proc \in Proc /\ q.live \in BOOLEAN
  BY DEF TypeOK, Request
<1>i. Idle.state = "idle"
  BY DEF Idle
<1>1. ASSUME NEW r, flushing' = [flushing EXCEPT ![r] = Idle] PROVE Kept
  BY <1>1, <1>t, <1>i
<1>2. ASSUME NEW isLive \in BOOLEAN, NEW r, NEW g, NEW err, Reply(isLive, r, g, err),
             isLive => r \in Proc /\ flushing[r].state # "idle"
      PROVE  Kept
  BY <1>2, <1>t DEF Reply, Call
<1>3. ASSUME NEW r \in Proc, NEW tok, NEW k, flushing' = [flushing EXCEPT ![r] = Waiting(tok, k)],
             IsOldest(k, outbox'[Home[r]])
      PROVE  Kept \/ Oldest
  BY <1>3, <1>t DEF Waiting
<1> HIDE DEF Kept, Oldest
<1>4. ASSUME NEW r \in Proc, StartFlush(r) PROVE Kept \/ Oldest
  BY <1>3, <1>4 DEF StartFlush
<1>5. ASSUME NEW r \in Proc, FlushAcked(r) PROVE Kept \/ Oldest
  <2> DEFINE box == Acked(r)
             m == Home[r]
             tok == flushing[r].tok
  <2>1. CASE flushing' = [flushing EXCEPT ![r] = Idle]
    BY <1>1, <2>1
  <2>2. ASSUME NEW k \in DOMAIN box, IsOldest(k, box), outbox' = [outbox EXCEPT ![m] = box],
               flushing' = [flushing EXCEPT ![r] = Waiting(tok, k)]
        PROVE  Kept \/ Oldest
    <3>1. outbox'[m] = box
      BY <2>2 DEF TypeOK
    <3> QED
      BY <1>3, <2>2, <3>1
  <2> QED
    BY <1>5, <2>1, <2>2 DEF FlushAcked
<1>6. ASSUME OperatorStep PROVE Kept \/ Oldest
  BY <1>6, <1>t
  DEF OperatorStep, Pair, Revoke, ConnectWithCode, ConnectByHand, Adopt, Disconnect, Upgrade,
      uplinkVars
<1>7. ASSUME SatelliteStep PROVE Kept \/ Oldest
  BY <1>t, <1>1, <1>4, <1>5, <1>7 DEF SatelliteStep, QueueWrite, FlushBlocked, LoseCall
<1>r. ASSUME NEW q \in requests, NEW g, NEW err, Reply(q.live, q.proc, g, err) PROVE Kept
  <2>1. q.live => q.proc \in Proc /\ flushing[q.proc].state # "idle"
    BY <1>t DEF CallInv, OneCallEach
  <2> QED
    BY <1>2, <1>r, <1>t, <2>1
<1>c. ASSUME NEW g, NEW err, Reply(caller # NoProc, caller, g, err) PROVE Kept
  <2> DEFINE isLive == caller # NoProc
  <2>1. isLive \in BOOLEAN /\ (isLive => caller \in Proc /\ flushing[caller].state # "idle")
    BY DEF TypeOK, CallInv, AnswersMatchCalls
  <2>2. Reply(isLive, caller, g, err)
    BY <1>c
  <2> HIDE DEF isLive
  <2> QED
    BY <1>2, <2>1, <2>2
<1>8. ASSUME HubStep PROVE Kept \/ Oldest
  BY <1>8, <1>t, <1>r, <1>c
  DEF HubStep, TurnAway, Refuse, AnswerReplay, Begin, Run, Finish, Crash, HubWrite, uplinkVars
<1>9. ASSUME UNCHANGED vars PROVE Kept \/ Oldest
  BY <1>t, <1>9 DEF vars, uplinkVars
<1> QED
  BY <1>6, <1>7, <1>8, <1>9 DEF UplinkNext, Kept, Oldest

-----------------------------------------------------------------------------
(* Rows are sent in their order.                                           *)

\* What a process has posted has only sent rows before it.
PostedInOrder ==
  \A p \in Proc : flushing[p].state # "idle" =>
    \A j \in DOMAIN outbox[Home[p]] : j < flushing[p].seq => outbox[Home[p]][j].gseq # 0

(* A row before one that is sent, or before a posted one, has been sent.   *)
LEMMA OrderStep ==
  ASSUME TypeOK, TypeOK', CallInv, SentInOrder, PostedInOrder, [UplinkNext]_vars
  PROVE  SentInOrder' /\ PostedInOrder'
<1> USE HomeAssumption
<1>0. \A m \in Machine : /\ DOMAIN outbox[m] = 1 .. Len(outbox[m]) /\ Len(outbox[m]) \in Nat
                         /\ DOMAIN outbox'[m] = 1 .. Len(outbox'[m]) /\ Len(outbox'[m]) \in Nat
  BY DEF TypeOK
<1>1. ASSUME NEW m \in Machine, NEW k \in DOMAIN outbox[m], outbox[m][k].gseq # 0
      PROVE  k \in DOMAIN outbox'[m] /\ outbox'[m][k].gseq # 0
  <2>1. CASE SameOutbox
    BY <1>1, <2>1 DEF SameOutbox
  <2>2. ASSUME NEW n \in Machine, NEW r \in OutboxRow, Queues(n, r)
        PROVE  k \in DOMAIN outbox'[m] /\ outbox'[m][k].gseq # 0
    BY <1>0, <1>1, <2>2 DEF Queues
  <2> QED
    BY <2>1, <2>2, OutboxStep
<1>2. SentInOrder'
  <2> SUFFICES ASSUME NEW m \in Machine, NEW j \in DOMAIN outbox'[m], NEW k \in DOMAIN outbox'[m],
                      j < k, outbox'[m][k].gseq # 0
               PROVE  outbox'[m][j].gseq # 0
    BY DEF SentInOrder
  <2>1. CASE k \in DOMAIN outbox[m] /\ outbox'[m][k].gseq = outbox[m][k].gseq
    <3>1. j \in DOMAIN outbox[m]
      BY <1>0, <2>1
    <3> QED
      BY <1>1, <2>1, <3>1 DEF SentInOrder
  <2>2. ASSUME NEW p \in Proc, Home[p] = m, flushing[p].seq = k, flushing[p].state = "answered"
        PROVE  outbox'[m][j].gseq # 0
    <3>1. k \in DOMAIN outbox[m]
      BY <2>2 DEF CallInv, AnswersMatchCalls
    <3>2. j \in DOMAIN outbox[m]
      BY <1>0, <3>1
    <3> QED
      BY <1>1, <2>2, <3>2 DEF PostedInOrder
  <2> QED
    BY <2>1, <2>2, SentStep
<1>3. PostedInOrder'
  <2> SUFFICES ASSUME NEW p \in Proc, flushing'[p].state # "idle",
                      NEW j \in DOMAIN outbox'[Home[p]], j < flushing'[p].seq
               PROVE  outbox'[Home[p]][j].gseq # 0
    BY DEF PostedInOrder
  <2>1. CASE flushing[p].state # "idle" /\ flushing'[p].seq = flushing[p].seq
    <3>1. flushing[p].seq \in DOMAIN outbox[Home[p]]
      BY <2>1 DEF CallInv, AnswersMatchCalls
    <3>2. j \in DOMAIN outbox[Home[p]]
      BY <1>0, <2>1, <3>1
    <3> QED
      BY <1>1, <2>1, <3>2 DEF PostedInOrder
  <2>2. CASE IsOldest(flushing'[p].seq, outbox'[Home[p]])
    <3> DEFINE box == outbox'[Home[p]]
               k == flushing'[p].seq
    <3>1. IsOldest(k, box) /\ j \in DOMAIN box /\ j < k /\ DOMAIN box \subseteq Nat
      BY <1>0, <2>2
    <3> HIDE DEF box, k
    <3>2. box[j].gseq # 0
      BY <3>1 DEF IsOldest, Unsent
    <3> QED
      BY <3>2 DEF box
  <2> QED
    BY <2>1, <2>2, PostStep
<1> QED
  BY <1>2, <1>3

(* remote-client.js:119-121 (SentInOrder): with any number of flushers,    *)
(* resends and lost answers no row is sent before an older one.            *)
THEOREM SentInOrderCorrect == UplinkSpec => []SentInOrder
<1>1. UplinkInit => SentInOrder /\ PostedInOrder
  <2>1. UplinkInit => /\ \A m \in Machine : DOMAIN outbox[m] = {}
                      /\ \A p \in Proc : flushing[p] = Idle
    BY DEF UplinkInit
  <2>2. Idle.state = "idle"
    BY DEF Idle
  <2> QED
    BY <2>1, <2>2, HomeAssumption DEF SentInOrder, PostedInOrder
<1>2. TypeOK /\ TypeOK' /\ CallInv /\ (SentInOrder /\ PostedInOrder) /\ [UplinkNext]_vars
        => (SentInOrder /\ PostedInOrder)'
  BY OrderStep
<1> QED
  BY <1>1, <1>2, UplinkTypeCorrect, CallInvCorrect, PTL DEF UplinkSpec

-----------------------------------------------------------------------------
(* The hub's history.                                                      *)

\* The row in hand has no outcome yet.
InHandIsOpen == running # 0 => running \in DOMAIN journal /\ journal[running].outcome = "null"

HistoryKept ==
  /\ \A g \in DOMAIN journal :
       /\ g \in DOMAIN journal'
       /\ Wire(journal'[g]) = Wire(journal[g])
       /\ journal[g].outcome # "null" => journal'[g].outcome = journal[g].outcome
  /\ running' # running /\ running' # 0 => journal'[running'].outcome = "null"

\* What a step of the hub may do to rows and outcomes.
Outcomes ==
  /\ InHandIsOpen'
  /\ HistoryKept
  /\ OpenOnlyInHand => OpenOnlyInHand'

(* No recorded outcome changes, and no op is taken up for a row with one.  *)
LEMMA OutcomeStep ==
  ASSUME TypeOK, TypeOK', InHandIsOpen, [UplinkNext]_vars
  PROVE  Outcomes
<1>0. /\ journal \in Seq(Row) /\ DOMAIN journal = 1 .. Len(journal) /\ Len(journal) \in Nat
      /\ running \in Nat /\ losses \in Nat /\ losses' \in Nat
  BY DEF TypeOK, HubTypeOK
<1>s. ASSUME UNCHANGED <<journal, running>>, losses' = 0 => losses = 0 PROVE Outcomes
  BY <1>s DEF Outcomes, InHandIsOpen, HistoryKept, OpenOnlyInHand
<1>l. ASSUME losses' = losses \/ Lose PROVE losses' = 0 => losses = 0
  BY <1>0, <1>l DEF Lose
\* A row is appended; it is the one in hand, or it has its outcome.
<1>a. ASSUME NEW row \in Row, journal' = Append(journal, row),
             \/ running = 0 /\ running' = Len(journal) + 1 /\ row.outcome = "null"
             \/ running' = running /\ row.outcome = "ok",
             losses' = losses
      PROVE  Outcomes
  <2>1. /\ DOMAIN journal' = 1 .. Len(journal) + 1
        /\ \A g \in DOMAIN journal : journal'[g] = journal[g]
        /\ journal'[Len(journal) + 1] = row
    BY <1>0, <1>a, AppendProperties
  <2>2. InHandIsOpen'
    BY <1>0, <1>a, <2>1 DEF InHandIsOpen
  <2>3. HistoryKept
    BY <1>0, <1>a, <2>1 DEF HistoryKept
  <2>4. OpenOnlyInHand => OpenOnlyInHand'
    BY <1>0, <1>a, <2>1 DEF OpenOnlyInHand
  <2> QED
    BY <2>2, <2>3, <2>4 DEF Outcomes
<1>1. ASSUME NEW q \in requests, Begin(q) PROVE Outcomes
  <2>0. losses' = losses /\ q.env \in Envelope
    BY <1>1 DEF Begin, TypeOK, Request
  <2>1. CASE Reserve(q.env)
    <3>1. Reserved(q.env) \in Row /\ Reserved(q.env).outcome = "null"
      BY <2>0 DEF Reserved, Row, Envelope, Outcome
    <3> QED
      BY <1>a, <2>0, <2>1, <3>1 DEF Reserve
  <2>2. CASE Resume(q.env)
    <3>1. /\ UNCHANGED journal /\ running = 0
          /\ running' \in DOMAIN journal /\ journal[running'].outcome = "null"
      BY <2>2 DEF Resume, Prior, Rows
    <3> QED
      BY <1>0, <2>0, <3>1 DEF Outcomes, InHandIsOpen, HistoryKept, OpenOnlyInHand
  <2> QED
    BY <1>1, <2>1, <2>2 DEF Begin
<1>2. CASE HubWrite
  <2> DEFINE row == [dev |-> HubId, seq |-> hubSeq + 1, event |-> <<HubId, hubSeq + 1>>,
                     op |-> 1, outcome |-> "ok"]
  <2>n. hubSeq + 1 \in Nat
    BY DEF TypeOK, HubTypeOK
  <2>o. 1 \in Op /\ HubId \in Writer
    BY HubIdAssumption, OpAssumption
  <2>1. row \in Row /\ row.outcome = "ok"
    BY <2>n, <2>o DEF Row, Event, Outcome
  <2>2. journal' = Append(journal, row) /\ running' = running /\ losses' = losses
    BY <1>2 DEF HubWrite, JournalLocal, uplinkVars
  <2> HIDE DEF row
  <2> QED
    BY <1>a, <2>1, <2>2
<1>3. CASE Finish
  <2>s. result # "none" /\ running' = 0
    BY <1>3 DEF Finish, StampOutcome
  <2>r. result \in {"ok", "failed"} /\ running # 0 /\ running \in 0 .. Len(journal)
    BY <2>s DEF TypeOK, HubTypeOK
  <2>d. running \in DOMAIN journal
    BY <1>0, <2>r
  <2>0. result # "none" /\ running # 0 /\ running \in DOMAIN journal /\ running' = 0
          /\ result \in {"ok", "failed"} /\ journal[running] \in Row
    BY <1>0, <2>s, <2>r, <2>d
  <2>1. CASE UNCHANGED journal /\ Lose
    BY <1>0, <2>0, <2>1 DEF Outcomes, InHandIsOpen, HistoryKept, OpenOnlyInHand, Lose
  <2>2. CASE journal' = [journal EXCEPT ![running].outcome = result] /\ UNCHANGED losses
    <3>1. /\ DOMAIN journal' = DOMAIN journal
          /\ \A g \in DOMAIN journal : g # running => journal'[g] = journal[g]
          /\ journal'[running] = [journal[running] EXCEPT !.outcome = result]
      BY <2>0, <2>2
    <3>2. Wire(journal'[running]) = Wire(journal[running]) /\ journal'[running].outcome = result
      BY <2>0, <3>1 DEF Wire, Row
    <3>3. journal[running].outcome = "null"
      BY <2>0 DEF InHandIsOpen
    <3>4. HistoryKept
      BY <2>0, <3>1, <3>2, <3>3 DEF HistoryKept
    <3>5. OpenOnlyInHand => OpenOnlyInHand'
      BY <2>0, <2>2, <3>1, <3>2 DEF OpenOnlyInHand
    <3> QED
      BY <2>0, <3>4, <3>5 DEF Outcomes, InHandIsOpen
  <2> QED
    BY <1>3, <2>1, <2>2 DEF Finish, StampOutcome
<1>4. CASE Crash
  BY <1>0, <1>4 DEF Crash, HubCrash, Lose, Outcomes, InHandIsOpen, HistoryKept, OpenOnlyInHand
<1>5. ASSUME NEW q \in requests, NEW err \in RefusalErrors, Refuse(q, err) PROVE Outcomes
  BY <1>0, <1>s, <1>5 DEF Refuse, hubVars
<1>6. CASE OperatorStep
  BY <1>s, <1>6
  DEF OperatorStep, Pair, Revoke, ConnectWithCode, ConnectByHand, Adopt, Disconnect, Upgrade,
      AddDevice, RevokeDevice, UpgradeHub, hubVars, uplinkVars
<1>7. CASE SatelliteStep
  BY <1>s, <1>l, <1>7
  DEF SatelliteStep, QueueWrite, StartFlush, FlushBlocked, FlushAcked, LoseCall, hubVars
<1>8. CASE HubStep
  BY <1>s, <1>1, <1>2, <1>3, <1>4, <1>5, <1>8
  DEF HubStep, TurnAway, AnswerReplay, Run, RunOp, hubVars, uplinkVars
<1>9. CASE UNCHANGED vars
  BY <1>s, <1>9 DEF vars, hubVars, uplinkVars
<1> QED
  BY <1>6, <1>7, <1>8, <1>9 DEF UplinkNext

LEMMA InHandCorrect == UplinkSpec => []InHandIsOpen
<1>1. UplinkInit => InHandIsOpen
  BY DEF UplinkInit, HubInit, InHandIsOpen
<1>2. TypeOK /\ TypeOK' /\ InHandIsOpen /\ [UplinkNext]_vars => InHandIsOpen'
  BY OutcomeStep DEF Outcomes
<1> QED
  BY <1>1, <1>2, UplinkTypeCorrect, PTL DEF UplinkSpec

(* state.js:323 (OpenOnlyInHand): as long as nothing failed, the only row  *)
(* without an outcome is the one the hub has in hand.                      *)
THEOREM OpenOnlyInHandCorrect == UplinkSpec => []OpenOnlyInHand
<1>1. UplinkInit => OpenOnlyInHand
  BY DEF UplinkInit, HubInit, OpenOnlyInHand
<1>2. TypeOK /\ TypeOK' /\ InHandIsOpen /\ OpenOnlyInHand /\ [UplinkNext]_vars => OpenOnlyInHand'
  BY OutcomeStep DEF Outcomes
<1> QED
  BY <1>1, <1>2, UplinkTypeCorrect, InHandCorrect, PTL DEF UplinkSpec

(* hub.js:99-100, 154-157 (HistoryIsFinal): a row and a recorded outcome   *)
(* are never rewritten, and no replay runs the op of a finished row.       *)
THEOREM HistoryIsFinalCorrect == UplinkSpec => HistoryIsFinal
<1>1. TypeOK /\ TypeOK' /\ InHandIsOpen /\ [UplinkNext]_vars => [HistoryKept]_vars
  BY OutcomeStep DEF Outcomes
<1>2. UplinkSpec => [][HistoryKept]_vars
  BY <1>1, UplinkTypeCorrect, InHandCorrect, PTL DEF UplinkSpec
<1> QED
  BY <1>2 DEF HistoryIsFinal, HistoryKept

-----------------------------------------------------------------------------
(* Hub and devices agree about history, because an identity lives on one   *)
(* machine.                                                                *)

OneMachineEach ==
  \A m, n \in Machine : m # n => \A d \in Device : Untouched(m, d) \/ Untouched(n, d)

(* Configurations change by the operator only, and not with the outboxes.  *)
LEMMA ConfigStep ==
  ASSUME [UplinkNext]_vars
  PROVE  \/ UNCHANGED config
         \/ \E m \in Machine, d \in Device : Adopt(m, d)
         \/ \E m \in Machine : Disconnect(m)
<1>1. CASE OperatorStep
  BY <1>1 DEF OperatorStep, Pair, Revoke, ConnectWithCode, ConnectByHand, Upgrade, uplinkVars
<1>2. CASE SatelliteStep
  BY <1>2 DEF SatelliteStep, QueueWrite, StartFlush, FlushBlocked, FlushAcked, LoseCall
<1>3. CASE HubStep
  BY <1>3
  DEF HubStep, TurnAway, Refuse, AnswerReplay, Begin, Run, Finish, Crash, HubWrite, uplinkVars
<1>4. CASE UNCHANGED vars
  BY <1>4 DEF vars, uplinkVars
<1> QED
  BY <1>1, <1>2, <1>3, <1>4 DEF UplinkNext

(* remote-client.js:250-264: a code pasted or typed in goes to one machine.  *)
LEMMA OneMachineStep ==
  ASSUME TypeOK, TypeOK', OneMachineEach, [UplinkNext]_vars
  PROVE  OneMachineEach'
<1> USE NoneAssumption
<1>0. /\ config \in [Machine -> Device \cup {NoDevice}]
      /\ \A m \in Machine : DOMAIN outbox[m] = 1 .. Len(outbox[m]) /\ Len(outbox[m]) \in Nat
  BY DEF TypeOK
<1>1. CASE UNCHANGED config /\ SameOutbox
  <2>1. \A m \in Machine, d \in Device : Untouched(m, d) => Untouched(m, d)'
    BY <1>1 DEF Untouched, SameOutbox, Wire
  <2> QED
    BY <2>1 DEF OneMachineEach
<1>2. ASSUME NEW m \in Machine, NEW r \in OutboxRow, Queues(m, r) PROVE OneMachineEach'
  <2>1. UNCHANGED config /\ \A n \in Machine \ {m} : outbox'[n] = outbox[n]
    BY <1>2 DEF Queues
  <2>2. \A n \in Machine \ {m}, d \in Device : Untouched(n, d) => Untouched(n, d)'
    BY <2>1 DEF Untouched
  <2>3. \A d \in Device : Untouched(m, d) => Untouched(m, d)'
    BY <1>0, <1>2 DEF Untouched, Queues
  <2> QED
    BY <2>2, <2>3 DEF OneMachineEach
<1>3. ASSUME NEW m \in Machine, NEW d \in Device, Adopt(m, d) PROVE OneMachineEach'
  <2>1. /\ \A n \in Machine \ {m} : Untouched(n, d)
        /\ UNCHANGED outbox /\ config'[m] = d /\ \A n \in Machine \ {m} : config'[n] = config[n]
    BY <1>0, <1>3 DEF Adopt
  <2>2. \A n \in Machine \ {m}, c \in Device : Untouched(n, c) => Untouched(n, c)'
    BY <2>1 DEF Untouched
  <2>3. \A c \in Device \ {d} : Untouched(m, c) => Untouched(m, c)'
    BY <2>1 DEF Untouched
  <2> QED
    BY <2>1, <2>2, <2>3 DEF OneMachineEach
<1>4. ASSUME NEW m \in Machine, Disconnect(m) PROVE OneMachineEach'
  <2>1. UNCHANGED outbox /\ config'[m] = NoDevice /\ \A n \in Machine \ {m} : config'[n] = config[n]
    BY <1>0, <1>4 DEF Disconnect
  <2>2. \A n \in Machine, c \in Device : Untouched(n, c) => Untouched(n, c)'
    BY <2>1 DEF Untouched
  <2> QED
    BY <2>2 DEF OneMachineEach
<1> QED
  BY <1>1, <1>2, <1>3, <1>4, OutboxStep, ConfigStep

LEMMA OneMachineCorrect == UplinkSpec => []OneMachineEach
<1>1. UplinkInit => OneMachineEach
  <2>1. UplinkInit => \A m \in Machine : config[m] = NoDevice /\ DOMAIN outbox[m] = {}
    BY DEF UplinkInit
  <2> QED
    BY <2>1, NoneAssumption DEF OneMachineEach, Untouched
<1>2. TypeOK /\ TypeOK' /\ OneMachineEach /\ [UplinkNext]_vars => OneMachineEach'
  BY OneMachineStep
<1> QED
  BY <1>1, <1>2, UplinkTypeCorrect, PTL DEF UplinkSpec

Disagreement == {"watermark_ahead_of_journal", "event_id_mismatch"}

(* A request that is a replay finds its own row in the journal.            *)
LEMMA RefusalsAgree ==
  ASSUME TypeOK, CallInv, WatermarkIsJournal, OneMachineEach,
         NEW q \in requests, NEW err, Refuses(q.env, err)
  PROVE  err \notin Disagreement
<1> DEFINE e == q.env
           m == Home[q.proc]
<1>0. e \in Envelope /\ m \in Machine
  BY HomeAssumption DEF TypeOK, Request
<1>1. e.seq \in DOMAIN outbox[m] /\ e = Wire(outbox[m][e.seq]) /\ outbox[m][e.seq].event = <<m, e.seq>>
  BY <1>0 DEF CallInv, RequestsAreQueued, OutboxIsOwn
<1>2. outbox[m][e.seq].dev = e.dev /\ e.event = <<m, e.seq>> /\ e.dev \in Device
  <2>1. e.dev \in Device
    BY <1>0 DEF Envelope
  <2>2. outbox[m][e.seq].dev = e.dev /\ outbox[m][e.seq].event = e.event
    BY <1>1 DEF Wire
  <2> QED
    BY <1>1, <2>1, <2>2
<1>3. e.seq \in Nat \ {0} /\ devices[e.dev].last \in Nat
  <2>1. DOMAIN outbox[m] = 1 .. Len(outbox[m]) /\ Len(outbox[m]) \in Nat
    BY <1>0 DEF TypeOK
  <2>2. devices[e.dev].last \in Nat
    BY <1>2 DEF TypeOK, HubTypeOK
  <2> QED
    BY <1>1, <2>1, <2>2
<1> HIDE DEF e
<1>4. ASSUME IsReplay(e) PROVE Rows(e.dev, e.seq) # {}
  <2>1. e.seq \in 1 .. devices[e.dev].last
    BY <1>3, <1>4 DEF IsReplay
  <2>2. e.seq \in {journal[g].seq : g \in {h \in DOMAIN journal : journal[h].dev = e.dev}}
    BY <1>2, <2>1 DEF WatermarkIsJournal
  <2> QED
    BY <2>2 DEF Rows
<1>5. ASSUME NEW g \in Rows(e.dev, e.seq) PROVE g \in Prior(e)
  <2>1. g \in DOMAIN journal /\ journal[g].dev = e.dev /\ journal[g].seq = e.seq
    BY <1>5 DEF Rows
  <2>2. PICK n \in Machine : \E k \in DOMAIN outbox[n] :
          journal[g].event = <<n, k>> /\ Wire(journal[g]) = Wire(outbox[n][k])
    BY <1>2, <2>1 DEF CallInv, JournalIsQueued
  <2>3. PICK k \in DOMAIN outbox[n] :
          journal[g].event = <<n, k>> /\ Wire(journal[g]) = Wire(outbox[n][k])
    BY <2>2
  <2>4. outbox[n][k].dev = e.dev /\ outbox[n][k].seq = e.seq
    BY <2>1, <2>3 DEF Wire
  <2>5. k = e.seq
    BY <2>4 DEF TypeOK
  <2>6. n = m
    BY <1>0, <1>1, <1>2, <2>4 DEF OneMachineEach, Untouched
  <2>7. journal[g].event = e.event
    BY <1>2, <2>3, <2>5, <2>6
  <2> QED
    BY <1>5, <2>7 DEF Prior
<1>6. Refuses(e, err)
  BY DEF e
<1> QED
  BY <1>4, <1>5, <1>6 DEF Refuses, Disagreement

LEMMA AgreeStep ==
  ASSUME TypeOK, CallInv, WatermarkIsJournal, OneMachineEach, HistoriesAgree, [UplinkNext]_vars
  PROVE  HistoriesAgree'
<1>t. flushing \in [Proc -> Call] /\ \A p \in Proc : flushing[p].error \notin Disagreement
  BY DEF TypeOK, HistoriesAgree, Disagreement
<1>g. (\A p \in Proc : flushing'[p].error \notin Disagreement) => HistoriesAgree'
  BY DEF HistoriesAgree, Disagreement
<1>s. ASSUME UNCHANGED flushing PROVE HistoriesAgree'
  BY <1>s, <1>t, <1>g
<1>w. ASSUME NEW p, NEW new, new.error = "", flushing' = [flushing EXCEPT ![p] = new]
      PROVE  HistoriesAgree'
  BY <1>w, <1>t, <1>g DEF Disagreement
<1>r. ASSUME NEW isLive, NEW p, NEW g, NEW err, err \notin Disagreement, Reply(isLive, p, g, err)
      PROVE  HistoriesAgree'
  BY <1>r, <1>t, <1>g DEF Reply, Call
<1>e. Idle.error = "" /\ \A tok, k : Waiting(tok, k).error = ""
  BY DEF Idle, Waiting
<1>n. /\ "unknown_device" \notin Disagreement /\ "device_id_mismatch" \notin Disagreement
      /\ "" \notin Disagreement /\ "transport_error" \notin Disagreement
  BY DEF Disagreement
<1>1. CASE OperatorStep
  BY <1>s, <1>1
  DEF OperatorStep, Pair, Revoke, ConnectWithCode, ConnectByHand, Adopt, Disconnect, Upgrade,
      uplinkVars
<1>2. CASE SatelliteStep
  <2>1. ASSUME NEW p \in Proc, FlushBlocked(p) \/ LoseCall(p) PROVE HistoriesAgree'
    BY <1>w, <1>e, <2>1 DEF FlushBlocked, LoseCall
  <2>2. ASSUME NEW p \in Proc, StartFlush(p) PROVE HistoriesAgree'
    <3>1. PICK k : flushing' = [flushing EXCEPT ![p] = Waiting(config[Home[p]], k)]
      BY <2>2 DEF StartFlush
    <3> QED
      BY <1>w, <1>e, <3>1
  <2>3. ASSUME NEW p \in Proc, FlushAcked(p) PROVE HistoriesAgree'
    <3>1. PICK new : new.error = "" /\ flushing' = [flushing EXCEPT ![p] = new]
      BY <1>e, <2>3 DEF FlushAcked
    <3> QED
      BY <1>w, <3>1
  <2> QED
    BY <1>2, <1>s, <2>1, <2>2, <2>3 DEF SatelliteStep, QueueWrite
<1>3. ASSUME NEW q \in requests, NEW err \in RefusalErrors, Refuse(q, err) PROVE HistoriesAgree'
  BY <1>r, <1>3, RefusalsAgree DEF Refuse
<1>4. CASE HubStep
  BY <1>s, <1>r, <1>n, <1>3, <1>4
  DEF HubStep, TurnAway, AnswerReplay, Begin, Run, Finish, Crash, HubWrite, uplinkVars
<1>5. CASE UNCHANGED vars
  BY <1>s, <1>5 DEF vars, uplinkVars
<1> QED
  BY <1>1, <1>2, <1>4, <1>5 DEF UplinkNext

(* hub.js:73-74 (HistoriesAgree): a satellite is never told that its       *)
(* numbers or its events are not the hub's.                                *)
THEOREM HistoriesAgreeCorrect == UplinkSpec => []HistoriesAgree
<1>1. UplinkInit => HistoriesAgree
  <2>1. UplinkInit => \A p \in Proc : flushing[p] = Idle
    BY DEF UplinkInit
  <2>2. Idle.error = ""
    BY DEF Idle
  <2> QED
    BY <2>1, <2>2 DEF HistoriesAgree
<1>2. TypeOK /\ CallInv /\ WatermarkIsJournal /\ OneMachineEach /\ HistoriesAgree /\ [UplinkNext]_vars
        => HistoriesAgree'
  BY AgreeStep
<1> QED
  BY <1>1, <1>2, UplinkTypeCorrect, CallInvCorrect, WatermarkCorrect, OneMachineCorrect, PTL
  DEF UplinkSpec

-----------------------------------------------------------------------------
(* Machine and hub stay in step: what InStep rests on.                     *)

\* Whatever copy of a row still travels, the rows before it have been sent.
RequestsInOrder ==
  \A q \in requests : \A j \in DOMAIN outbox[Home[q.proc]] :
    j < q.env.seq => outbox[Home[q.proc]][j].gseq # 0

\* The hub's own rows are under its own events.
OwnEvents ==
  \A g \in DOMAIN journal : journal[g].dev = HubId => journal[g].event[1] = HubId

HubOneAhead ==
  \A m \in Machine : \A g \in DOMAIN journal : \A j, k \in DOMAIN outbox[m] :
    journal[g].event = <<m, k>> /\ j < k => outbox[m][j].gseq # 0

\* An older row of the same outbox was queued under another identity.
MixedBefore(box, k) == \E j \in DOMAIN box : j < k /\ box[j].dev # box[k].dev
GapsExplained ==
  \A p \in Proc : flushing[p].error = "sequence_gap" =>
    /\ flushing[p].seq \in DOMAIN outbox[Home[p]]
    /\ MixedBefore(outbox[Home[p]], flushing[p].seq)

(* A sent row stays sent.                                                  *)
LEMMA SentStays ==
  ASSUME TypeOK, [UplinkNext]_vars, NEW m \in Machine, NEW k \in DOMAIN outbox[m],
         outbox[m][k].gseq # 0
  PROVE  k \in DOMAIN outbox'[m] /\ outbox'[m][k].gseq # 0
<1>0. DOMAIN outbox[m] = 1 .. Len(outbox[m]) /\ Len(outbox[m]) \in Nat
  BY DEF TypeOK
<1>1. CASE SameOutbox
  BY <1>1 DEF SameOutbox
<1>2. ASSUME NEW n \in Machine, NEW r \in OutboxRow, Queues(n, r)
      PROVE  k \in DOMAIN outbox'[m] /\ outbox'[m][k].gseq # 0
  BY <1>0, <1>2 DEF Queues
<1> QED
  BY <1>1, <1>2, OutboxStep

(* What travels travelled before, or is the oldest unsent row of its       *)
(* machine.                                                                *)
LEMMA TravelStep ==
  ASSUME TypeOK, [UplinkNext]_vars, NEW q \in requests'
  PROVE  \/ \E r \in requests : q.proc = r.proc /\ q.env = r.env
         \/ q.proc \in Proc /\ IsOldest(q.env.seq, outbox'[Home[q.proc]])
<1> DEFINE Old == \E r \in requests : q.proc = r.proc /\ q.env = r.env
           New == q.proc \in Proc /\ IsOldest(q.env.seq, outbox'[Home[q.proc]])
<1> USE HomeAssumption
<1>1. requests' \subseteq requests => Old
  OBVIOUS
<1>2. ASSUME NEW p \in Proc, NEW tok, NEW k \in DOMAIN outbox[Home[p]],
             requests' = requests \cup {Post(p, tok, k)}, IsOldest(k, outbox'[Home[p]])
      PROVE  Old \/ New
  <2>1. Post(p, tok, k).proc = p /\ Post(p, tok, k).env.seq = k
    BY DEF Post, Wire, TypeOK
  <2>2. q \in requests \/ q = Post(p, tok, k)
    BY <1>2
  <2> QED
    BY <1>2, <2>1, <2>2
<1>3. ASSUME NEW p \in Proc, LoseCall(p) PROVE Old
  BY <1>3 DEF LoseCall, TypeOK, Request
<1> HIDE DEF Old, New
<1>4. ASSUME NEW p \in Proc, StartFlush(p) PROVE Old \/ New
  BY <1>2, <1>4 DEF StartFlush
<1>5. ASSUME NEW p \in Proc, FlushAcked(p) PROVE Old \/ New
  <2> DEFINE box == Acked(p)
             m == Home[p]
             tok == flushing[p].tok
  <2>1. ASSUME NEW k \in DOMAIN box, IsOldest(k, box), outbox' = [outbox EXCEPT ![m] = box],
               requests' = requests \cup {Post(p, tok, k)}
        PROVE  Old \/ New
    <3>1. outbox'[m] = box /\ DOMAIN box = DOMAIN outbox[m]
      BY <1>5, <2>1, AckedBox DEF TypeOK, Call, FlushAcked
    <3> QED
      BY <1>2, <2>1, <3>1
  <2> QED
    BY <1>1, <1>5, <2>1 DEF FlushAcked
<1>6. ASSUME OperatorStep PROVE Old \/ New
  BY <1>1, <1>6
  DEF OperatorStep, Pair, Revoke, ConnectWithCode, ConnectByHand, Adopt, Disconnect, Upgrade,
      uplinkVars
<1>7. ASSUME SatelliteStep PROVE Old \/ New
  BY <1>1, <1>3, <1>4, <1>5, <1>7 DEF SatelliteStep, QueueWrite, FlushBlocked
<1>8. ASSUME HubStep PROVE Old \/ New
  BY <1>1, <1>8
  DEF HubStep, TurnAway, Refuse, AnswerReplay, Begin, Run, Finish, Crash, HubWrite, uplinkVars
<1>9. ASSUME UNCHANGED vars PROVE Old \/ New
  BY <1>1, <1>9 DEF vars, uplinkVars
<1> QED
  BY <1>6, <1>7, <1>8, <1>9 DEF UplinkNext, Old, New

LEMMA TravelOrderStep ==
  ASSUME TypeOK, TypeOK', CallInv, RequestsInOrder, [UplinkNext]_vars
  PROVE  RequestsInOrder'
<1> USE HomeAssumption
<1>0. \A m \in Machine : /\ DOMAIN outbox[m] = 1 .. Len(outbox[m]) /\ Len(outbox[m]) \in Nat
                         /\ DOMAIN outbox'[m] = 1 .. Len(outbox'[m]) /\ Len(outbox'[m]) \in Nat
  BY DEF TypeOK
<1> SUFFICES ASSUME NEW q \in requests', NEW j \in DOMAIN outbox'[Home[q.proc]], j < q.env.seq
             PROVE  outbox'[Home[q.proc]][j].gseq # 0
  BY DEF RequestsInOrder
<1>1. ASSUME NEW r \in requests, q.proc = r.proc, q.env = r.env
      PROVE  outbox'[Home[q.proc]][j].gseq # 0
  <2>1. Home[q.proc] \in Machine /\ q.env.seq \in DOMAIN outbox[Home[q.proc]]
    BY <1>1 DEF TypeOK, Request, CallInv, RequestsAreQueued
  <2>2. j \in DOMAIN outbox[Home[q.proc]]
    BY <1>0, <2>1
  <2>3. outbox[Home[q.proc]][j].gseq # 0
    BY <1>1, <2>2 DEF RequestsInOrder
  <2> QED
    BY <2>1, <2>2, <2>3, SentStays
<1>2. ASSUME q.proc \in Proc, IsOldest(q.env.seq, outbox'[Home[q.proc]])
      PROVE  outbox'[Home[q.proc]][j].gseq # 0
  <2> DEFINE box == outbox'[Home[q.proc]]
             k == q.env.seq
  <2>1. IsOldest(k, box) /\ j \in DOMAIN box /\ j < k /\ DOMAIN box \subseteq Nat
    BY <1>0, <1>2
  <2> HIDE DEF box, k
  <2>2. box[j].gseq # 0
    BY <2>1 DEF IsOldest, Unsent
  <2> QED
    BY <2>2 DEF box
<1> QED
  BY <1>1, <1>2, TravelStep

(* hub.js:80-124: the hub takes a machine's row only after the machine     *)
(* knows of the row before it.                                             *)
LEMMA OneAheadStep ==
  ASSUME TypeOK, TypeOK', CallInv, RequestsInOrder, OwnEvents, HubOneAhead, [UplinkNext]_vars
  PROVE  OwnEvents' /\ HubOneAhead'
<1> USE HomeAssumption, MachineAssumption, HubIdAssumption
<1>0. /\ \A m \in Machine : /\ DOMAIN outbox[m] = 1 .. Len(outbox[m]) /\ Len(outbox[m]) \in Nat
                            /\ DOMAIN outbox'[m] = 1 .. Len(outbox'[m])
                            /\ Len(outbox'[m]) \in Nat
      /\ DOMAIN journal = 1 .. Len(journal) /\ Len(journal) \in Nat
      /\ \A g \in DOMAIN journal : journal[g] \in Row
  BY DEF TypeOK, HubTypeOK
\* A row that was there is about rows that were queued then.
<1>1. ASSUME NEW g \in DOMAIN journal, NEW m \in Machine, NEW j \in DOMAIN outbox'[m],
             NEW k \in DOMAIN outbox'[m], journal[g].event = <<m, k>>, j < k
      PROVE  outbox'[m][j].gseq # 0
  <2>1. journal[g].dev \in Device
    BY <1>0, <1>1 DEF OwnEvents, Row
  <2>2. PICK n \in Machine : \E i \in DOMAIN outbox[n] : journal[g].event = <<n, i>>
    BY <2>1 DEF CallInv, JournalIsQueued
  <2>3. k \in DOMAIN outbox[m]
    BY <1>1, <2>2
  <2>4. j \in DOMAIN outbox[m]
    BY <1>0, <1>1, <2>3
  <2>5. outbox[m][j].gseq # 0
    BY <1>1, <2>3, <2>4 DEF HubOneAhead
  <2> QED
    BY <2>4, <2>5, SentStays
<1>2. CASE SameJournal
  <2>1. /\ DOMAIN journal' = DOMAIN journal
        /\ \A g \in DOMAIN journal : journal'[g].dev = journal[g].dev
                                     /\ journal'[g].event = journal[g].event
    BY <1>2 DEF SameJournal, Wire
  <2> QED
    BY <1>1, <2>1 DEF OwnEvents, HubOneAhead
<1>3. ASSUME NEW row, Appends(row), row.dev = HubId => row.event[1] = HubId,
             \A m \in Machine : \A j, k \in DOMAIN outbox'[m] :
               row.event = <<m, k>> /\ j < k => outbox'[m][j].gseq # 0
      PROVE  OwnEvents' /\ HubOneAhead'
  <2>1. \A g \in DOMAIN journal' : \/ g \in DOMAIN journal /\ journal'[g] = journal[g]
                                   \/ journal'[g] = row
    BY <1>0, <1>3 DEF Appends
  <2>2. OwnEvents'
    BY <1>3, <2>1 DEF OwnEvents
  <2>3. HubOneAhead'
    <3> SUFFICES ASSUME NEW m \in Machine, NEW g \in DOMAIN journal', NEW j \in DOMAIN outbox'[m],
                        NEW k \in DOMAIN outbox'[m], journal'[g].event = <<m, k>>, j < k
                 PROVE  outbox'[m][j].gseq # 0
      BY DEF HubOneAhead
    <3> QED
      BY <1>1, <1>3, <2>1
  <2> QED
    BY <2>2, <2>3
<1>4. ASSUME NEW q \in requests, Accepts(q.env) PROVE OwnEvents' /\ HubOneAhead'
  <2> DEFINE m == Home[q.proc]
             row == Reserved(q.env)
  <2>1. m \in Machine /\ q.env.seq \in DOMAIN outbox[m] /\ q.env.event = <<m, q.env.seq>>
    <3>1. m \in Machine /\ q.env.seq \in DOMAIN outbox[m] /\ q.env = Wire(outbox[m][q.env.seq])
      BY DEF TypeOK, Request, CallInv, RequestsAreQueued
    <3>2. Wire(outbox[m][q.env.seq]).event = <<m, q.env.seq>>
      BY <3>1 DEF CallInv, OutboxIsOwn, Wire
    <3> QED
      BY <3>1, <3>2
  <2>2. row.event = <<m, q.env.seq>> /\ row.dev # HubId /\ Appends(row)
    BY <1>4, <2>1 DEF Reserved, Accepts, Envelope
  <2>3. ASSUME NEW j \in DOMAIN outbox'[m], j < q.env.seq PROVE outbox'[m][j].gseq # 0
    <3>1. j \in DOMAIN outbox[m]
      BY <1>0, <2>1, <2>3
    <3> QED
      BY <2>1, <2>3, <3>1, SentStays DEF RequestsInOrder
  <2> HIDE DEF row
  <2> QED
    BY <1>3, <2>2, <2>3
<1>5. CASE OwnRow
  <2>1. PICK row \in Row : row.dev = HubId /\ row.event = <<HubId, hubSeq + 1>> /\ Appends(row)
    BY <1>5 DEF OwnRow
  <2>2. row.event[1] = HubId /\ \A m \in Machine : \A k : row.event # <<m, k>>
    BY <2>1
  <2> QED
    BY <1>3, <2>1, <2>2
<1> QED
  BY <1>2, <1>4, <1>5, JournalStep

(* hub.js:80-82: a gap is met only by a row that stands behind rows of     *)
(* another identity.                                                       *)
LEMMA GapIsMixed ==
  ASSUME TypeOK, CallInv, WatermarkIsJournal, SentIsJournaled, RequestsInOrder,
         NEW q \in requests, IsGap(q.env)
  PROVE  /\ q.env.seq \in DOMAIN outbox[Home[q.proc]]
         /\ MixedBefore(outbox[Home[q.proc]], q.env.seq)
<1> DEFINE m == Home[q.proc]
           k == q.env.seq
           d == q.env.dev
           j == devices[d].last + 1
<1>1. m \in Machine /\ d \in Device /\ k \in DOMAIN outbox[m]
  BY HomeAssumption DEF TypeOK, Request, Envelope, CallInv, RequestsAreQueued
<1>2. outbox[m][k].dev = d
  <2>1. q.env = Wire(outbox[m][k])
    BY DEF CallInv, RequestsAreQueued
  <2>2. Wire(outbox[m][k]).dev = outbox[m][k].dev
    BY DEF Wire
  <2> QED
    BY <2>1, <2>2
<1>3. devices[d].last \in Nat /\ DOMAIN outbox[m] = 1 .. Len(outbox[m]) /\ Len(outbox[m]) \in Nat
  BY <1>1 DEF TypeOK, HubTypeOK
<1>4. j < k /\ j \in DOMAIN outbox[m]
  BY <1>1, <1>3 DEF IsGap
<1>5. outbox[m][j].gseq # 0
  BY <1>4 DEF RequestsInOrder
<1>6. PICK g \in DOMAIN journal : Wire(journal[g]) = Wire(outbox[m][j])
  BY <1>1, <1>4, <1>5 DEF SentIsJournaled
<1>7. journal[g].dev = outbox[m][j].dev /\ journal[g].seq = j
  BY <1>1, <1>4, <1>6 DEF Wire, TypeOK
<1> HIDE DEF j
<1>8. ASSUME outbox[m][j].dev = d PROVE FALSE
  <2>1. j \in 1 .. devices[d].last
    BY <1>1, <1>7, <1>8 DEF WatermarkIsJournal
  <2> QED
    BY <1>3, <2>1 DEF j
<1> QED
  BY <1>1, <1>2, <1>4, <1>8 DEF MixedBefore

(* A call that is told of a gap was told before, or is told now because of *)
(* its own request.                                                        *)
LEMMA GapStep ==
  ASSUME TypeOK, CallInv, [UplinkNext]_vars, NEW p \in Proc, flushing'[p].error = "sequence_gap"
  PROVE  \/ flushing[p].error = "sequence_gap" /\ flushing'[p].seq = flushing[p].seq
         \/ \E q \in requests : IsGap(q.env) /\ q.proc = p /\ flushing'[p].seq = q.env.seq
<1> DEFINE Told == flushing[p].error = "sequence_gap" /\ flushing'[p].seq = flushing[p].seq
           Tells == \E q \in requests : IsGap(q.env) /\ q.proc = p /\ flushing'[p].seq = q.env.seq
<1>t. flushing \in [Proc -> Call]
  BY DEF TypeOK
<1>s. UNCHANGED flushing => Told
  OBVIOUS
<1>w. ASSUME NEW r, NEW new, new.error = "", flushing' = [flushing EXCEPT ![r] = new]
      PROVE  Told
  BY <1>w, <1>t
<1>r. ASSUME NEW isLive, NEW r, NEW g, NEW err, err # "sequence_gap", Reply(isLive, r, g, err)
      PROVE  Told
  BY <1>r, <1>t DEF Reply, Call
<1>e. Idle.error = "" /\ \A tok, k : Waiting(tok, k).error = ""
  BY DEF Idle, Waiting
<1>1. ASSUME NEW q \in requests, Refuse(q, "sequence_gap") PROVE Told \/ Tells
  <2>1. IsGap(q.env) /\ Reply(q.live, q.proc, 0, "sequence_gap")
    BY <1>1 DEF Refuse, Refuses
  <2>2. CASE q.live /\ q.proc = p
    <3>1. flushing[p].seq = q.env.seq
      BY <2>2 DEF CallInv, OneCallEach
    <3>2. flushing'[p].seq = flushing[p].seq
      BY <1>t, <2>1, <2>2 DEF Reply, Call
    <3> QED
      BY <2>1, <2>2, <3>1, <3>2
  <2>3. CASE ~(q.live /\ q.proc = p)
    BY <1>t, <2>1, <2>3 DEF Reply, Call
  <2> QED
    BY <2>2, <2>3
<1> HIDE DEF Told, Tells
<1>2. ASSUME OperatorStep PROVE Told \/ Tells
  BY <1>s, <1>2
  DEF OperatorStep, Pair, Revoke, ConnectWithCode, ConnectByHand, Adopt, Disconnect, Upgrade,
      uplinkVars
<1>3. ASSUME SatelliteStep PROVE Told \/ Tells
  <2>1. ASSUME NEW r \in Proc, FlushBlocked(r) \/ LoseCall(r) PROVE Told
    BY <1>w, <1>e, <2>1 DEF FlushBlocked, LoseCall
  <2>2. ASSUME NEW r \in Proc, StartFlush(r) PROVE Told
    <3>1. PICK k : flushing' = [flushing EXCEPT ![r] = Waiting(config[Home[r]], k)]
      BY <2>2 DEF StartFlush
    <3> QED
      BY <1>w, <1>e, <3>1
  <2>3. ASSUME NEW r \in Proc, FlushAcked(r) PROVE Told
    <3>1. \/ flushing' = [flushing EXCEPT ![r] = Idle]
          \/ \E k : flushing' = [flushing EXCEPT ![r] = Waiting(flushing[r].tok, k)]
      BY <2>3 DEF FlushAcked
    <3>2. CASE flushing' = [flushing EXCEPT ![r] = Idle]
      BY <1>w, <1>e, <3>2
    <3>3. ASSUME NEW k, flushing' = [flushing EXCEPT ![r] = Waiting(flushing[r].tok, k)]
          PROVE  Told
      BY <1>w, <1>e, <3>3
    <3> QED
      BY <3>1, <3>2, <3>3
  <2> QED
    BY <1>3, <1>s, <2>1, <2>2, <2>3 DEF SatelliteStep, QueueWrite
<1>4. ASSUME NEW q \in requests, NEW err \in RefusalErrors, Refuse(q, err) PROVE Told \/ Tells
  <2>1. CASE err = "sequence_gap"
    BY <1>1, <1>4, <2>1
  <2>2. CASE err # "sequence_gap"
    BY <1>r, <1>4, <2>2 DEF Refuse
  <2> QED
    BY <2>1, <2>2
<1>5. ASSUME HubStep PROVE Told \/ Tells
  BY <1>s, <1>r, <1>4, <1>5
  DEF HubStep, TurnAway, AnswerReplay, Begin, Run, Finish, Crash, HubWrite, uplinkVars
<1>6. ASSUME UNCHANGED vars PROVE Told \/ Tells
  BY <1>s, <1>6 DEF vars, uplinkVars
<1> QED
  BY <1>2, <1>3, <1>5, <1>6 DEF UplinkNext, Told, Tells

LEMMA GapsExplainedStep ==
  ASSUME TypeOK, CallInv, WatermarkIsJournal, SentIsJournaled, RequestsInOrder, GapsExplained,
         [UplinkNext]_vars
  PROVE  GapsExplained'
<1> SUFFICES ASSUME NEW p \in Proc, flushing'[p].error = "sequence_gap"
             PROVE  /\ flushing'[p].seq \in DOMAIN outbox'[Home[p]]
                    /\ MixedBefore(outbox'[Home[p]], flushing'[p].seq)
  BY DEF GapsExplained
<1> DEFINE box == outbox[Home[p]]
           k == flushing'[p].seq
<1>1. k \in DOMAIN box /\ MixedBefore(box, k)
  BY GapStep, GapIsMixed DEF GapsExplained
<1>2. Home[p] \in Machine
  BY HomeAssumption
<1>3. \A i \in DOMAIN box : i \in DOMAIN outbox'[Home[p]] /\ outbox'[Home[p]][i].dev = box[i].dev
  <2>1. \A i \in DOMAIN box : i \in DOMAIN outbox'[Home[p]]
                            /\ Wire(outbox'[Home[p]][i]) = Wire(box[i])
    BY <1>2, OutboxGrowsStep DEF OutboxGrows, CallInv
  <2>2. \A r : Wire(r).dev = r.dev
    BY DEF Wire
  <2> QED
    BY <2>1, <2>2
<1> QED
  BY <1>1, <1>3 DEF MixedBefore

InStepInv == RequestsInOrder /\ OwnEvents /\ HubOneAhead /\ GapsExplained

LEMMA InStepInvCorrect == UplinkSpec => []InStepInv
<1>1. UplinkInit => InStepInv
  <2>1. UplinkInit => requests = {} /\ DOMAIN journal = {} /\ \A p \in Proc : flushing[p] = Idle
    BY DEF UplinkInit, HubInit
  <2>2. Idle.error = ""
    BY DEF Idle
  <2> QED
    BY <2>1, <2>2 DEF InStepInv, RequestsInOrder, OwnEvents, HubOneAhead, GapsExplained
<1>2. TypeOK /\ TypeOK' /\ CallInv /\ WatermarkIsJournal /\ SentIsJournaled /\ InStepInv
        /\ [UplinkNext]_vars => InStepInv'
  BY TravelOrderStep, OneAheadStep, GapsExplainedStep DEF InStepInv
<1> QED
  BY <1>1, <1>2, UplinkTypeCorrect, CallInvCorrect, WatermarkCorrect, SentIsJournaledCorrect, PTL
  DEF UplinkSpec

(* hub.js:69-82, remote-client.js:119-146 (InStep): through timeouts,      *)
(* resends and late copies the hub is at most one row ahead of what the    *)
(* machine knows, and no machine with one identity is ever told of a gap.  *)
THEOREM InStepCorrect == UplinkSpec => []InStep
<1>1. InStepInv => InStep
  BY DEF InStepInv, HubOneAhead, GapsExplained, MixedBefore, InStep
<1> QED
  BY <1>1, InStepInvCorrect, PTL

(* hub.js:69-82, remote-client.js:119-126: the row a machine with one      *)
(* identity has to send next is the one the hub expects next, or the last  *)
(* it took: the hub can always tell it from a gap, whatever was lost.      *)
HeadIsTaken ==
  \A m \in Machine : \A d \in Device : \A k \in DOMAIN outbox[m] :
    (\A j \in DOMAIN outbox[m] : outbox[m][j].dev = d) /\ IsOldest(k, outbox[m])
      => devices[d].last \in {k - 1, k}

LEMMA HeadIsNear ==
  ASSUME TypeOK, CallInv, WatermarkIsJournal, SentIsJournaled, OneMachineEach, HubOneAhead
  PROVE  HeadIsTaken
<1> SUFFICES ASSUME NEW m \in Machine, NEW d \in Device, NEW k \in DOMAIN outbox[m],
                    \A j \in DOMAIN outbox[m] : outbox[m][j].dev = d, IsOldest(k, outbox[m])
             PROVE  devices[d].last \in {k - 1, k}
  BY DEF HeadIsTaken
<1> DEFINE last == devices[d].last
<1>0. /\ DOMAIN outbox[m] = 1 .. Len(outbox[m]) /\ Len(outbox[m]) \in Nat
      /\ last \in Nat /\ k \in Nat \ {0}
  BY DEF TypeOK, HubTypeOK
<1>1. last >= k - 1
  <2> SUFFICES ASSUME k > 1 PROVE k - 1 \in 1 .. last
    BY <1>0
  <2>1. k - 1 \in DOMAIN outbox[m] /\ outbox[m][k - 1].gseq # 0
    BY <1>0 DEF IsOldest, Unsent
  <2>2. PICK g \in DOMAIN journal : Wire(journal[g]) = Wire(outbox[m][k - 1])
    BY <2>1 DEF SentIsJournaled
  <2>3. journal[g].dev = d /\ journal[g].seq = k - 1
    BY <2>1, <2>2 DEF Wire, TypeOK
  <2> QED
    BY <2>3 DEF WatermarkIsJournal
<1>2. ASSUME last > k PROVE FALSE
  <2>1. k + 1 \in 1 .. last
    BY <1>0, <1>2
  <2>2. PICK g \in DOMAIN journal : journal[g].dev = d /\ journal[g].seq = k + 1
    BY <2>1 DEF WatermarkIsJournal
  <2>3. PICK n \in Machine : \E i \in DOMAIN outbox[n] :
          journal[g].event = <<n, i>> /\ Wire(journal[g]) = Wire(outbox[n][i])
    BY <2>2 DEF CallInv, JournalIsQueued
  <2>4. PICK i \in DOMAIN outbox[n] :
          journal[g].event = <<n, i>> /\ Wire(journal[g]) = Wire(outbox[n][i])
    BY <2>3
  <2>5. outbox[n][i].dev = d /\ i = k + 1
    BY <2>2, <2>4 DEF Wire, TypeOK
  <2>6. n = m
    BY <2>5 DEF OneMachineEach, Untouched
  <2>7. outbox[m][k].gseq # 0
    BY <1>0, <2>4, <2>5, <2>6 DEF HubOneAhead
  <2> QED
    BY <2>7 DEF IsOldest, Unsent
<1> QED
  BY <1>0, <1>1, <1>2

(* hub.js:69-82 (HeadIsTaken): the safety half of OutboxDrains and         *)
(* PulseDrains.                                                            *)
THEOREM HeadIsTakenCorrect == UplinkSpec => []HeadIsTaken
<1>1. TypeOK /\ CallInv /\ WatermarkIsJournal /\ SentIsJournaled /\ OneMachineEach /\ InStepInv
        => HeadIsTaken
  BY HeadIsNear DEF InStepInv
<1> QED
  BY <1>1, UplinkTypeCorrect, CallInvCorrect, WatermarkCorrect, SentIsJournaledCorrect,
     OneMachineCorrect, InStepInvCorrect, PTL

-----------------------------------------------------------------------------
(* The uplink implements the shared log.                                   *)

JLog == [g \in DOMAIN journal |-> Wire(journal[g])]
BoxWires == UNION {{Wire(outbox[m][k]) : k \in DOMAIN outbox[m]} : m \in Machine}
OwnWires == {Wire(journal[g]) : g \in {h \in DOMAIN journal : journal[h].dev = HubId}}
OwnSeqs == {journal[g].seq : g \in {h \in DOMAIN journal : journal[h].dev = HubId}}
OwnCounted == OwnSeqs = 1 .. hubSeq

(* The journal as the log: a row more is an entry more.                    *)
LEMMA LogAppends ==
  ASSUME TypeOK, NEW row \in Row, Appends(row)
  PROVE  JLog' = Append(JLog, Wire(row))
<1> DEFINE E == [dev: Device \cup {HubId}, seq: Nat, event: Event, op: Op]
           n == Len(journal)
<1>1. /\ DOMAIN journal = 1 .. n /\ n \in Nat
      /\ \A g \in 1 .. n : journal[g] \in Row
  BY DEF TypeOK, HubTypeOK
<1>2. \A r \in Row : Wire(r) \in E
  BY DEF Wire, Row
<1>3. JLog \in Seq(E) /\ Len(JLog) = n /\ \A g \in 1 .. n : JLog[g] = Wire(journal[g])
  <2>1. JLog = [g \in 1 .. n |-> Wire(journal[g])]
    BY <1>1 DEF JLog
  <2>2. \A g \in 1 .. n : Wire(journal[g]) \in E
    BY <1>1, <1>2
  <2> HIDE DEF E, n
  <2>3. [g \in 1 .. n |-> Wire(journal[g])] \in [1 .. n -> E]
    BY <2>2
  <2>4. JLog \in [1 .. n -> E]
    BY <2>1, <2>3
  <2>5. JLog \in Seq(E)
    BY <1>1, <2>2, <2>1, IsASeq
  <2> QED
    BY <1>1, <2>1, <2>4, <2>5
<1>4. /\ JLog' = [g \in 1 .. n + 1 |-> Wire(journal'[g])]
      /\ \A g \in 1 .. n : journal'[g] = journal[g]
      /\ journal'[n + 1] = row
  BY <1>1 DEF Appends, JLog
<1>5. Wire(row) \in E
  BY <1>2
<1> HIDE DEF E, n
<1>6. /\ Append(JLog, Wire(row)) \in Seq(E)
      /\ Len(Append(JLog, Wire(row))) = n + 1
      /\ \A g \in 1 .. n : Append(JLog, Wire(row))[g] = JLog[g]
      /\ Append(JLog, Wire(row))[n + 1] = Wire(row)
  BY <1>1, <1>3, <1>5, AppendProperties
<1>7. Append(JLog, Wire(row)) = [g \in 1 .. n + 1 |-> Append(JLog, Wire(row))[g]]
  <2> DEFINE a == Append(JLog, Wire(row))
  <2>1. a \in Seq(E) /\ Len(a) = n + 1
    BY <1>6
  <2> HIDE DEF a
  <2>2. a \in [1 .. n + 1 -> E]
    BY <2>1, LenProperties
  <2>3. a = [g \in 1 .. n + 1 |-> a[g]]
    BY <2>2
  <2> QED
    BY <2>3 DEF a
<1>8. \A g \in 1 .. n + 1 : g \in 1 .. n \/ g = n + 1
  BY <1>1
<1>9. \A g \in 1 .. n + 1 : Append(JLog, Wire(row))[g] = Wire(journal'[g])
  BY <1>3, <1>4, <1>6, <1>8
<1> QED
  BY <1>4, <1>7, <1>9

(* How a step changes what is authored and what is logged.                 *)
LEMMA SameJournalSteps ==
  ASSUME TypeOK, SameJournal
  PROVE  JLog' = JLog /\ OwnWires' = OwnWires /\ OwnSeqs' = OwnSeqs
<1>1. /\ DOMAIN journal' = DOMAIN journal
      /\ \A g \in DOMAIN journal : Wire(journal'[g]) = Wire(journal[g])
  BY DEF SameJournal
<1>2. \A g \in DOMAIN journal : journal'[g].dev = journal[g].dev /\ journal'[g].seq = journal[g].seq
  BY <1>1 DEF Wire
<1>3. JLog' = JLog
  BY <1>1 DEF JLog
<1>4. OwnWires' = OwnWires
  BY <1>1, <1>2 DEF OwnWires
<1>5. OwnSeqs' = OwnSeqs
  BY <1>1, <1>2 DEF OwnSeqs
<1> QED
  BY <1>3, <1>4, <1>5

LEMMA AppendsSteps ==
  ASSUME TypeOK, NEW row \in Row, Appends(row)
  PROVE  /\ row.dev # HubId => OwnWires' = OwnWires /\ OwnSeqs' = OwnSeqs
         /\ row.dev = HubId => /\ OwnWires' = OwnWires \cup {Wire(row)}
                               /\ OwnSeqs' = OwnSeqs \cup {row.seq}
<1> DEFINE n == Len(journal) + 1
           own == {h \in DOMAIN journal : journal[h].dev = HubId}
           new == {h \in DOMAIN journal' : journal'[h].dev = HubId}
<1>0. DOMAIN journal = 1 .. Len(journal) /\ Len(journal) \in Nat
  BY DEF TypeOK, HubTypeOK
<1>1. /\ DOMAIN journal' = DOMAIN journal \cup {n} /\ n \notin DOMAIN journal
      /\ \A g \in DOMAIN journal : journal'[g] = journal[g]
      /\ journal'[n] = row
  BY <1>0 DEF Appends
<1> HIDE DEF n
<1>2. /\ row.dev # HubId => new = own
      /\ row.dev = HubId => new = own \cup {n}
      /\ own \subseteq DOMAIN journal
  BY <1>1
<1>3. OwnWires = {Wire(journal[g]) : g \in own} /\ OwnWires' = {Wire(journal'[g]) : g \in new}
  BY DEF OwnWires
<1>4. OwnSeqs = {journal[g].seq : g \in own} /\ OwnSeqs' = {journal'[g].seq : g \in new}
  BY DEF OwnSeqs
<1> HIDE DEF own, new
<1>5. {Wire(journal'[g]) : g \in own} = OwnWires /\ {journal'[g].seq : g \in own} = OwnSeqs
  BY <1>1, <1>2, <1>3, <1>4
<1> QED
  BY <1>1, <1>2, <1>3, <1>4, <1>5

LEMMA SameOutboxSteps == SameOutbox => BoxWires' = BoxWires
<1> SUFFICES ASSUME SameOutbox PROVE BoxWires' = BoxWires
  OBVIOUS
<1>1. \A m \in Machine : {Wire(outbox'[m][k]) : k \in DOMAIN outbox'[m]}
                           = {Wire(outbox[m][k]) : k \in DOMAIN outbox[m]}
  BY DEF SameOutbox
<1> QED
  BY <1>1 DEF BoxWires

LEMMA QueuesSteps ==
  ASSUME TypeOK, NEW m \in Machine, NEW r \in OutboxRow, Queues(m, r)
  PROVE  BoxWires' = BoxWires \cup {Wire(r)}
<1> DEFINE W(n) == {Wire(outbox[n][k]) : k \in DOMAIN outbox[n]}
<1>0. DOMAIN outbox[m] = 1 .. Len(outbox[m]) /\ Len(outbox[m]) \in Nat
  BY DEF TypeOK
<1>1. W(m)' = W(m) \cup {Wire(r)}
  <2>1. /\ DOMAIN outbox'[m] = DOMAIN outbox[m] \cup {Len(outbox[m]) + 1}
        /\ \A k \in DOMAIN outbox[m] : outbox'[m][k] = outbox[m][k]
        /\ outbox'[m][Len(outbox[m]) + 1] = r
    BY <1>0 DEF Queues
  <2> QED
    BY <2>1
<1>2. \A n \in Machine \ {m} : W(n)' = W(n)
  BY DEF Queues
<1>3. BoxWires = UNION {W(n) : n \in Machine} /\ BoxWires' = UNION {W(n)' : n \in Machine}
  BY DEF BoxWires
<1> HIDE DEF W
<1> QED
  BY <1>1, <1>2, <1>3

(* The hub's own rows are numbered by its counter.                         *)
LEMMA OwnCountedStep ==
  ASSUME TypeOK, OwnCounted, [UplinkNext]_vars
  PROVE  OwnCounted'
<1>0. hubSeq \in Nat
  BY DEF TypeOK, HubTypeOK
<1>1. CASE SameJournal
  BY <1>1, SameJournalSteps DEF SameJournal, OwnCounted
<1>2. ASSUME NEW q \in requests, Accepts(q.env) PROVE OwnCounted'
  <2>1. Reserved(q.env) \in Row /\ Reserved(q.env).dev # HubId /\ Appends(Reserved(q.env))
    BY <1>2, HubIdAssumption DEF Accepts, Reserved, Row, Envelope, Outcome
  <2> QED
    BY <1>2, <2>1, AppendsSteps DEF Accepts, OwnCounted
<1>3. CASE OwnRow
  <2>1. OwnSeqs' = OwnSeqs \cup {hubSeq + 1} /\ hubSeq' = hubSeq + 1
    BY <1>3, AppendsSteps DEF OwnRow
  <2>2. 1 .. hubSeq + 1 = (1 .. hubSeq) \cup {hubSeq + 1}
    BY <1>0
  <2> QED
    BY <2>1, <2>2 DEF OwnCounted
<1> QED
  BY <1>1, <1>2, <1>3, JournalStep

LEMMA OwnCountedCorrect == UplinkSpec => []OwnCounted
<1>1. UplinkInit => OwnCounted
  <2>1. UplinkInit => DOMAIN journal = {} /\ hubSeq = 0
    BY DEF UplinkInit, HubInit
  <2>2. 1 .. 0 = {}
    OBVIOUS
  <2> QED
    BY <2>1, <2>2 DEF OwnCounted, OwnSeqs
<1>2. TypeOK /\ OwnCounted /\ [UplinkNext]_vars => OwnCounted'
  BY OwnCountedStep
<1> QED
  BY <1>1, <1>2, UplinkTypeCorrect, PTL DEF UplinkSpec

LEMMA MappedTo == Authored = BoxWires \cup OwnWires /\ Authored' = BoxWires' \cup OwnWires'
BY DEF Authored, BoxWires, OwnWires

LEMMA LoggedSeqs ==
  ASSUME NEW d
  PROVE  Log!Logged(d) = {journal[g].seq : g \in {h \in DOMAIN journal : journal[h].dev = d}}
<1>1. /\ DOMAIN JLog = DOMAIN journal
      /\ \A g \in DOMAIN journal : JLog[g].dev = journal[g].dev /\ JLog[g].seq = journal[g].seq
  BY DEF JLog, Wire
<1>2. Log!Logged(d) = {JLog[g].seq : g \in {h \in DOMAIN JLog : JLog[h].dev = d}}
  BY DEF Log!Logged, JLog
<1> QED
  BY <1>1, <1>2

(* A device's event that the hub accepts is the next entry of its log.     *)
LEMMA CommitStep ==
  ASSUME TypeOK, CallInv, WatermarkIsJournal, [UplinkNext]_vars,
         NEW q \in requests, Accepts(q.env)
  PROVE  Log!Commit
<1> DEFINE e == q.env
           m == Home[q.proc]
<1>0. e \in Envelope /\ m \in Machine
  BY HomeAssumption DEF TypeOK, Request
<1>1. /\ Reserved(e) \in Row /\ Reserved(e).dev # HubId /\ Wire(Reserved(e)) = e
      /\ e.dev \in Device /\ e.seq \in Nat /\ devices[e.dev].last \in Nat
  BY <1>0, HubIdAssumption DEF Reserved, Row, Envelope, Outcome, Wire, TypeOK, HubTypeOK
<1>2. e.seq \in DOMAIN outbox[m] /\ e = Wire(outbox[m][e.seq])
  BY DEF CallInv, RequestsAreQueued
<1>3. e \in Authored
  BY <1>0, <1>2, MappedTo DEF BoxWires
<1>4. /\ Appends(Reserved(e)) /\ e.seq = devices[e.dev].last + 1
  BY DEF Accepts
<1>5. Log!Logged(e.dev) = 1 .. devices[e.dev].last
  BY <1>1, LoggedSeqs DEF WatermarkIsJournal
<1>6. SameOutbox
  <2>1. ASSUME NEW n \in Machine, NEW r \in OutboxRow, Queues(n, r) PROVE FALSE
    <3>1. journal' = journal /\ DOMAIN journal = 1 .. Len(journal) /\ Len(journal) \in Nat
      BY <2>1 DEF Queues, hubVars, TypeOK, HubTypeOK
    <3> QED
      BY <1>4, <3>1 DEF Appends
  <2> QED
    BY <2>1, OutboxStep
<1>7. JLog' = Append(JLog, e) /\ Authored' = Authored
  BY <1>1, <1>4, <1>6, LogAppends, AppendsSteps, SameOutboxSteps, MappedTo
<1>8. e.seq \notin Log!Logged(e.dev) /\ \A k \in 1 .. e.seq - 1 : k \in Log!Logged(e.dev)
  BY <1>1, <1>4, <1>5
<1> HIDE DEF e
<1> QED
  BY <1>3, <1>7, <1>8 DEF Log!Commit, JLog

(* What a machine queues is a new entry, and its identity's last.          *)
LEMMA AuthorStep ==
  ASSUME TypeOK, OneMachineEach, NEW m \in Machine, NEW r \in OutboxRow, Queues(m, r)
  PROVE  Log!Author
<1> DEFINE e == Wire(r)
<1>0. /\ r.dev \in Device /\ r.dev = config[m] /\ r.seq = Len(outbox[m]) + 1
      /\ DOMAIN outbox[m] = 1 .. Len(outbox[m]) /\ Len(outbox[m]) \in Nat
  BY DEF Queues, OutboxRow, TypeOK
<1>1. e.dev = r.dev /\ e.seq = r.seq
  BY DEF Wire
<1>2. Authored' = Authored \cup {e} /\ JLog' = JLog
  <2>1. UNCHANGED journal
    BY DEF Queues, hubVars
  <2>2. OwnWires' = OwnWires /\ JLog' = JLog
    BY <2>1 DEF OwnWires, JLog
  <2> QED
    BY <2>2, QueuesSteps, MappedTo
<1>3. ASSUME NEW f \in Authored, f.dev = e.dev PROVE f.seq < e.seq
  <2>1. f \notin OwnWires
    BY <1>0, <1>1, <1>3, HubIdAssumption DEF OwnWires, Wire
  <2>2. PICK n \in Machine : \E k \in DOMAIN outbox[n] : f = Wire(outbox[n][k])
    BY <2>1, MappedTo DEF BoxWires
  <2>3. PICK k \in DOMAIN outbox[n] : f = Wire(outbox[n][k])
    BY <2>2
  <2>4. outbox[n][k].dev = r.dev /\ f.seq = k
    BY <1>1, <1>3, <2>3 DEF Wire, TypeOK
  <2>5. n = m
    BY <1>0, <2>4 DEF OneMachineEach, Untouched
  <2> QED
    BY <1>0, <1>1, <2>4, <2>5
<1>4. e \notin Authored
  BY <1>0, <1>1, <1>3
<1> HIDE DEF e
<1> QED
  BY <1>2, <1>3, <1>4 DEF Log!Author, JLog

(* What the hub writes itself is authored and logged at once.              *)
LEMMA OwnStep ==
  ASSUME TypeOK, OwnCounted, [UplinkNext]_vars, OwnRow
  PROVE  Log!Own
<1>1. PICK row \in Row : row.dev = HubId /\ row.seq = hubSeq + 1 /\ Appends(row)
  BY DEF OwnRow
<1> DEFINE e == Wire(row)
<1>2. e.dev = HubId /\ e.seq = hubSeq + 1 /\ hubSeq \in Nat
  BY <1>1 DEF Wire, TypeOK, HubTypeOK
<1>3. SameOutbox
  <2>1. ASSUME NEW n \in Machine, NEW r \in OutboxRow, Queues(n, r) PROVE FALSE
    <3>1. hubSeq' = hubSeq
      BY <2>1 DEF Queues, hubVars
    <3> QED
      BY <1>2, <3>1 DEF OwnRow
  <2> QED
    BY <2>1, OutboxStep
<1>4. JLog' = Append(JLog, e) /\ Authored' = Authored \cup {e}
  BY <1>1, <1>3, LogAppends, AppendsSteps, SameOutboxSteps, MappedTo
<1>5. Log!Logged(HubId) = 1 .. hubSeq
  BY LoggedSeqs DEF OwnCounted, OwnSeqs
<1>6. ASSUME NEW f \in Authored, f.dev = HubId PROVE f.seq \in 1 .. hubSeq
  <2>1. f \notin BoxWires
    <3>1. \A m \in Machine : \A k \in DOMAIN outbox[m] : Wire(outbox[m][k]).dev \in Device
      <4>1. \A m \in Machine : \A k \in DOMAIN outbox[m] : outbox[m][k] \in OutboxRow
        BY DEF TypeOK
      <4> QED
        BY <4>1 DEF OutboxRow, Wire
    <3> QED
      BY <1>6, <3>1, HubIdAssumption DEF BoxWires
  <2>2. PICK g \in DOMAIN journal : journal[g].dev = HubId /\ f = Wire(journal[g])
    BY <2>1, MappedTo DEF OwnWires
  <2>3. f.seq = journal[g].seq
    BY <2>2 DEF Wire
  <2> QED
    BY <2>2, <2>3 DEF OwnCounted, OwnSeqs
<1>7. e \notin Authored /\ \A f \in Authored : f.dev = e.dev => f.seq < e.seq
  BY <1>2, <1>6
<1>8. \A k \in 1 .. e.seq - 1 : k \in Log!Logged(e.dev)
  BY <1>2, <1>5
<1> HIDE DEF e
<1> QED
  BY <1>4, <1>7, <1>8 DEF Log!Own, JLog

LEMMA RefinementStep ==
  ASSUME TypeOK, CallInv, WatermarkIsJournal, OneMachineEach, OwnCounted, [UplinkNext]_vars
  PROVE  Log!LogNext \/ UNCHANGED <<Authored, JLog>>
<1>1. CASE \E q \in requests : Accepts(q.env)
  BY <1>1, CommitStep DEF Log!LogNext
<1>2. CASE OwnRow
  BY <1>2, OwnStep DEF Log!LogNext
<1>3. ASSUME NEW m \in Machine, NEW r \in OutboxRow, Queues(m, r) PROVE Log!LogNext
  BY <1>3, AuthorStep DEF Log!LogNext
<1>4. CASE SameJournal /\ SameOutbox
  BY <1>4, SameJournalSteps, SameOutboxSteps, MappedTo
<1> QED
  BY <1>1, <1>2, <1>3, <1>4, JournalStep, OutboxStep

(* hub.js:7-13 (ImplementsSharedLog): outboxes, flushers, retries and      *)
(* crashes together are one log that only grows, in every device's order   *)
(* and without gaps.                                                       *)
THEOREM UplinkImplementsSharedLog == UplinkSpec => ImplementsSharedLog
<1>1. UplinkInit => Log!LogInit
  <2> SUFFICES ASSUME UplinkInit PROVE Log!LogInit
    OBVIOUS
  <2>1. journal = <<>> /\ \A m \in Machine : outbox[m] = <<>>
    BY DEF UplinkInit, HubInit
  <2>2. BoxWires = {} /\ OwnWires = {} /\ JLog = <<>>
    BY <2>1 DEF BoxWires, OwnWires, JLog
  <2> QED
    BY <2>2, MappedTo DEF Log!LogInit, JLog
<1>2. TypeOK /\ CallInv /\ WatermarkIsJournal /\ OneMachineEach /\ OwnCounted /\ [UplinkNext]_vars
        => [Log!LogNext]_<<Authored, [g \in DOMAIN journal |-> Wire(journal[g])]>>
  BY RefinementStep DEF JLog
<1>3. UplinkSpec => Log!LogInit
        /\ [][Log!LogNext]_<<Authored, [g \in DOMAIN journal |-> Wire(journal[g])]>>
  BY <1>1, <1>2, UplinkTypeCorrect, CallInvCorrect, WatermarkCorrect, OneMachineCorrect,
     OwnCountedCorrect, PTL DEF UplinkSpec
<1> QED
  BY <1>3, PTL DEF ImplementsSharedLog, Log!LogSpec

=============================================================================
