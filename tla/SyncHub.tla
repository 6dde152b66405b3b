------------------------------ MODULE SyncHub ------------------------------
(***************************************************************************)
(* The hub side of substrate sync (shared-core/sync/hub.js and             *)
(* hub-journal.js): the machine that keeps the mind sequences, applies and *)
(* answers.  Arrival order is the order: an accepted event takes the next  *)
(* gseq of the journal, and the row plus the device's watermark commit in  *)
(* one transaction.  The outcome is written by a later, separate step.     *)
(*                                                                         *)
(* The module holds the hub's state and one operator per step of the hub;  *)
(* SyncUplink and SyncFeed put satellites and followers around it.         *)
(*                                                                         *)
(* Abstracted: an event is its event_id (who wrote it, which of its        *)
(* writes); args, ctx, hlc_ts, parent_gseq and app_version are carried by  *)
(* the code and decide nothing here.  An op is the catalogue version that  *)
(* first knows it, so "op <= catalogue" is getOp's typed resolution.       *)
(***************************************************************************)
EXTENDS Naturals, Sequences

CONSTANTS
  Device,   \* the device ids addDevice may mint
  HubId,    \* the reserved device_id 'hub' of the hub's own rows
  Writer,   \* who writes events: the satellite machines and HubId
  Op,       \* catalogue versions, 1..n
  Faults    \* the faults the environment may inject, a subset of FaultKind

FaultKind == {"hub_crash", "outcome_lost", "insert_failed", "op_failed"}

ASSUME HubIdAssumption == HubId \notin Device /\ HubId \in Writer
ASSUME OpAssumption == Op \subseteq Nat /\ 1 \in Op
ASSUME FaultsAssumption == Faults \subseteq FaultKind

VARIABLES
  devices,    \* sync_devices: is the row there, is it revoked, last_dev_seq
  journal,    \* sync_events; a row's position is its gseq (never pruned)
  hubSeq,     \* sync_client_state 'hub_seq', the dev_seq of the hub's rows
  running,    \* gseq of the row the serialized chain is finishing, 0 if none
  result,     \* what that row's op returned, "none" while it still awaits
  hubMind,    \* the events whose op has taken effect in the hub's substrate
  catalogue   \* the highest op version this hub build understands

hubVars == <<devices, journal, hubSeq, running, result, hubMind, catalogue>>

Event == Writer \X Nat
Envelope == [dev: Device, seq: Nat, event: Event, op: Op]
Outcome == {"null", "ok", "failed"}
Row == [dev: Device \cup {HubId}, seq: Nat, event: Event, op: Op, outcome: Outcome]

HubTypeOK ==
  /\ devices \in [Device -> [paired: BOOLEAN, revoked: BOOLEAN, last: Nat]]
  /\ journal \in Seq(Row)
  /\ hubSeq \in Nat
  /\ running \in 0 .. Len(journal)
  /\ result \in {"none", "ok", "failed"}
  /\ result # "none" => running # 0
  /\ hubMind \subseteq Event
  /\ catalogue \in Op

HubInit ==
  /\ devices = [d \in Device |-> [paired |-> FALSE, revoked |-> FALSE, last |-> 0]]
  /\ journal = <<>>
  /\ hubSeq = 0
  /\ running = 0
  /\ result = "none"
  /\ hubMind = {}
  /\ catalogue = 1

-----------------------------------------------------------------------------
(* Resolving an envelope e = [dev, seq, event, op] against the journal.    *)

Live(d) == devices[d].paired /\ ~devices[d].revoked

Rows(d, k) == {g \in DOMAIN journal : journal[g].dev = d /\ journal[g].seq = k}

IsReplay(e) == Live(e.dev) /\ e.seq <= devices[e.dev].last
IsGap(e) == Live(e.dev) /\ e.seq > devices[e.dev].last + 1
\* Mutant: the sequencer takes a gap for the next event.
IsNextOrLater(e) == Live(e.dev) /\ e.seq > devices[e.dev].last

IsNext(e) == Live(e.dev) /\ e.seq = devices[e.dev].last + 1

\* The prior row that answers a replay: same device and seq, same event_id.
Prior(e) == {g \in Rows(e.dev, e.seq) : journal[g].event = e.event}

RefusalErrors ==
  {"unknown_device", "watermark_ahead_of_journal", "event_id_mismatch", "sequence_gap",
   "version_not_supported", "journal_insert_failed"}

\* _apply returns err without a gseq and changes nothing.
Refuses(e, err) ==
  \/ err = "unknown_device" /\ ~Live(e.dev)
  \/ err = "watermark_ahead_of_journal" /\ IsReplay(e) /\ Rows(e.dev, e.seq) = {}
  \/ err = "event_id_mismatch" /\ IsReplay(e) /\ Rows(e.dev, e.seq) # {} /\ Prior(e) = {}
  \/ err = "sequence_gap" /\ IsGap(e)
  \/ err = "version_not_supported" /\ IsNext(e) /\ e.op > catalogue
  \/ err = "journal_insert_failed" /\ IsNext(e) /\ e.op <= catalogue
                                   /\ "insert_failed" \in Faults

\* A replay of a finished row is answered from the journal with gseq g.
AnswersFromJournal(e, g) ==
  IsReplay(e) /\ g \in Prior(e) /\ journal[g].outcome # "null"

-----------------------------------------------------------------------------
(* The steps of the hub.                                                   *)

AddDevice(d) ==
  /\ ~devices[d].paired
  /\ devices' = [devices EXCEPT ![d].paired = TRUE]
  /\ UNCHANGED <<journal, hubSeq, running, result, hubMind, catalogue>>

RevokeDevice(d) ==
  /\ Live(d)
  /\ devices' = [devices EXCEPT ![d].revoked = TRUE]
  /\ UNCHANGED <<journal, hubSeq, running, result, hubMind, catalogue>>

\* The row as it is reserved, before its op ran.
Reserved(e) ==
  [dev |-> e.dev, seq |-> e.seq, event |-> e.event, op |-> e.op, outcome |-> "null"]

\* Mutants: the row commits but the watermark does not; the two writes are no
\* transaction, so the watermark may move alone; the chain does not serialize.
ReserveNoWatermark(e) ==
  /\ running = 0 /\ IsNext(e) /\ e.op <= catalogue
  /\ journal' = Append(journal, Reserved(e))
  /\ running' = Len(journal) + 1
  /\ UNCHANGED <<devices, hubSeq, result, hubMind, catalogue>>
ReserveTorn(e) ==
  /\ running = 0 /\ IsNext(e) /\ e.op <= catalogue
  /\ devices' = [devices EXCEPT ![e.dev].last = e.seq]
  /\ \/ journal' = Append(journal, Reserved(e)) /\ running' = Len(journal) + 1
     \/ UNCHANGED <<journal, running>>
  /\ UNCHANGED <<hubSeq, result, hubMind, catalogue>>
ReserveUnchained(e) ==
  /\ IsNext(e) /\ e.op <= catalogue
  /\ devices' = [devices EXCEPT ![e.dev].last = e.seq]
  /\ journal' = Append(journal, Reserved(e))
  /\ running' = Len(journal) + 1
  /\ UNCHANGED <<hubSeq, result, hubMind, catalogue>>

\* The chain's turn: a known op that is next in line gets its row and its
\* gseq, and the watermark moves with it; then the op starts and awaits.
Reserve(e) ==
  /\ running = 0
  /\ IsNext(e)
  /\ e.op <= catalogue
  /\ journal' = Append(journal, Reserved(e))
  /\ devices' = [devices EXCEPT ![e.dev].last = e.seq]
  /\ running' = Len(journal) + 1
  /\ UNCHANGED <<hubSeq, result, hubMind, catalogue>>

\* Mutant: every replay runs its op again.
ResumeAlways(e) ==
  /\ running = 0
  /\ IsReplay(e)
  /\ \E g \in Prior(e) : running' = g
  /\ UNCHANGED <<devices, journal, hubSeq, result, hubMind, catalogue>>

\* A replay that meets a reserved row without an outcome runs its op again.
Resume(e) ==
  /\ running = 0
  /\ IsReplay(e)
  /\ \E g \in Prior(e) : journal[g].outcome = "null" /\ running' = g
  /\ UNCHANGED <<devices, journal, hubSeq, result, hubMind, catalogue>>

\* The awaited handler settles: it wrote its record, or it threw.
RunOp ==
  /\ running # 0
  /\ result = "none"
  /\ \/ result' = "ok" /\ hubMind' = hubMind \cup {journal[running].event}
     \/ "op_failed" \in Faults /\ result' = "failed" /\ UNCHANGED hubMind
  /\ UNCHANGED <<devices, journal, hubSeq, running, catalogue>>

\* The UPDATE that records the outcome; when it fails the error is swallowed.
StampOutcome(lost) ==
  /\ result # "none"
  /\ lost => "outcome_lost" \in Faults
  /\ journal' = IF lost THEN journal
                        ELSE [journal EXCEPT ![running].outcome = result]
  /\ running' = 0
  /\ result' = "none"
  /\ UNCHANGED <<devices, hubSeq, hubMind, catalogue>>

\* The hub process dies with a row in hand; the substrate survives.
HubCrash ==
  /\ "hub_crash" \in Faults
  /\ running # 0
  /\ running' = 0
  /\ result' = "none"
  /\ UNCHANGED <<devices, journal, hubSeq, hubMind, catalogue>>

\* The hub's own mind-write enters the journal with its outcome stamped.
JournalLocal(e) ==
  /\ hubSeq' = hubSeq + 1
  /\ journal' = Append(journal, [dev |-> HubId, seq |-> hubSeq + 1, event |-> e,
                                 op |-> 1, outcome |-> "ok"])
  /\ UNCHANGED <<devices, running, result, catalogue>>

\* The hub machine is updated to a build that knows one more op.
UpgradeHub ==
  /\ catalogue + 1 \in Op
  /\ catalogue' = catalogue + 1
  /\ UNCHANGED <<devices, journal, hubSeq, running, result, hubMind>>

=============================================================================
