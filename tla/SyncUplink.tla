----------------------------- MODULE SyncUplink -----------------------------
(***************************************************************************)
(* The way up: satellites' outboxes and flushers (remote-client.js) around *)
(* the hub's sequencer (SyncHub).                                          *)
(*                                                                         *)
(* A machine may run several processes over one substrate (proxy, CLI, MCP *)
(* servers); each has its own single-flight flush, so two of them may ship *)
(* the same row at once.  A request may be answered after its caller gave  *)
(* up (10 s timeout), so a row may reach the hub several times.            *)
(*                                                                         *)
(* Abstracted: parent_gseq, last_gseq, hlc stamps and the in-memory cache  *)
(* of outcomes for writeThrough callers decide nothing on this path.       *)
(***************************************************************************)
EXTENDS SyncHub

CONSTANTS
  Machine,      \* satellite machines, each with one substrate
  Proc,         \* processes that flush
  Home,         \* Home[p]: the machine process p runs on
  NoDevice,     \* config without a sync section
  NoProc,       \* the row in hand has no live caller
  Knows,        \* Knows[m]: the ops machine m's build may queue
  KeepTail,     \* acked rows the outbox keeps (200 in the code)
  MaxWrites,    \* bound: MaxWrites[m] mind-writes queued on machine m
  MaxHubWrites, \* bound: the hub's own journaled writes
  MaxLosses     \* bound: lost calls, hub crashes, lost outcomes, failed inserts

ASSUME MachineAssumption == Writer = Machine \cup {HubId} /\ HubId \notin Machine
ASSUME HomeAssumption == Home \in [Proc -> Machine]
ASSUME NoneAssumption == NoDevice \notin Device /\ NoProc \notin Proc
ASSUME KnowsAssumption == Knows \in [Machine -> SUBSET Op]
ASSUME BoundAssumption ==
  KeepTail \in Nat /\ MaxWrites \in [Machine -> Nat] /\ MaxHubWrites \in Nat /\ MaxLosses \in Nat

VARIABLES
  config,    \* the device identity in config.json, or NoDevice
  outbox,    \* sync_outbox; a row's position is its dev_seq
  flushing,  \* per process, the loop's open call (or "idle")
  requests,  \* POSTs the hub has not taken up, callers' or abandoned
  caller,    \* the process waiting for the row the hub has in hand
  losses     \* how much of the fault budget is spent

uplinkVars == <<config, outbox, flushing, requests, caller, losses>>
vars == <<hubVars, uplinkVars>>

OutboxRow == [dev: Device, seq: Nat, event: Event, op: Op, gseq: Nat, pruned: BOOLEAN]
Errors == RefusalErrors \cup {"", "device_id_mismatch", "transport_error"}
Call == [state: {"idle", "waiting", "answered"}, tok: Device \cup {NoDevice}, seq: Nat,
         gseq: Nat, error: Errors]
Request == [proc: Proc, tok: Device \cup {NoDevice}, env: Envelope, live: BOOLEAN]

Idle == [state |-> "idle", tok |-> NoDevice, seq |-> 0, gseq |-> 0, error |-> ""]

\* Every variable keeps its type, and the outbox its key: position is dev_seq.
TypeOK ==
  /\ HubTypeOK
  /\ config \in [Machine -> Device \cup {NoDevice}]
  /\ outbox \in [Machine -> Seq(OutboxRow)]
  /\ \A m \in Machine : \A k \in DOMAIN outbox[m] : outbox[m][k].seq = k
  /\ flushing \in [Proc -> Call]
  /\ requests \subseteq Request
  /\ caller \in Proc \cup {NoProc}
  /\ losses \in Nat

UplinkInit ==
  /\ HubInit
  /\ config = [m \in Machine |-> NoDevice]
  /\ outbox = [m \in Machine |-> <<>>]
  /\ flushing = [p \in Proc |-> Idle]
  /\ requests = {}
  /\ caller = NoProc
  /\ losses = 0

-----------------------------------------------------------------------------
(* Helpers.                                                                *)

\* An outbox row as it travels.
Wire(r) == [dev |-> r.dev, seq |-> r.seq, event |-> r.event, op |-> r.op]

Unsent(box) == {k \in DOMAIN box : box[k].gseq = 0}
\* Mutant: SELECT without ORDER BY dev_seq.
IsUnsent(k, box) == k \in Unsent(box)
IsOldest(k, box) == k \in Unsent(box) /\ \A j \in Unsent(box) : k <= j

\* The flusher posts row k with token tok and awaits the answer.
Waiting(tok, k) == [state |-> "waiting", tok |-> tok, seq |-> k, gseq |-> 0, error |-> ""]
Post(p, tok, k) == [proc |-> p, tok |-> tok, env |-> Wire(outbox[Home[p]][k]), live |-> TRUE]

\* The answer reaches the caller if it still waits; err = "" means a gseq came.
Reply(isLive, p, g, err) ==
  flushing' = IF isLive
              THEN [flushing EXCEPT ![p].state = "answered", ![p].gseq = g, ![p].error = err]
              ELSE flushing

Lose == losses < MaxLosses /\ losses' = losses + 1

-----------------------------------------------------------------------------
(* The operators: pairing, unpairing, revoking, updating.                  *)

\* A pairing code is minted on the hub (device add, pair, approve, redeem).
Pair(d) == AddDevice(d) /\ UNCHANGED uplinkVars

Revoke(d) == RevokeDevice(d) /\ UNCHANGED uplinkVars

\* A machine has no trace of identity d: its code was not pasted there.
Untouched(m, d) == config[m] # d /\ \A k \in DOMAIN outbox[m] : outbox[m][k].dev # d

\* An identity goes to one machine.  The outbox and its counter stay as they are.
Adopt(m, d) ==
  /\ \A n \in Machine \ {m} : Untouched(n, d)
  /\ config[m] # d
  /\ config' = [config EXCEPT ![m] = d]
  /\ UNCHANGED <<hubVars, outbox, flushing, requests, caller, losses>>

\* A code is pasted, and the hub answers hello for it before it is written.
ConnectWithCode(m, d) == Live(d) /\ Adopt(m, d)

\* connect: host, id and token are typed in and written whatever hello says.
ConnectByHand(m, d) == devices[d].paired /\ Adopt(m, d)

Disconnect(m) ==
  /\ config[m] # NoDevice
  /\ config' = [config EXCEPT ![m] = NoDevice]
  /\ UNCHANGED <<hubVars, outbox, flushing, requests, caller, losses>>

Upgrade == UpgradeHub /\ UNCHANGED uplinkVars

-----------------------------------------------------------------------------
(* The satellite.                                                          *)

\* Mutant: the counter is taken from the rows still to be sent.
QueueWriteByPending(m, op) ==
  /\ config[m] # NoDevice
  /\ op \in Knows[m]
  /\ Len(outbox[m]) < MaxWrites[m]
  /\ LET next == Len(SelectSeq(outbox[m], LAMBDA r : r.gseq = 0)) + 1 IN
     outbox' = [outbox EXCEPT ![m] =
       Append(@, [dev |-> config[m], seq |-> next, event |-> <<m, next>>, op |-> op,
                  gseq |-> 0, pruned |-> FALSE])]
  /\ UNCHANGED <<hubVars, config, flushing, requests, caller, losses>>

\* Counter and envelope commit together; the caller does not wait.
QueueWrite(m, op) ==
  /\ config[m] # NoDevice
  /\ op \in Knows[m]
  /\ Len(outbox[m]) < MaxWrites[m]
  /\ outbox' = [outbox EXCEPT ![m] =
       Append(@, [dev |-> config[m], seq |-> Len(@) + 1, event |-> <<m, Len(@) + 1>>,
                  op |-> op, gseq |-> 0, pruned |-> FALSE])]
  /\ UNCHANGED <<hubVars, config, flushing, requests, caller, losses>>

\* flush: one loop per process; it captures the configuration and posts the
\* oldest unsent row.  With nothing to send the loop ends where it began.
StartFlush(p) ==
  LET m == Home[p] IN
  /\ flushing[p].state = "idle"
  /\ config[m] # NoDevice
  /\ \E k \in DOMAIN outbox[m] :
       /\ IsOldest(k, outbox[m])
       /\ flushing' = [flushing EXCEPT ![p] = Waiting(config[m], k)]
       /\ requests' = requests \cup {Post(p, config[m], k)}
  /\ UNCHANGED <<hubVars, config, outbox, caller, losses>>

\* An answer without a gseq: the row stays, the loop stops.
FlushBlocked(p) ==
  /\ flushing[p].state = "answered"
  /\ flushing[p].gseq = 0
  /\ flushing' = [flushing EXCEPT ![p] = Idle]
  /\ UNCHANGED <<hubVars, config, outbox, requests, caller, losses>>

\* Mutant: the answer is booked on the oldest unsent row, whichever that is by now.
AckedOldest(p) ==
  LET box == outbox[Home[p]] IN
  [k \in DOMAIN box |-> IF IsOldest(k, box) THEN [box[k] EXCEPT !.gseq = flushing[p].gseq]
                                             ELSE box[k]]

Acked(p) ==
  [outbox[Home[p]] EXCEPT ![flushing[p].seq].gseq = flushing[p].gseq]

\* The closing DELETE removes rows that are sent and KeepTail behind a sent one.
Stale(box) ==
  LET sent == DOMAIN box \ Unsent(box) IN {k \in sent : \E j \in sent : k + KeepTail <= j}

Prune(box) == [k \in DOMAIN box |-> [box[k] EXCEPT !.pruned = @ \/ k \in Stale(box)]]

\* An answer with a gseq: the row is marked sent and the next oldest one goes
\* out with the token the loop began with; at the end the outbox is pruned.
FlushAcked(p) ==
  LET m == Home[p]
      tok == flushing[p].tok
      box == Acked(p)
  IN
  /\ flushing[p].state = "answered"
  /\ flushing[p].gseq # 0
  /\ \/ \E k \in DOMAIN box :
          /\ IsOldest(k, box)
          /\ outbox' = [outbox EXCEPT ![m] = box]
          /\ flushing' = [flushing EXCEPT ![p] = Waiting(tok, k)]
          /\ requests' = requests \cup {Post(p, tok, k)}
     \/ /\ Unsent(box) = {}
        /\ outbox' = [outbox EXCEPT ![m] = Prune(box)]
        /\ flushing' = [flushing EXCEPT ![p] = Idle]
        /\ UNCHANGED requests
  /\ UNCHANGED <<hubVars, config, caller, losses>>

\* Mutant: the answer to an abandoned call still finds its process.
LoseCallHalf(p) ==
  /\ Lose
  /\ flushing[p].state # "idle"
  /\ flushing' = [flushing EXCEPT ![p] = Idle]
  /\ UNCHANGED <<hubVars, config, outbox, requests, caller>>

\* Timeout, refused connection, lost answer or a crash of the process: the
\* call is over for the flusher, its request may still be on its way.
LoseCall(p) ==
  /\ Lose
  /\ flushing[p].state # "idle"
  /\ flushing' = [flushing EXCEPT ![p] = Idle]
  /\ requests' = {q \in requests : ~(q.live /\ q.proc = p)}
                 \cup {[q EXCEPT !.live = FALSE] : q \in {r \in requests : r.live /\ r.proc = p}}
  /\ caller' = IF caller = p THEN NoProc ELSE caller
  /\ UNCHANGED <<hubVars, config, outbox>>

-----------------------------------------------------------------------------
(* The hub answers.  The token is the device; the envelope must name it.   *)

Authenticates(q) == Live(q.tok) /\ q.tok = q.env.dev

\* The route turns the request away before it reaches the chain.
TurnAway(q) ==
  /\ ~Authenticates(q)
  /\ requests' = requests \ {q}
  /\ Reply(q.live, q.proc, 0, IF Live(q.tok) THEN "device_id_mismatch" ELSE "unknown_device")
  /\ UNCHANGED <<hubVars, config, outbox, caller, losses>>

Refuse(q, err) ==
  /\ Authenticates(q)
  /\ running = 0
  /\ Refuses(q.env, err)
  /\ err = "journal_insert_failed" => losses < MaxLosses
  /\ losses' = IF err = "journal_insert_failed" THEN losses + 1 ELSE losses
  /\ requests' = requests \ {q}
  /\ Reply(q.live, q.proc, 0, err)
  /\ UNCHANGED <<hubVars, config, outbox, caller>>

AnswerReplay(q) ==
  /\ Authenticates(q)
  /\ running = 0
  /\ requests' = requests \ {q}
  /\ \E g \in DOMAIN journal : AnswersFromJournal(q.env, g) /\ Reply(q.live, q.proc, g, "")
  /\ UNCHANGED <<hubVars, config, outbox, caller, losses>>

\* A new event, or a reserved one whose outcome is missing, starts its op.
Begin(q) ==
  /\ Authenticates(q)
  /\ Reserve(q.env) \/ Resume(q.env)
  /\ requests' = requests \ {q}
  /\ caller' = IF q.live THEN q.proc ELSE NoProc
  /\ UNCHANGED <<config, outbox, flushing, losses>>

Run == RunOp /\ UNCHANGED uplinkVars

\* The response carries the gseq whether or not the outcome was recorded.
Finish ==
  /\ \/ StampOutcome(FALSE) /\ UNCHANGED losses
     \/ StampOutcome(TRUE) /\ Lose
  /\ Reply(caller # NoProc, caller, running, "")
  /\ caller' = NoProc
  /\ UNCHANGED <<config, outbox, requests>>

\* The caller of the row in hand sees its connection break.
Crash ==
  /\ HubCrash
  /\ Lose
  /\ Reply(caller # NoProc, caller, 0, "transport_error")
  /\ caller' = NoProc
  /\ UNCHANGED <<config, outbox, requests>>

\* A mind-write on the hub machine itself, recorded and journaled.
HubWrite ==
  /\ hubSeq < MaxHubWrites
  /\ JournalLocal(<<HubId, hubSeq + 1>>)
  /\ hubMind' = hubMind \cup {<<HubId, hubSeq + 1>>}
  /\ UNCHANGED uplinkVars

-----------------------------------------------------------------------------

OperatorStep ==
  \/ \E d \in Device : Pair(d) \/ Revoke(d)
  \/ \E m \in Machine, d \in Device : ConnectWithCode(m, d) \/ ConnectByHand(m, d)
  \/ \E m \in Machine : Disconnect(m)
  \/ Upgrade

SatelliteStep ==
  \/ \E m \in Machine, op \in Op : QueueWrite(m, op)
  \/ \E p \in Proc : StartFlush(p) \/ FlushBlocked(p) \/ FlushAcked(p) \/ LoseCall(p)

HubStep ==
  \/ \E q \in requests : TurnAway(q) \/ AnswerReplay(q) \/ Begin(q)
  \/ \E q \in requests, err \in RefusalErrors : Refuse(q, err)
  \/ Run \/ Finish \/ Crash \/ HubWrite

UplinkNext == OperatorStep \/ SatelliteStep \/ HubStep

UplinkSpec == UplinkInit /\ [][UplinkNext]_vars

\* Every process keeps starting its flusher (SyncPulse has the starters the code
\* has), promises settle, the hub answers a caller that still waits.  Losses are
\* bounded by MaxLosses; no operator action, update or abandoned request is owed.
Serve(p) ==
  \E q \in requests :
    /\ q.live /\ q.proc = p
    /\ TurnAway(q) \/ AnswerReplay(q) \/ Begin(q) \/ \E err \in RefusalErrors : Refuse(q, err)

UplinkFairness ==
  /\ \A p \in Proc : WF_vars(StartFlush(p)) /\ WF_vars(FlushBlocked(p))
                    /\ WF_vars(FlushAcked(p)) /\ WF_vars(Serve(p))
  /\ WF_vars(Run) /\ WF_vars(Finish)

FairUplinkSpec == UplinkSpec /\ UplinkFairness

-----------------------------------------------------------------------------
(* Safety.                                                                 *)

\* hub.js:11, state.js:314: a device's watermark and its journal rows never
\* part.  The rows of a device are numbered 1 to its watermark, each number
\* once, in journal order, whatever is resent, crashes or is turned away.
WatermarkIsJournal ==
  \A d \in Device :
    /\ {journal[g].seq : g \in {h \in DOMAIN journal : journal[h].dev = d}}
         = 1 .. devices[d].last
    /\ \A g, h \in DOMAIN journal :
         g < h /\ journal[g].dev = d /\ journal[h].dev = d => journal[g].seq < journal[h].seq

\* remote-client.js:119-145: a row marked sent names the gseq under which the
\* hub holds that very event, although the answer may have been to an earlier
\* copy, to another process, or from the journal.
SentIsJournaled ==
  \A m \in Machine : \A k \in DOMAIN outbox[m] :
    LET r == outbox[m][k] IN
    r.gseq # 0 => r.gseq \in DOMAIN journal /\ Wire(journal[r.gseq]) = Wire(r)

\* hub.js:73-74: the two refusals that mean hub and device disagree about
\* history are never an answer a correct satellite gets.
HistoriesAgree ==
  \A p \in Proc : flushing[p].error \notin {"watermark_ahead_of_journal", "event_id_mismatch"}

\* remote-client.js:119-121: order is preserved in the outbox; no row is sent
\* while an older one is not, even with several flushers and lost answers.
SentInOrder ==
  \A m \in Machine : \A j, k \in DOMAIN outbox[m] :
    j < k /\ outbox[m][k].gseq # 0 => outbox[m][j].gseq # 0

\* hub.js:69-82, remote-client.js:119-146: machine and hub stay in step through
\* timeouts, resends and late copies.  What the hub holds of a machine is at most
\* one row ahead of what the machine knows to be there; and a device that was not
\* paired anew over older rows is never told that a number is missing.
InStep ==
  /\ \A m \in Machine : \A g \in DOMAIN journal : \A j, k \in DOMAIN outbox[m] :
       journal[g].event = <<m, k>> /\ j < k => outbox[m][j].gseq # 0
  /\ \A p \in Proc : flushing[p].error = "sequence_gap" =>
       LET box == outbox[Home[p]] IN
       \E j \in DOMAIN box : j < flushing[p].seq /\ box[j].dev # box[flushing[p].seq].dev

\* state.js:323: "outcome ... NULL only inside the crash window": with no fault
\* so far, only the row in hand has no outcome.
OpenOnlyInHand ==
  losses = 0 => \A g \in DOMAIN journal : journal[g].outcome = "null" => g = running

\* hub.js:99-100, 154-157: once a row exists it is never rewritten, and once
\* its outcome is recorded no replay runs the op again or changes it.
HistoryIsFinal ==
  [][/\ \A g \in DOMAIN journal :
          /\ g \in DOMAIN journal'
          /\ Wire(journal'[g]) = Wire(journal[g])
          /\ journal[g].outcome # "null" => journal'[g].outcome = journal[g].outcome
     /\ running' # running /\ running' # 0 => journal'[running'].outcome = "null"]_vars

\* hub.js:7-13: the uplink implements the shared log: what the machines queued
\* enters it in each device's order, without gaps and at most once.
Authored ==
  (UNION {{Wire(outbox[m][k]) : k \in DOMAIN outbox[m]} : m \in Machine})
    \cup {Wire(journal[g]) : g \in {h \in DOMAIN journal : journal[h].dev = HubId}}
Log == INSTANCE SharedLog
         WITH written <- Authored, log <- [g \in DOMAIN journal |-> Wire(journal[g])]
ImplementsSharedLog == Log!LogSpec

-----------------------------------------------------------------------------
(* Why SentIsJournaled holds: journal rows, requests and calls all speak of *)
(* outbox rows, and a caller waits for one answer at a time.               *)

\* A device's journal row is an outbox row, under the event that row names.
JournalIsQueued ==
  \A g \in DOMAIN journal : journal[g].dev \in Device =>
    \E m \in Machine : \E k \in DOMAIN outbox[m] :
      journal[g].event = <<m, k>> /\ Wire(journal[g]) = Wire(outbox[m][k])

OutboxIsOwn == \A m \in Machine : \A k \in DOMAIN outbox[m] : outbox[m][k].event = <<m, k>>

\* What travels, to the end of its days, is an outbox row of the sender's machine.
RequestsAreQueued ==
  \A q \in requests :
    /\ q.env.seq \in DOMAIN outbox[Home[q.proc]]
    /\ q.env = Wire(outbox[Home[q.proc]][q.env.seq])

\* A live request is its caller's only one and is about the row it waits for.
OneCallEach ==
  \A q \in requests : q.live =>
    /\ flushing[q.proc].state = "waiting"
    /\ flushing[q.proc].seq = q.env.seq
    /\ caller # q.proc
    /\ \A r \in requests : r.live /\ r.proc = q.proc => r = q

\* p's call is about an existing row, and journal row g is that row.
AsksFor(p, g) ==
  /\ g \in DOMAIN journal
  /\ Wire(journal[g]) = Wire(outbox[Home[p]][flushing[p].seq])

\* remote-client.js:126-145, hub.js:45-50: an answer is about the row its caller
\* posted, although late answers, other processes and resends may cross it.
AnswersMatchCalls ==
  /\ \A p \in Proc :
       /\ flushing[p].state # "idle" => flushing[p].seq \in DOMAIN outbox[Home[p]]
       /\ flushing[p].state = "answered" /\ flushing[p].gseq # 0 => AsksFor(p, flushing[p].gseq)
  /\ caller # NoProc => flushing[caller].state = "waiting" /\ AsksFor(caller, running)

CallInv ==
  JournalIsQueued /\ OutboxIsOwn /\ RequestsAreQueued /\ OneCallEach /\ AnswersMatchCalls

-----------------------------------------------------------------------------
(* Liveness.                                                               *)

\* server.js:6701-6704: "this pulse is the retry lane that drains the outbox
\* after an offline stretch": a machine that stays connected with a live
\* identity, under which it queued all it has yet to send, to a hub that knows
\* its ops, ends with nothing unsent.
Sendable(m, d) ==
  /\ config[m] = d /\ Live(d)
  /\ \A k \in Unsent(outbox[m]) : outbox[m][k].dev = d /\ outbox[m][k].op <= catalogue
OutboxDrains ==
  \A m \in Machine, d \in Device :
    (<>[]Sendable(m, d)) => <>[](Unsent(outbox[m]) = {})

=============================================================================
