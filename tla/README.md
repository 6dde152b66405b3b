# troth, a verification development

TLA+ models of the parts of troth that run concurrently over one database or over a
network: substrate sync (how one mind, kept on one machine, takes in the writes of
several devices, hands its history back to them, and decides which devices may take
part), governed dispatch (how an intent becomes an effect on the world once, under
capability, seal and pause), and the upkeep of a machine (the maintenance worker, its
supervisor and its tick loop). Every module is checked with TLC on small instances;
every invariant, action property and refinement of the passing runs is proved with
TLAPS for all instances. Liveness is model-checked; what it rests on step by step is
proved.

Paths below are relative to the repository root.

## 1. Inventory

troth is a local proxy and tool server around a SQLite "substrate" that holds an
agent's memory. Its parts, with the state each keeps:

| Part | State | Operations | Hard behaviour |
|---|---|---|---|
| Hub sequencer (`shared-core/sync/hub.js`) | `sync_events` (journal, order = `gseq`), `sync_devices` (watermark, revocation), `_chain` | `applyEvent`, `addDevice`, `revokeDevice`, `listEventsSince`, `baseline` | an await between the reserved row and its outcome; crashes in between; replays; two writes in one transaction, a third outside it |
| Satellite (`sync/remote-client.js`) | `sync_outbox`, `dev_seq`, `config.sync`, `_flushing` per process | `queueWrite`, `flush`, `connectWithCode`, `connect`, disconnect | several processes over one outbox, timeouts racing late answers, re-pairing under a full outbox, who tries again |
| Replica (`sync/replica.js`) | `replica_applied_gseq`, `replica_bootstrapped`, `replica_quarantined_op`, `_pulling` | `pull`, `bootstrap`, `_applyOne` | position and apply are two writes, import is three, the feed has holes |
| Hub's own writes (`sync/hub-journal.js`) | `hub_seq`, a five-second cache | `hasFollowers`, `maybeJournal` | a cache that outlives a pairing |
| Pairing (`sync/pair-requests.js`, routes in `proxy/server.js`) | `_requests`, `_invites`, `_receivedInvites`, `_syncFollow` | knock, list, approve, deny, poll; invite, note, join, redeem | expiry between two looks, a code handed out once over a line that may drop the answer, one slot for several poll loops |
| Op catalogue (`sync/catalogue.js`) | none | `getOp` | builds of different age |
| Hybrid clock (`sync/hlc.js`), pairing code (`sync/pairing.js`), discovery (`sync/discovery.js`) | none that steers sync | - | - |
| Governed dispatch (`shared-core/intent.js`, `dispatcher.js`, `seal.js`, `global-pause.js`, intent predicates of `state-machine.js`) | intent and observation engrams, `intent_state`, `l4_effect_ledger`, pause and resume markers, seals | `writeIntent`, `dispatchOne`, `dispatchPending`, claim, adapter call, record; pause, resume, seal, revoke | several processes that drain one table, an await around the adapter, a crash between adapter and ledger, keys cut from the minute |
| Upkeep, proxy side (`proxy/modules/maintenance-child.js`) | `child`, `restartTimer`, `taskNames`, `pendingRuns`, `runSeq` | start, stop, restart, `whenReady`, `runTask`, foreground ping | exits, answers and timers in any order; a handle whose process never was |
| Upkeep, worker side (`bin/troth-maintenance.js`, `background-worker.js`, `maintenance-gate.js`) | `lastRun`, `running`, the gate file, ledger rows (the lease) | `tick`, `runNow`, stdin close, pause, resume | the gate read once per cycle, the lease read before and written after a run, a budget that one task can use up |
| Claims (`shared-core/claims.js`, `state-machine.js`) | claims, disputes, probes | assert, probe, dispute, resolve, supersede | late probes, callbacks that come twice |
| Agent supervisor (`agent-supervisor.js`) | job graph | plan, run, retry | scheduling |
| Codex token store (`codex-token-store.js`, `codex-auth.js`) | token file, login in progress | login, refresh | refresh races |
| Server registry (`server-lifecycle.js`) | pids | list, start, stop | process I/O |
| Memory (engrams, dialogue, recall, lessons), vault, market, audit, proxy routing | substrate tables, files | - | text, ranking, cryptography and streaming, not control |

How the sync parts meet: a mind-write on a device calls `queueWrite`, which nudges
`flush`; `flush` POSTs the envelope to `/api/sync/event`; the route authenticates
the token and calls `applyEvent`, whose chain runs one event at a time. A write on
the hub machine calls `maybeJournal` in the same breath. Followers GET
`/api/sync/baseline` once and `/api/sync/events` from then on. `server.js:6701-6717`
restarts flush and pull every 15 seconds.

How the parts of dispatch meet: an emitter (`intent_emit`, `mcp_call`,
`control:emit_intent`) calls `writeIntent`, whose predicates read the engrams before
the engram and its `intent_state` row are written; a drain lists the validated rows.
`dispatchOne` checks the predicates again with the adapter's class, claims the row by
a guarded UPDATE, looks into the effect ledger, awaits the adapter, writes the
observation, the ledger row and the outcome. The operator's pause is a marker every
one of these checks compares with the newest resume.

How the parts of upkeep meet: the proxy starts the worker and passes it
`POST /api/maintenance/run` (`server.js:3893-3934`) by `whenReady`, `runTask` and a line
on its stdin; `runNow` runs the task and writes a `ran` line; the proxy, on reading
it, resolves the pending request and writes the ledger row that keeps every other
runner (the worker's own ticks, `runDueTasks`, session starts) from the task for its
cadence.

What would make each part correct:

* Hub: the watermark is the journal's (no row without it, no gap, no number
  twice), rows and outcomes are final, one open row at a time.
* Satellite: a row marked sent is in the journal as that event; order is kept; a
  connected outbox drains.
* Replica: events are applied in the hub's order, none twice into the journal,
  none missed; the position catches up.
* Hub's own writes: all of them reach the journal while somebody follows.
* Pairing: one credential per click, handed over once, expired knocks are worth
  nothing, the operator's lists are bounded, polls end.
* Dispatch: an adapter is called once per intent and for no effect already known to be
  done; high effects are sealed; a pause stops a drain in its middle; nothing done is
  silent.
* Upkeep: every request is answered, with an answer to itself; a worker there is while
  the proxy lives and none after; a pause ends the scheduled work; every task's turn
  comes.

## 2. Modules

| Module | Models |
|---|---|
| `SharedLog` | what the fleet is promised: one log, each device's entries in its order, without gaps, at most once, never rewritten |
| `SyncHub` | the hub's state and one operator per step of the hub |
| `SyncUplink` | `SyncHub` composed with machines, outboxes, flushing processes, requests in flight and the operators' pairing actions |
| `SyncPulse` | `SyncUplink` with the three things that start a flush, and proxies that come and go |
| `SyncFeed` | `SyncHub` composed with followers that pull its journal, and with the hub's own writes |
| `IntentLife` | what governed dispatch promises of an intent: claimed or refused and never both, called once and under a claim, observed once, nothing undone |
| `PairRequests` | knocks, invites, polls and joins on both machines |
| `GovernedDispatch` | runners that emit and dispatch intents over one database, and the operator's brake, seals and revocations |
| `Upkeep` | the proxy's supervision of the maintenance worker, the worker's loop, the gate and the lease |
| `MC...` | values of the constants for TLC |
| `SyncUplinkProofs`, `SyncHistoryProofs`, `SyncPulseProofs`, `SyncHubProofs`, `SyncFeedProofs`, `PairRequestsProofs`, `GovernedDispatchProofs`, `UpkeepProofs` | TLAPS proofs, section 5 |

### SyncHub

`journal` is `sync_events`; a row's position is its `gseq`, which is sound because
the journal is never pruned and only the single writer inserts. `devices[d]` is the
row of `sync_devices`. The chain of `applyEvent` is `running`: the gseq of the row in
hand. `_apply` is split where the code gives up control: `Reserve` (checks, INSERT
and watermark in one transaction), `RunOp` (the awaited handler settles),
`StampOutcome` (the UPDATE, which may fail and is swallowed). `Resume` is the replay
that finds a row without an outcome, `AnswersFromJournal` the replay that finds one.
`HubCrash` loses `running`, which lives in memory. An op is represented by the
catalogue version that first knows it.

### SyncUplink

`outbox[m]` is `sync_outbox`, its position the `dev_seq`; pruned rows are marked and
not removed, so the properties can speak of them. `flushing[p]` is process `p`'s
flush loop: idle, waiting for an answer, or holding one. `requests` holds POSTs the
hub has not taken up. `LoseCall` is a timeout, a refused connection or a dying
process: the caller goes on, the request stays behind with `live = FALSE` and may be
served later. That one action covers lost requests (never served), lost answers
(served, not heard) and duplicates (served after a resend). Authentication and the
chain's own device check are one step here; a revocation between them gives the same
answer. `Knows[m]` is what the build of machine `m` can queue; the hub's catalogue may be older.

Two machines never hold the same identity: `Untouched` says so, because a code is
handed to one machine. A code copied by hand onto two machines is outside the model.

### SyncPulse

`SyncUplink` lets any process flush at any moment. Here a flush starts only by
`Nudge` (the `setImmediate` behind a write, once, in the writer's process), `Pulse`
(the interval of a proxy) or `ByHand` (`troth sync flush`). `proxy[m]` is decided in
`Boot`: whether the interval exists depends on the configuration at that moment and is
not looked at again. `Quit` is a command that exits in the turn it wrote in
(`bin/cmd-confirm.js:44-66`), so no nudge follows; `Exit` ends the proxy with its timers
and its open call. Every step is a step of `SyncUplink` or leaves it alone, which is
the property `ImplementsUplink` and the theorem `PulseImplementsUplink`.

### SyncFeed

A device is a following machine. The way up is reduced to what `SyncUplink`
establishes: its events arrive in order and an unanswered one is sent again.
`pulling[d]` is where `_pullLoop` or `bootstrap` stands at each await or separate
write: `ApplyHead` applies one event, `Advance` moves the position, and a crash
(`LosePull`) may come between; `ImportBaseline`, `StampPosition` and `FinishBoot`
are the three writes of a first pull. A handler may fail (`op_failed`), on the hub and on
each follower by itself. The hub records the failure as an outcome (`hub.js:149-155`), so
the row is finished and served like any other (`hub.js:239`); a follower swallows it and
moves on (`replica.js:63-72`, `101`). `passedOpen`, `refused` (rows whose handler failed) and
`unheard` are history variables: no action reads them.

The journal the followers read is the `SharedLog` of the uplink with the hub's own
words in it (`ImplementsSharedLog`): what a device has authored, or the hub has said,
is what is written.

### PairRequests

`knocks` is `_requests`, `invites` and `received` the two invite maps, `started` the
one `_syncFollow` slot, `following` the interval loops that are still running (there
may be several, and all look at the one slot). Whatever the code sweeps on the way is
part of the action. `Poll` takes the code out of the store whether or not the answer
arrives. `reachable` says whether the two machines can talk at all and changes as often as
it likes (`Outage`); `KnockUnheard` is a knock into an outage, which leaves a slot without
a start (`server.js:2749`).

### GovernedDispatch

A runner is one chain of calls: an emitter that goes on to dispatch, or a drain.
`pc[r]` names the points at which another process or an await may come between:
after the predicates and before the rows of a new intent (`Emit`, `Record`), after the
second check (`Recheck`), after the claim, around the adapter, and between observation,
ledger row and final status (`Observe`, `RecordEffect`, `Settle`). A drain keeps the
list it read in `todo`. An idempotency key is a target and the minute it was cut in;
the key of the ledger is the target with its effective class. Markers are ordered by
the millisecond (`now`), so a pause and a resume may tie. `failed_late` is an adapter
that had its effect and reports a failure. A revocation takes the capability and the
grounding of a target at once. `called`, `performed`, `lost`, `abandoned`, `stopped`,
`overrun` and `swallowed` are history: no guard reads them.

Almost every read and write here catches its own failure and the chain goes on, and each
is a branch of its action: the state row of a new intent is missing (`state.js:3600`), a
claim's UPDATE fails and reads as another's claim (`state.js:3628-3649`), a look into the
ledger fails and reads as "not done" (`dispatcher.js:258-259`), the observation comes back
empty and nobody looks (`dispatcher.js:297`), the ledger row or the outcome is not written
(`dispatcher.js:310-331`, `state.js:3666`, `3686`), the markers of the brake cannot be read and read
as "not paused" (`global-pause.js:52`), and the duplicate check finds nothing to read in the
same way (`state-machine.js:466`). The other predicates refuse when they cannot read. `swallowed`
notes, per step, the intents it happened to; a ledger row not written counts as `lost`.
The duplicate check of `Emit` sees every engram, that of the code the 500 newest
(`state-machine.js:466`).

`IntentLife` is the same intent without runners, drains, checks or crashes, and
`ImplementsLife` the refinement. An intent whose state row was never written is *refused*
from the start (`WriteDead`): nothing can claim it. An intent is *claimed* there when a runner holds it, was
lost with it, or brought it to an outcome (`Taken`), and *refused* when its state row has
left `validated` and nobody took it. The mapping does not ask what the state row of a taken
intent says: runners that both listed it overwrite each other's rows.

### Upkeep

Times are not numbers. `fresh` is the set of tasks whose newest ledger row is within
the cadence and `last` those whose `lastRun` is; `Expire` ages one. A timer is an action
that may fire; the pauses between restarts grow in the code, and their length is left
out. The two pipes are sets of lines, readable in any order, which over-approximates
them. `handle = "deaf"` is a child whose spawn failed with `error` and without
`exit`: no action removes it, as in the code. `Tick`, `GoOn` and `FinishTask` are one
turn of the worker's loop between two awaits. Any run may outlast the budget of its cycle,
as often as it likes; `cut` is a history variable that names the task behind which the last
run found the budget used up. A worker may be `stillborn`: its start fails and it exits
before its ready line (`troth-maintenance.js:25-33`). `RunNow` is a run that was asked for and
shares the loop. Other runners of the same tasks appear by the row they leave
(`RunElsewhere`). A request is numbered by `runSeq`; the `for` field of a line is a note
only the property reads.

## 3. Runs

| Run | Instance | Shows |
|---|---|---|
| `uplink` | 2 machines of different builds, a process each, 2 identities, 2 + 1 writes and one of the hub's, 1 fault of any kind | watermark and journal agree, history is final and never disputed, only the row in hand is open, the hub is at most one row ahead of a machine and tells none with one identity of a gap (`InStep`), and the uplink implements `SharedLog` |
| `pulse` | 1 machine with its proxy and one other process over one outbox, ops of two versions, 2 writes, 1 fault | rows are sent in order, answers find their calls, what is marked sent is journaled; the system with its starters is an uplink; where the proxy pulses, the outbox drains (`PulseDrains`) |
| `uplink_repair` | 1 machine, 2 identities, no fault | violated: after pairing again the outbox never drains |
| `feed` | 2 followers, one of them new, a write each, a hub write, 1 fault, a failing handler among them | order, no echo, followers hold nothing the mind lacks without having recorded its failure, only rows passed open and rows whose handler failed are missed, and the journal they read implements `SharedLog` |
| `feed_live` | 2 followers, builds that lag, 1 fault | followers catch up, and end with every finished record but those passed open and those whose handler failed |
| `feed_hole` | 2 settled followers, no fault | violated: a page passes a row whose op still runs |
| `feed_unheard` | no settled follower, 2 hub writes | violated: a write right after the first pairing is not journaled |
| `pairing` | 1 device, 2 addresses, 3 ids, 3 ticks, any number of outages, 1 mishap | one credential per click, none mislaid, bounded lists, polls end once the mind can be reached or the slot keeps its start |
| `pairing_stale` | 2 devices | violated: an expired knock is still approved |
| `dispatch` | 2 runners, a high adapter, 2 intents declared low, 2 markers, 1 mishap: a crash or a swallowed failure | one call per intent, nothing high unsealed, at most one effect past a pause, nothing silent but by the failure of that write, repeats only beside a live runner, after a loss or past an unread ledger, and every intent lives as `IntentLife` says |
| `dispatch_resume` | 1 runner, 2 intents declared low or sealed_only, 1 mishap | violated: an effect is repeated after a crash between adapter and ledger |
| `upkeep` | 2 requests for one task, a list of 2 tasks, 1 death or failed spawn, runs that may outlast the budget | every request settles with its own answer, a worker is kept alive and leaves with the proxy, a pause quiets, a task waits for ever only behind runs ahead of it that outlast the budget |

Each property of a passing run is broken by a mutated definition kept beside the
original (comments marked "Mutant"), so each is known to depend on the code it is
about. Mutants are used by no specification.

### Bounds and why they are enough

* Writes (`MaxWrites`, `MaxAuthored`, `MaxHubWrites`): two rows of one machine are
  needed for order, gaps and pruning (`KeepTail = 1` makes the first row go when the
  second is sent); a second machine brings a second watermark and a second event for
  the chain, and with its newer build an op the hub does not know yet. Rows of one device
  interact only with their neighbours.
* Processes: what two of them do to one outbox is the question of `pulse`, what two
  machines do to one hub that of `uplink`; each run leaves out the other's half, and
  the proofs of section 5 hold for both at once.
* Faults (`MaxLosses`, `MaxMishaps`, `MaxDeaths`): one fault at any moment, of any kind.
  In `feed` a failing handler is one; in `dispatch` a crash past the claim and a swallowed
  failure share one budget, while runners that die before they claimed anything and state
  rows, claims and refusals that are not written are free. Outages in `pairing` and runs that outlast
  the budget in `upkeep` are not counted. The proofs of section 5 hold for any number.
* Identities: two, so a machine can be paired again while requests of its first
  identity are still on their way.
* `pulse`: proxies stop and start, devices connect and disconnect any number of times;
  the second process brings nudges that are lost and loops nobody starts again.
* `PageSize = 2` with up to three rows: pages that end before, at and after the end
  of the journal.
* `Ttl = 1`, `MaxClock = 3`: a knock can be fresh, at its limit and expired while the
  operator looks. `Knock` is enabled only early enough for its loop to see the limit
  pass; later knocks would only be cut off by the end of the clock.
  `MaxPending = 2`, `MaxPerAddress = 1` with two addresses: the cap of an address is met
  alone, the cap of the list only with it; `ListsStayShort` is about any caps.
* `dispatch`: two intents for one target race for one key, both declared below their
  adapter, so that the first check goes by one class and the second by another
  (`dispatch_resume` has one declared above it too); `MaxMarkers = 2` is a pause and its resume (or two pauses)
  which may fall on one tick, `MaxTime = 2` with `TicksPerMinute = 2` is one tick in each
  of two minutes, so a second intent has the key of the first or another;
  `dispatch_resume` has a third tick. The adapter of `dispatch` succeeds or fails late: a
  plain failure is a late one without its effect, and each property is the easier to
  violate the more effects there are; the proofs take in all three outcomes.
* `upkeep`: two requests for the second task of two, so that a late answer, a restart
  and the head of the list can each come between. Pauses, foreground pings, expiries, runs
  elsewhere and runs that outlast the budget are unbounded.
* Deadlock is checked in `pulse`, where proxies always start or stop. Elsewhere it is
  not: with all bounded writes, intents or requests done the systems may stop.
* The symmetry of `uplink` swaps the two identities, that of `dispatch` its two
  runners, which no definition tells apart; the liveness runs use none.

### Fairness

`SyncPulse` assumes that timers fire (the 15 s interval of a pulsing proxy,
`server.js:6709-6713`; the `setImmediate` of a process that stays), that an open call is
answered or given up (every request has a timeout) and that the hub goes on with the
row in hand. Nothing makes anyone write, boot a proxy, flush by hand or reconnect, and
no process but the proxy tries again. `PulseDrains` therefore asks for a machine whose
proxy pulses from some point on; a proxy that booted before the machine was paired
does not, see section 4. `uplink_repair` uses the stronger fairness of `SyncUplink`, under which
every process keeps flushing: the outbox does not drain even then.

`SyncFeed` assumes weak fairness of the pull, which the same interval restarts, and so
speaks of machines that followed a mind when their proxy started. Losses are
bounded, not fair: after finitely many faults the network works. Nothing is assumed of
operators, updates or late copies of requests. `PairRequests` assumes that time passes
and the three-second interval keeps polling a mind that can be reached. Outages are not
bounded, so `FollowEnds` says when a loop ends: if from some point on the mind can be
reached, or if the slot keeps a start the loop can time out by. A knock that failed in an
outage takes that start away, see section 4.

`Upkeep` assumes that timers fire, pipes are read, exit events are delivered, a run of a
task ends and a process whose stdin closed exits. Nothing makes an operator ask, a
worker die, a row age or an asked task run. `TurnComes` is about a machine left alone
(`LeftAlone`): the idle gate and the pause may hold work back for as long as they last, and
so may the tasks ahead: it promises a task its turn only if from some point on no run ahead
of it in the list uses up the budget of its cycle.
Requests and the host only move forward, so their liveness is written with `[]<>` and
`<>[]`.

## 4. Divergences found

1. **A follower can lose a record for good** (`feed_hole`). `hub.js:239` skips rows
   without an outcome but serves newer ones, so a position can pass an open row;
   `hub.js:261` stamps the baseline with the newest gseq whatever its state.
   `hub.js:257` promises "nothing missed". `MissesExplained` shows that a record is missed
   only so, or because its handler failed, on the follower or on the hub before the
   baseline; see below.
2. **A write is not journaled although a device follows** (`feed_unheard`):
   `hub-journal.js:19` against `hub-journal.js:6-8`.
3. **A machine paired again never drains its outbox** (`uplink_repair`):
   `remote-client.js:252` keeps the counter, the hub starts the new device at 0, every
   further write is a `sequence_gap`.
4. **An expired knock can be approved** (`pairing_stale`): `pair-requests.js:52` does
   not look at the age, against `pair-requests.js:8-9`.
5. **An effect can be repeated after a crash** (`dispatch_resume`): the ledger row
   (`dispatcher.js:310`) is written after the adapter returned and after the
   observation; a process that dies in between leaves none, and the intent emitted
   again calls the adapter again, against `state.js:918-923` and `dispatcher.js:250-251`.
   `RepeatsOnlyInFlight` shows that this, a late failure, a race of live runners and a
   ledger that could not be written or read, which the code accepts
   (`dispatcher.js:308-309`), are the only ways.

Read in the code while modelling, and stated by no run of their own:

* `replica.js:63-72` takes every exception of a handler for a refusal of its content and
  moves on, and a handler that returns with nothing recorded passes as well; `replica.js:25-26`
  warns of "silent skipping". A failure that had nothing to do with the record (a locked
  database) costs the follower the record.
* A follow loop times out by the slot of the newest knock. A knock that gets no answer
  leaves a slot without a start (`server.js:2749`), the comparison at 2755 is then never
  true, and an older loop polls until the mind answers (2757) or the proxy ends.
* The brake fails open: markers that cannot be read count as "not paused"
  (`global-pause.js:52`), while grounding, capability and seal then refuse. `BrakeBoundsOverrun` excepts the
  intents this happened to.
* `server.js:6706-6708` installs the pulse only if sync was configured when the proxy
  started. A machine paired through the running proxy sends each write by its nudge
  alone until the proxy is restarted: an outage leaves its rows to the next write.
* `server.js:6957-6958` and `bin/troth-entity.js:2592` speak of a lease that never lets
  work be done twice; it is looked up before a run and written after it
  (`background-worker.js:2067-2087`), so two runners may overlap.
* `server.js:3391-3396` takes the pause "immediately"; the gate and the foreground ping
  are read at the start of a tick, so the cycle in progress goes on. `PauseQuiets` says
  what is true: it is the last.
* The drain's budget of ten seconds (`background-worker.js:1313`) exceeds the cycle's
  five (`background-worker.js:21`), and it is due at every tick, so the tasks behind it
  wait while its backlog lasts. `TurnComes` says that nothing else keeps a task waiting.
* A spawn that fails with `error` alone is never followed by another
  (`maintenance-child.js:76`). `KeptAlive` and `LeftAlone` except it by name.

## 5. Proofs

All proofs are for any sets of machines, processes, devices, ops, runners and callers,
any faults and any bounds, from the assumptions named in the modules: the types of the
constants, that `HubId`, `NoDevice`, `NoProc` and the like are none of the others, and
in `SyncPulse` that a proxy is a process of its machine.

**`SyncUplinkProofs`.** `UplinkTypeCorrect` has one step per action. `WatermarkCorrect`:
`JournalStep` reduces every step to three changes of the journal (none, one accepted
envelope, one row of the hub's own), over which the invariant is inductive.
`AnswersCorrect`: by itself `AnswersMatchCalls` is not inductive, for an answer taken
from the journal is about the row the caller asked for only because journal rows,
requests and calls all descend from outbox rows. The inductive invariant is `CallInv`:
every device row of the journal is an outbox row under the event that row names
(`JournalIsQueued`, `OutboxIsOwn`), every request, abandoned or not, is such a row
(`RequestsAreQueued`), and a live request is its caller's only one (`OneCallEach`).
`JournalGrowsStep` and `OutboxGrowsStep` say that neither side rewrites an entry, so what
was asked stays asked. `SentIsJournaledCorrect` follows with `SentStep` (only an
acknowledged answer marks a row sent, and only the row its caller posted).

**`SyncHistoryProofs`.** `SentInOrderCorrect` strengthens with `PostedInOrder` (a posted
row has only sent rows before it). `OpenOnlyInHandCorrect` and `HistoryIsFinalCorrect`
use `InHandIsOpen`: the row in hand has no outcome yet. `HistoriesAgreeCorrect` needs
`OneMachineEach` (an identity lives on one machine) to show that a device's next
number is the one its outbox gives. `InStepCorrect` is about copies of a row that still
travel: its invariant adds that every such copy has only sent rows before it
(`RequestsInOrder`), so a row enters the journal only after the rows before it were
acknowledged (`HubOneAhead`), and a gap is answered only to a machine whose outbox holds
older rows of another identity (`GapsExplained`). `HeadIsTakenCorrect` draws what a flush
needs from it: the next row to send is the one the hub expects or the last it took, so
after any loss or resend the hub can tell it from a gap. `UplinkImplementsSharedLog` is the
refinement: each journal step is a `Commit` of the log or an entry of the hub's own, each queued write an
`Author`, everything else a stutter, from `CallInv`, `WatermarkIsJournal` and
`OwnCounted` (the hub's rows are numbered by `hub_seq`).

**`SyncPulseProofs`.** `PulseImplementsUplink` shows that every starter either starts a
flush the uplink allows or leaves it alone; the theorems about `UplinkSpec` then hold of
`PulseSpec`, of which `PulseTypeCorrect`, `PulseSendsInOrder` and `PulseKeepsInStep` make
use.

**`SyncFeedProofs`** (with the lemmas about the hub in `SyncHubProofs`). The inductive
invariant is `FeedKept`: per journal row, who wrote it and that the event of a row that
succeeded is in the hub's mind (`RowKept`), the row in hand, the outboxes; and per device, that its
page is a cut of the journal (`PageKept`), its baseline a state of the hub
(`BaseKept`), and that what lies behind its position was applied, is its own, was
passed open or is noted as refused (`Covered`). From it `NothingElseMissed`, `HistoryNotRequests`,
`EventsEnterOnce` and `FeedInOrder`. `FeedImplementsSharedLog` is the refinement, from
`Counted`: the numbers a writer has in the journal are exactly those up to its watermark, or
`hub_seq`; so what `Reserve` accepts is the next entry of its device (`TakesCommits`), and
the hub's own write is authored and committed at once. `CaughtUpIsWholeCorrect` reads
`FeedKept` at the end of the journal: a follower that stands behind no finished row holds
all that is owed to it (`Owed`: the finished records but for rows it passed open and rows
whose handler failed). With it `DrainingIsEnough` derives one
liveness property from the other: if `FollowersCatchUp`, then `MindsConverge`.

**`PairRequestsProofs`.** `OneCredentialPerClick` from `Once`: an id is a knock or an
invite, nothing is minted before the operator's answer, and a code that waits is the
only one and was heard by nobody. `ListsStayShort`: the caps are inductive.
`CredentialsArrive` from `Kept`: while nothing went wrong both machines date a knock
alike, and a pending knock is followed or old. `OneHolderCorrect` from `EachItsOwn`: the ids
a machine follows, keeps an invite for, joins with or holds a code of were given to it, for
ids are never given twice; so a credential reaches the device that asked and no other.

**`GovernedDispatchProofs`.** `ClaimExclusive` from `Claimed`: whoever holds an intent or
called for it has left its row in another state than a claim asks for.
`EffectsAccountedFor` from `Accounted`: the observation is written before the state row,
or its failure is on `swallowed`.
`EffectsNotRepeated` from `Recorded`: an effect had is in the ledger, in the hands of the
runner that had it, or lost, with that runner or with the entry that was not written.
`BrakeHolds` from `Braked`: while the last word is a pause, a runner that has had its one
effect is not on its way to another, unless its check could not read the markers.
`HighEffectsSealed` from `Sealed`: an intent marked sealed was, and what passed the second
check was backed by it. `DispatchImplementsLife` has one lemma per kind of step, on
`Claimed`, `Accounted` and `Fresh` (what is taken has left `validated`, and what a runner is
about to call for has no outcome on record yet).

**`UpkeepProofs`.** `AnsweredRight` from `Numbered`: ids are at most `runSeq`, differ among
the pending, and every line on either pipe with a pending id is that caller's.
The others are what the liveness properties of `Upkeep` rest on. `Held` (a process under a
living proxy is the one the proxy holds, and a proxy without a handle has a restart due)
gives `OneWorker`, that a restart never meets a living worker, and `RestartOnTheWay`, the
safety half of `KeptAlive`. `SettledForGood` belongs to `EveryRequestSettles`,
`NoneStartedAfter` to `LeavesWithTheProxy`, `PausedCycleRunsOut` (under a pause a cycle only
goes forward and ends) to `PauseQuiets`, and `NoTaskPassedOver` to `TurnComes`: a cycle
passes over a task only if that task has run within its cadence and then remembers it; only
a run that found the budget used up, and is then in `cut`, leaves the rest for later.

Only model-checked: the liveness properties, which rest on fairness and `ENABLED` and are
out of the prover's reach. What is proved of each:

| Liveness, by TLC | Proved |
|---|---|
| `PulseDrains` | the row to send next is one the hub takes (`PulseKeepsInStep`), in order (`PulseSendsInOrder`) |
| `FollowersCatchUp` | rows are applied in the hub's order (`FeedInOrder`) |
| `MindsConverge` | follows from `FollowersCatchUp` (`DrainingIsEnough`) |
| `FollowEnds` | - |
| `EveryRequestSettles` | a settled request stays so (`SettledForGood`), rightly answered (`AnsweredRight`) |
| `KeptAlive` | a worker is there or on its way (`RestartOnTheWay`), one at a time (`OneWorker`) |
| `LeavesWithTheProxy` | none is started afterwards (`NoneStartedAfter`) |
| `PauseQuiets` | the cycle in progress is the last and runs out (`PausedCycleRunsOut`) |
| `TurnComes` | no task is passed over (`NoTaskPassedOver`) |

## 6. Not modelled

* The read side of sync (`runQuery`, `readRemote`, `hello`, `status`) and malformed
  envelopes, which `queueWrite` never produces.
* Contents: what a handler writes or deduplicates, and why it fails. `SyncFeed` assumes that
  applying an event twice lands on the same record (`replica.js:20-24`).
* The hybrid clock, the pairing code's encoding and LAN discovery: they decide nothing
  in the modelled steps.
* Of dispatch: the cost breaker, inert in this tree (`dispatcher.js:203-213`), the
  adapters, the seal request inbox, sub-partner budgets, intents whose scope has no
  adapter, the other transitions of `state-machine.js`, a system clock stepped back
  under a pause, and lookups that read only the newest engrams: 2000 in the predicates
  (`state-machine.js:317`), 500 in the duplicate check (`state-machine.js:466`).
* Of upkeep: what the tasks do, the length of the pauses between restarts, status and
  note lines, the throttle of the foreground ping, the cycle of `runDueTasks` (it appears
  by the row it leaves), and session starts, which look at the lease by directory.
* Claims, the agent supervisor, the codex token store and the server registry: control
  that could be modelled, see the plan.
* Memory, vault, market, audit, and the proxy's routing and providers: their difficulty
  is text, ranking, cryptography and streaming, and what is true of them is not a
  property of states and steps.

## 7. Plan

1. `SubstrateSync`: uplink and feed composed over one hub, followers with real
   outboxes and re-pairing, refining both parts; the feed's pull under the starters of
   `SyncPulse`.
2. `Claims`: life cycle, probes and disputes; a disputed claim returns only by
   `resolveDispute` (`claims.js:216`).
3. `AgentSupervisor`: the job graph, retries and cancellation; `TokenStore`: two
   processes that refresh one token.
