------------------------------ MODULE SyncFeed ------------------------------
(***************************************************************************)
(* The way down: followers keep a whole mind of their own (replica.js) and *)
(* pull the hub's journal into it (hub.js listEventsSince, baseline), and  *)
(* the hub's own writes join the journal (hub-journal.js).                 *)
(*                                                                         *)
(* A device here is one following machine.  The way up is reduced to what  *)
(* SyncUplink establishes: a device's events reach the hub in order, one   *)
(* at a time, and an unanswered one is sent again.                         *)
(*                                                                         *)
(* Abstracted: a mind is the set of events whose record it holds.  Records *)
(* carry their author's ids, so applying twice lands on the same record.   *)
(* A handler "fails" when it throws or returns with nothing recorded: the  *)
(* hub stores either as an outcome, a follower swallows either, and the    *)
(* feed tells neither from success.  "op_failed" in Faults lets handlers   *)
(* fail, on the hub and on each follower by itself.                        *)
(***************************************************************************)
EXTENDS SyncHub, FiniteSets

CONSTANTS
  Settled,      \* devices that paired and took their baseline of the empty journal
  PageSize,     \* LIMIT of one feed answer (200 in the code)
  MaxAuthored,  \* bound: MaxAuthored[d] mind-writes on device d
  MaxHubWrites, \* bound: mind-writes on the hub machine
  MaxLosses     \* bound: crashes, lost answers and outcomes, handlers that failed

ASSUME WriterAssumption == Writer = Device \cup {HubId}
ASSUME FeedFaultsAssumption == Faults \subseteq {"hub_crash", "outcome_lost", "op_failed"}
ASSUME SettledAssumption == Settled \subseteq Device
ASSUME FeedBoundAssumption ==
  PageSize \in Nat \ {0} /\ MaxAuthored \in [Device -> Nat] /\ MaxHubWrites \in Nat /\ MaxLosses \in Nat

VARIABLES
  mind,        \* per device, the events its substrate holds
  authored,    \* per device, its outbox: the events it queued, in order
  acked,       \* per device, how many of them are marked sent
  build,       \* per device, the op version its build understands
  pulling,     \* per device, where its pull loop stands
  page,        \* per device, fetched rows (gseqs) it has not passed
  base,        \* per device, the baseline in hand
  position,    \* replica_applied_gseq
  booted,      \* replica_bootstrapped
  quarantined, \* replica_quarantined_op is set
  spoken,      \* how many mind-writes the hub machine has made itself
  cached,      \* hub-journal.js _cache.has, "unread" until first asked
  losses,      \* how much of the fault budget is spent
  passedOpen,  \* history: rows still open when a cut carried the device past them
  refused,     \* history: rows whose handler failed on the device, or had failed on
               \* the hub when the device's baseline was cut
  unheard      \* history: hub writes not journaled although a live device existed

followerVars == <<mind, pulling, page, base, position, booted, quarantined, passedOpen, refused>>
hubSideVars == <<spoken, cached, unheard>>
upVars == <<authored, acked>>
vars == <<hubVars, followerVars, hubSideVars, upVars, build, losses>>

NoBase == [at |-> 0, holds |-> {}]
PullState == {"idle", "asking", "applying", "applied", "booting", "importing", "imported", "stamped"}

\* Types, and the page of a device never reaches back behind its position.
TypeOK ==
  /\ HubTypeOK
  /\ mind \in [Device -> SUBSET Event]
  /\ authored \in [Device -> Seq([event: Event, op: Op])]
  /\ acked \in [Device -> Nat] /\ \A d \in Device : acked[d] <= devices[d].last
  /\ build \in [Device -> Op]
  /\ pulling \in [Device -> PullState]
  /\ page \in [Device -> SUBSET (DOMAIN journal)]
  /\ \A d \in Device : pulling[d] \notin {"applying", "applied"} => page[d] = {}
  /\ base \in [Device -> [at: Nat, holds: SUBSET Event]]
  /\ position \in [Device -> 0 .. Len(journal)]
  /\ booted \in [Device -> BOOLEAN]
  /\ quarantined \in [Device -> BOOLEAN]
  /\ spoken \in Nat /\ cached \in {"unread", "yes", "no"} /\ losses \in Nat
  /\ passedOpen \in [Device -> SUBSET (DOMAIN journal)]
  /\ refused \in [Device -> SUBSET (DOMAIN journal)]
  /\ unheard \subseteq Event

FeedInit ==
  /\ devices = [d \in Device |-> [paired |-> d \in Settled, revoked |-> FALSE, last |-> 0]]
  /\ journal = <<>> /\ hubSeq = 0 /\ running = 0 /\ result = "none" /\ hubMind = {}
  /\ catalogue = 1
  /\ mind = [d \in Device |-> {}]
  /\ authored = [d \in Device |-> <<>>]
  /\ acked = [d \in Device |-> 0]
  /\ build \in [Device -> Op]
  /\ pulling = [d \in Device |-> "idle"]
  /\ page = [d \in Device |-> {}]
  /\ base = [d \in Device |-> NoBase]
  /\ position = [d \in Device |-> 0]
  /\ booted = [d \in Device |-> d \in Settled]
  /\ quarantined = [d \in Device |-> FALSE]
  /\ spoken = 0 /\ cached = "unread" /\ losses = 0
  /\ passedOpen = [d \in Device |-> {}]
  /\ refused = [d \in Device |-> {}]
  /\ unheard = {}

Lose == losses < MaxLosses /\ losses' = losses + 1

-----------------------------------------------------------------------------
(* Pairing and updates.                                                    *)

Pair(d) == AddDevice(d) /\ UNCHANGED <<followerVars, hubSideVars, upVars, build, losses>>
Revoke(d) == RevokeDevice(d) /\ UNCHANGED <<followerVars, hubSideVars, upVars, build, losses>>
Upgrade == UpgradeHub /\ UNCHANGED <<followerVars, hubSideVars, upVars, build, losses>>

\* A follower is updated; replica_quarantined_op stays as it was.
UpgradeFollower(d) ==
  /\ build[d] + 1 \in Op
  /\ build' = [build EXCEPT ![d] = @ + 1]
  /\ UNCHANGED <<hubVars, followerVars, hubSideVars, upVars, losses>>

-----------------------------------------------------------------------------
(* The way up.                                                             *)

\* A mind-write on a following device: recorded locally and queued.
DeviceWrite(d, op) ==
  /\ devices[d].paired
  /\ op <= build[d]
  /\ Len(authored[d]) < MaxAuthored[d]
  /\ LET e == <<d, Len(authored[d]) + 1>> IN
     /\ mind' = [mind EXCEPT ![d] = @ \cup {e}]
     /\ authored' = [authored EXCEPT ![d] = Append(@, [event |-> e, op |-> op])]
  /\ UNCHANGED <<hubVars, hubSideVars, acked, build, losses,
                 pulling, page, base, position, booted, quarantined, passedOpen, refused>>

\* Row k of d's outbox as it reaches the hub.
Sent(d, k) == [dev |-> d, seq |-> k, event |-> authored[d][k].event, op |-> authored[d][k].op]

\* The oldest unsent event arrives, the first time or again.
Arrive(d) ==
  /\ acked[d] < Len(authored[d])
  /\ Reserve(Sent(d, acked[d] + 1)) \/ Resume(Sent(d, acked[d] + 1))
  /\ UNCHANGED <<followerVars, hubSideVars, upVars, build, losses>>

\* A resend is answered from the journal.
ArriveAnswered(d) ==
  /\ acked[d] < Len(authored[d])
  /\ running = 0
  /\ \E g \in DOMAIN journal : AnswersFromJournal(Sent(d, acked[d] + 1), g)
  /\ acked' = [acked EXCEPT ![d] = @ + 1]
  /\ UNCHANGED <<hubVars, followerVars, hubSideVars, authored, build, losses>>

Run ==
  /\ RunOp
  /\ IF result' = "failed" THEN Lose ELSE UNCHANGED losses
  /\ UNCHANGED <<followerVars, hubSideVars, upVars, build>>

\* The outcome is recorded, or its UPDATE fails; the answer arrives, or is lost.
Finish ==
  /\ \E lost, heard \in BOOLEAN :
       /\ StampOutcome(lost)
       /\ acked' = IF heard THEN [acked EXCEPT ![journal[running].dev] = journal[running].seq]
                            ELSE acked
       /\ IF lost \/ ~heard THEN Lose ELSE UNCHANGED losses
  /\ UNCHANGED <<followerVars, hubSideVars, authored, build>>

Crash == HubCrash /\ Lose /\ UNCHANGED <<followerVars, hubSideVars, upVars, build>>

-----------------------------------------------------------------------------
(* The hub's own words.                                                    *)

HasLiveDevice == \E d \in Device : Live(d)

\* hasFollowers: within five seconds of the last look the cached answer stands.
HasFollowers(now) ==
  \/ cached # "unread" /\ now = cached
  \/ now = (IF HasLiveDevice THEN "yes" ELSE "no")

\* A mind-write on the hub machine: recorded, then journaled if it has followers.
HubWrite ==
  LET e == <<HubId, spoken + 1>> IN
  /\ spoken < MaxHubWrites
  /\ spoken' = spoken + 1
  /\ hubMind' = hubMind \cup {e}
  /\ \E now \in {"yes", "no"} :
       /\ HasFollowers(now)
       /\ cached' = now
       /\ IF now = "yes" THEN JournalLocal(e)
          ELSE UNCHANGED <<devices, journal, hubSeq, running, result, catalogue>>
       /\ unheard' = IF now = "no" /\ HasLiveDevice THEN unheard \cup {e} ELSE unheard
  /\ UNCHANGED <<followerVars, upVars, build, losses>>

-----------------------------------------------------------------------------
(* The way down.                                                           *)

\* Mutants: the feed carries open rows; the lower bound is off by one; a page
\* always starts at the beginning.
FinishedOrOpen == DOMAIN journal
\* listEventsSince: finished rows after a position, oldest first, a page of them.
Finished == {g \in DOMAIN journal : journal[g].outcome # "null"}
CutLate(since) ==
  LET ready == {g \in Finished : g > since + 1} IN
  {g \in ready : Cardinality({h \in ready : h < g}) < PageSize}
CutFromStart(since) ==
  {g \in Finished : Cardinality({h \in Finished : h < g}) < PageSize}
Cut(since) ==
  LET ready == {g \in Finished : g > since} IN
  {g \in ready : Cardinality({h \in ready : h < g}) < PageSize}

Open == DOMAIN journal \ Finished

\* pull: single-flight, refused while quarantined, baseline first.
StartPull(d) ==
  /\ devices[d].paired
  /\ pulling[d] = "idle"
  /\ ~quarantined[d]
  /\ pulling' = [pulling EXCEPT ![d] = IF booted[d] THEN "asking" ELSE "booting"]
  /\ UNCHANGED <<hubVars, hubSideVars, upVars, build, losses,
                 mind, page, base, position, booted, quarantined, passedOpen, refused>>

\* The hub answers a feed request; an empty answer ends the pull.
ServeEvents(d) ==
  LET cut == Cut(position[d]) IN
  /\ pulling[d] = "asking"
  /\ Live(d)
  /\ page' = [page EXCEPT ![d] = cut]
  /\ pulling' = [pulling EXCEPT ![d] = IF cut = {} THEN "idle" ELSE "applying"]
  /\ passedOpen' = [passedOpen EXCEPT ![d] = @ \cup {g \in Open : \E h \in cut : g < h}]
  /\ UNCHANGED <<hubVars, hubSideVars, upVars, build, losses,
                 mind, base, position, booted, quarantined, refused>>

\* A device that is no longer live is answered 401: the pull is blocked.
ServeRefused(d) ==
  /\ pulling[d] \in {"asking", "booting"}
  /\ ~Live(d)
  /\ pulling' = [pulling EXCEPT ![d] = "idle"]
  /\ UNCHANGED <<hubVars, hubSideVars, upVars, build, losses,
                 mind, page, base, position, booted, quarantined, passedOpen, refused>>

IsHead(g, d) == g \in page[d] /\ \A h \in page[d] : g <= h

\* Mutant: applying a foreign event queues it as the device's own.
ApplyHeadEchoes(d) ==
  /\ pulling[d] = "applying"
  /\ \E g \in page[d] :
       /\ IsHead(g, d)
       /\ mind' = [mind EXCEPT ![d] = @ \cup {journal[g].event}]
       /\ authored' = IF journal[g].dev = d THEN authored
                      ELSE [authored EXCEPT ![d] =
                              Append(@, [event |-> journal[g].event, op |-> journal[g].op])]
  /\ pulling' = [pulling EXCEPT ![d] = "applied"]
  /\ UNCHANGED <<hubVars, hubSideVars, acked, build, losses,
                 page, base, position, booted, quarantined, passedOpen, refused>>

\* _applyOne: the device's own event is an echo, an op its build does not know
\* quarantines the feed, any other runs its handler, whose failure is swallowed.
ApplyHead(d) ==
  /\ pulling[d] = "applying"
  /\ \E g \in page[d] :
       /\ IsHead(g, d)
       /\ \/ /\ journal[g].dev = d
             /\ pulling' = [pulling EXCEPT ![d] = "applied"]
             /\ UNCHANGED <<mind, page, quarantined, refused, losses>>
          \/ /\ journal[g].dev # d /\ journal[g].op <= build[d]
             /\ \/ /\ mind' = [mind EXCEPT ![d] = @ \cup {journal[g].event}]
                   /\ UNCHANGED <<refused, losses>>
                \/ /\ "op_failed" \in Faults /\ Lose
                   /\ refused' = [refused EXCEPT ![d] = @ \cup {g}]
                   /\ UNCHANGED mind
             /\ pulling' = [pulling EXCEPT ![d] = "applied"]
             /\ UNCHANGED <<page, quarantined>>
          \/ /\ journal[g].dev # d /\ journal[g].op > build[d]
             /\ quarantined' = [quarantined EXCEPT ![d] = TRUE]
             /\ pulling' = [pulling EXCEPT ![d] = "idle"]
             /\ page' = [page EXCEPT ![d] = {}]
             /\ UNCHANGED <<mind, refused, losses>>
  /\ UNCHANGED <<hubVars, hubSideVars, upVars, build, base, position, booted, passedOpen>>

\* Mutant: one write moves the position past the whole page.
AdvancePage(d) ==
  /\ pulling[d] = "applied"
  /\ \E g \in page[d] :
       /\ \A h \in page[d] : h <= g
       /\ position' = [position EXCEPT ![d] = g]
  /\ page' = [page EXCEPT ![d] = {}]
  /\ pulling' = [pulling EXCEPT ![d] = "asking"]
  /\ UNCHANGED <<hubVars, hubSideVars, upVars, build, losses,
                 mind, base, booted, quarantined, passedOpen, refused>>

\* The position follows in a write of its own; a spent page asks for the next.
Advance(d) ==
  /\ pulling[d] = "applied"
  /\ \E g \in page[d] :
       /\ IsHead(g, d)
       /\ position' = [position EXCEPT ![d] = g]
       /\ page' = [page EXCEPT ![d] = @ \ {g}]
       /\ pulling' = [pulling EXCEPT ![d] = IF page[d] = {g} THEN "asking" ELSE "applying"]
  /\ UNCHANGED <<hubVars, hubSideVars, upVars, build, losses,
                 mind, base, booted, quarantined, passedOpen, refused>>

Failed == {g \in DOMAIN journal : journal[g].outcome = "failed"}

\* Mutant: the stamp names the gseq the next row will get.
ServeBaselineAhead(d) ==
  /\ pulling[d] = "booting"
  /\ Live(d)
  /\ base' = [base EXCEPT ![d] = [at |-> Len(journal) + 1, holds |-> hubMind]]
  /\ pulling' = [pulling EXCEPT ![d] = "importing"]
  /\ passedOpen' = [passedOpen EXCEPT ![d] = @ \cup Open]
  /\ refused' = [refused EXCEPT ![d] = @ \cup Failed]
  /\ UNCHANGED <<hubVars, hubSideVars, upVars, build, losses,
                 mind, page, position, booted, quarantined>>

\* baseline: the whole mind, stamped with the newest gseq, finished or not.
ServeBaseline(d) ==
  /\ pulling[d] = "booting"
  /\ Live(d)
  /\ base' = [base EXCEPT ![d] = [at |-> Len(journal), holds |-> hubMind]]
  /\ pulling' = [pulling EXCEPT ![d] = "importing"]
  /\ passedOpen' = [passedOpen EXCEPT ![d] = @ \cup Open]
  /\ refused' = [refused EXCEPT ![d] = @ \cup Failed]
  /\ UNCHANGED <<hubVars, hubSideVars, upVars, build, losses,
                 mind, page, position, booted, quarantined>>

\* Mutant: a failed import goes unnoticed.
ImportNothing(d) ==
  /\ pulling[d] = "importing"
  /\ pulling' = [pulling EXCEPT ![d] = "imported"]
  /\ UNCHANGED <<hubVars, hubSideVars, upVars, build, losses,
                 mind, page, base, position, booted, quarantined, passedOpen, refused>>

\* importAtlas, then the stamp, then the flag: three writes.
ImportBaseline(d) ==
  /\ pulling[d] = "importing"
  /\ mind' = [mind EXCEPT ![d] = @ \cup base[d].holds]
  /\ pulling' = [pulling EXCEPT ![d] = "imported"]
  /\ UNCHANGED <<hubVars, hubSideVars, upVars, build, losses,
                 page, base, position, booted, quarantined, passedOpen, refused>>

StampPosition(d) ==
  /\ pulling[d] = "imported"
  /\ position' = [position EXCEPT ![d] = base[d].at]
  /\ base' = [base EXCEPT ![d] = NoBase]
  /\ pulling' = [pulling EXCEPT ![d] = "stamped"]
  /\ UNCHANGED <<hubVars, hubSideVars, upVars, build, losses,
                 mind, page, booted, quarantined, passedOpen, refused>>

FinishBoot(d) ==
  /\ pulling[d] = "stamped"
  /\ booted' = [booted EXCEPT ![d] = TRUE]
  /\ pulling' = [pulling EXCEPT ![d] = "asking"]
  /\ UNCHANGED <<hubVars, hubSideVars, upVars, build, losses,
                 mind, page, base, position, quarantined, passedOpen, refused>>

\* An answer is lost, or the follower restarts: what was in hand is gone.
LosePull(d) ==
  /\ Lose
  /\ pulling[d] # "idle"
  /\ pulling' = [pulling EXCEPT ![d] = "idle"]
  /\ page' = [page EXCEPT ![d] = {}]
  /\ base' = [base EXCEPT ![d] = NoBase]
  /\ UNCHANGED <<hubVars, hubSideVars, upVars, build, mind, position, booted, quarantined, passedOpen, refused>>

-----------------------------------------------------------------------------

PullStep(d) ==
  \/ ServeEvents(d) \/ ServeRefused(d) \/ ApplyHead(d) \/ Advance(d)
  \/ ServeBaseline(d) \/ ImportBaseline(d) \/ StampPosition(d) \/ FinishBoot(d)

FeedNext ==
  \/ \E d \in Device : Pair(d) \/ Revoke(d) \/ UpgradeFollower(d)
  \/ Upgrade
  \/ \E d \in Device, op \in Op : DeviceWrite(d, op)
  \/ \E d \in Device : Arrive(d) \/ ArriveAnswered(d)
  \/ Run \/ Finish \/ Crash \/ HubWrite
  \/ \E d \in Device : StartPull(d) \/ PullStep(d) \/ LosePull(d)

FeedSpec == FeedInit /\ [][FeedNext]_vars

\* The 15 s pulse restarts a pull and each of its awaits settles; the hub
\* finishes what it began and unsent events keep arriving (SyncUplink).
FeedFairness ==
  /\ \A d \in Device : WF_vars(StartPull(d)) /\ WF_vars(PullStep(d))
                       /\ WF_vars(Arrive(d)) /\ WF_vars(ArriveAnswered(d))
  /\ WF_vars(Run) /\ WF_vars(Finish)

FairFeedSpec == FeedSpec /\ FeedFairness

-----------------------------------------------------------------------------
(* Safety.                                                                 *)

\* replica.js:15-18, 63-72, hub.js:253-257: a follower lacks a record behind its
\* position only if the row was still open when the page or the baseline that
\* carried it past that row was cut, or if its handler failed: on the follower,
\* or on the hub before the baseline.  Crashes and resends lose nothing else.
MissesExplained ==
  \A d \in Device : \A g \in 1 .. position[d] :
    journal[g].event \in mind[d] \/ g \in passedOpen[d] \/ g \in refused[d]

\* hub.js:149-156, 236-239: the feed carries history, not requests: what a
\* follower holds of others' words the mind machine holds too, or has on
\* record as failed.
FollowersHoldHistory ==
  \A d \in Device : \A e \in mind[d] :
    e[1] = d \/ e \in hubMind \/ \E g \in Failed : journal[g].event = e

\* engram.js:660-663: an applied foreign event is never queued again: each
\* event enters the journal once, or the fleet would echo forever.
NoEcho ==
  \A g, h \in DOMAIN journal : journal[g].event = journal[h].event => g = h

\* replica.js:5-6, 24-25: strictly in the hub's order: a position never moves
\* back, and over no row the device has not applied except one the page in
\* hand was cut without or one whose handler failed.
AppliesInOrder ==
  [][\A d \in Device :
       /\ position'[d] >= position[d]
       /\ \A g \in Finished \ (passedOpen[d] \cup refused[d]) :
            position[d] < g /\ g <= position'[d] => journal[g].event \in mind[d]]_vars

\* hub.js:7-13, hub-journal.js:27-51: with the hub's own words in it, the journal
\* the followers read is still the shared log the uplink implements: it only
\* grows, each device's entries in its order, without gaps and at most once.
OwnRows == {g \in DOMAIN journal : journal[g].dev = HubId}
Entry(g) == [dev |-> journal[g].dev, seq |-> journal[g].seq,
             event |-> journal[g].event, op |-> journal[g].op]
Authored ==
  (UNION {{Sent(d, k) : k \in DOMAIN authored[d]} : d \in Device}) \cup {Entry(g) : g \in OwnRows}
Log == INSTANCE SharedLog
         WITH written <- Authored, log <- [g \in DOMAIN journal |-> Entry(g)]
ImplementsSharedLog == Log!LogSpec

-----------------------------------------------------------------------------
(* Liveness.                                                               *)

\* A follower that keeps pulling; a follower behind no finished row.
Reads(d) == Live(d) /\ ~quarantined[d]
CaughtUp(d) == \A g \in Finished : g <= position[d]

\* replica.js:11-13: "Reconnection drains both directions by itself": a live
\* follower whose build knows every op ends at the newest finished row.
FollowersCatchUp == \A d \in Device : (<>[]Reads(d)) => <>[]CaughtUp(d)

\* hub-journal.js:4-8, replica.js:3-9: a live follower ends with every record
\* that has a finished row, but for those it was carried past while they were
\* open and those whose handler failed.
Owed(d) == {journal[g].event : g \in Finished \ (passedOpen[d] \cup refused[d])}
MindsConverge ==
  \A d \in Device : (<>[]Reads(d)) => <>[](Owed(d) \subseteq mind[d])

-----------------------------------------------------------------------------
(* What the documentation promises.                                        *)

\* hub.js:257: "baseline plus deltas, nothing counted twice by id, nothing
\* missed": a finished row behind a follower's position is in its mind.
NothingMissed ==
  \A d \in Device : \A g \in Finished : g <= position[d] => journal[g].event \in mind[d]

\* hub-journal.js:6-8: "when at least one live device follows this machine,
\* every local mind-write is also appended to the journal".
HubWritesAreJournaled == unheard = {}

=============================================================================
