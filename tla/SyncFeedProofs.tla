--------------------------- MODULE SyncFeedProofs ---------------------------
(***************************************************************************)
(* Safety of the way down, for any fleet, any page size and any number of  *)
(* writes and losses.                                                      *)
(***************************************************************************)
EXTENDS SyncFeed, SyncHubProofs, FiniteSetTheorems

-----------------------------------------------------------------------------
(* The inductive invariant.                                                *)

\* Rows carry their author's numbers; an op that went well has taken effect.
RowKept(g) ==
  /\ journal[g].outcome = "ok" => journal[g].event \in hubMind
  /\ journal[g].dev = HubId => journal[g].event[1] = HubId /\ journal[g].event[2] <= spoken
  /\ journal[g].dev # HubId =>
       /\ journal[g].event = <<journal[g].dev, journal[g].seq>>
       /\ journal[g].seq \in 1 .. devices[journal[g].dev].last

HandKept ==
  /\ running # 0 => journal[running].dev \in Device /\ journal[running].outcome = "null"
  /\ result = "ok" => journal[running].event \in hubMind

OutboxKept(d) ==
  /\ devices[d].last <= Len(authored[d])
  /\ \A k \in DOMAIN authored[d] : authored[d][k].event = <<d, k>> /\ <<d, k>> \in mind[d]

HubKept ==
  /\ \A g \in DOMAIN journal : RowKept(g)
  /\ HandKept
  /\ \A d \in Device : OutboxKept(d)

\* Where the pull of device d stands.
Covered(d, g) == journal[g].event \in mind[d] \/ g \in passedOpen[d] \/ g \in refused[d]

PageKept(d) ==
  /\ page[d] \subseteq Finished
  /\ pulling[d] = "applied" => page[d] # {}
  /\ \A h \in page[d] : h > position[d]
  /\ \A h \in page[d] : \A g \in position[d] + 1 .. h : g \in page[d] \/ g \in passedOpen[d]
  /\ pulling[d] = "applied" =>
       \A g \in page[d] : IsHead(g, d) => journal[g].event \in mind[d] \/ g \in refused[d]

BaseKept(d) ==
  /\ base[d].at <= Len(journal)
  /\ base[d].holds \subseteq hubMind
  /\ pulling[d] \in {"importing", "imported"} =>
       /\ position[d] <= base[d].at
       /\ \A g \in 1 .. base[d].at :
            journal[g].event \in base[d].holds \/ g \in passedOpen[d] \/ g \in refused[d]
  /\ pulling[d] = "imported" => base[d].holds \subseteq mind[d]

PullKept(d) ==
  /\ PageKept(d)
  /\ BaseKept(d)
  /\ \A g \in 1 .. position[d] : Covered(d, g)

FeedKept ==
  /\ HubKept
  /\ NoEcho
  /\ FollowersHoldHistory
  /\ \A d \in Device : PullKept(d)

LEMMA Numbers ==
  ASSUME TypeOK
  PROVE  /\ DOMAIN journal = 1..Len(journal) /\ Len(journal) \in Nat
         /\ \A g \in DOMAIN journal : journal[g] \in Row
         /\ \A d \in Device : devices[d].last \in Nat /\ position[d] \in Nat
         /\ \A d \in Device : base[d].at \in Nat /\ Len(authored[d]) \in Nat
<1>1. journal \in Seq(Row)
  BY DEF TypeOK, HubTypeOK
<1>2. DOMAIN journal = 1..Len(journal) /\ Len(journal) \in Nat
      /\ \A g \in DOMAIN journal : journal[g] \in Row
  BY <1>1
<1>3. \A d \in Device : devices[d].last \in Nat
  BY DEF TypeOK, HubTypeOK
<1>4. ASSUME NEW d \in Device PROVE position[d] \in Nat
  <2>1. position[d] \in 0..Len(journal)
    BY DEF TypeOK
  <2>2. QED
    BY <1>2, <2>1
<1>5. ASSUME NEW d \in Device PROVE base[d].at \in Nat /\ Len(authored[d]) \in Nat
  <2>1. base[d] \in [at: Nat, holds: SUBSET Event]
    BY DEF TypeOK
  <2>2. authored[d] \in Seq([event: Event, op: Op])
    BY DEF TypeOK
  <2>3. QED
    BY <2>1, <2>2
<1>6. QED
  BY <1>2, <1>3, <1>4, <1>5

LEMMA InitKept == FeedInit => FeedKept
<1> SUFFICES ASSUME FeedInit PROVE FeedKept
  OBVIOUS
<1>1. DOMAIN journal = {} /\ Len(journal) = 0 /\ \A d \in Device : DOMAIN authored[d] = {} /\ Len(authored[d]) = 0
  BY DEF FeedInit
<1>2. HubKept
  BY <1>1 DEF FeedInit, HubKept, HandKept, OutboxKept
<1>3. ASSUME NEW d \in Device PROVE PullKept(d)
  <2>1. page[d] = {} /\ pulling[d] = "idle" /\ base[d] = [at |-> 0, holds |-> {}] /\ position[d] = 0
    BY DEF FeedInit, NoBase
  <2>2. 1..0 = {}
    OBVIOUS
  <2>3. QED
    BY <1>1, <2>1, <2>2 DEF PullKept, PageKept, BaseKept
<1>4. NoEcho /\ FollowersHoldHistory
  BY <1>1 DEF FeedInit, NoEcho, FollowersHoldHistory
<1>5. QED
  BY <1>2, <1>3, <1>4 DEF FeedKept

-----------------------------------------------------------------------------
(* What the steps do to the journal.                                       *)

SameRow(g, h) ==
  /\ journal'[h].dev = journal[g].dev /\ journal'[h].seq = journal[g].seq
  /\ journal'[h].event = journal[g].event
  /\ journal[g].outcome # "null" => journal'[h].outcome = journal[g].outcome

JournalGrows ==
  /\ Len(journal) <= Len(journal')
  /\ \A g \in DOMAIN journal : g \in DOMAIN journal' /\ SameRow(g, g)

LEMMA AppendGrows ==
  ASSUME TypeOK, NEW row, journal' = Append(journal, row)
  PROVE  /\ JournalGrows
         /\ DOMAIN journal' = DOMAIN journal \cup {Len(journal) + 1}
         /\ Len(journal) + 1 \notin DOMAIN journal
         /\ \A g \in DOMAIN journal : journal'[g] = journal[g]
         /\ journal'[Len(journal) + 1] = row
<1>1. journal \in Seq(Row) /\ Len(journal) \in Nat /\ DOMAIN journal = 1..Len(journal)
  BY Numbers DEF TypeOK, HubTypeOK
<1>2. Len(journal') = Len(journal) + 1 /\ DOMAIN journal' = 1..(Len(journal) + 1)
  BY <1>1
<1>3. \A g \in DOMAIN journal : journal'[g] = journal[g]
  BY <1>1
<1>4. journal'[Len(journal) + 1] = row
  BY <1>1
<1>5. QED
  BY <1>1, <1>2, <1>3, <1>4 DEF JournalGrows, SameRow

LEMMA StampGrows ==
  ASSUME TypeOK, HandKept, NEW lost \in BOOLEAN, StampOutcome(lost)
  PROVE  /\ JournalGrows
         /\ DOMAIN journal' = DOMAIN journal
         /\ \A g \in DOMAIN journal :
              journal'[g] = journal[g] \/ (g = running /\ journal'[g] = [journal[g] EXCEPT !.outcome = result])
<1>1. journal \in Seq(Row) /\ result \in {"ok", "failed"} /\ running \in DOMAIN journal
  BY Numbers DEF TypeOK, HubTypeOK, StampOutcome
<1>2. DOMAIN journal' = DOMAIN journal /\ Len(journal') = Len(journal) /\ Len(journal) \in Nat
  BY <1>1 DEF StampOutcome
<1>3. \A g \in DOMAIN journal :
        journal'[g] = journal[g] \/ (g = running /\ journal'[g] = [journal[g] EXCEPT !.outcome = result])
  BY <1>1 DEF StampOutcome
<1>4. \A g \in DOMAIN journal : SameRow(g, g)
  <2>1. journal[running].outcome = "null"
    BY <1>1, Numbers DEF HandKept
  <2>2. QED
    BY <1>1, <1>3, <2>1, Numbers DEF SameRow, Row
<1>5. QED
  BY <1>2, <1>3, <1>4 DEF JournalGrows

\* Row acked[d] + 1 of the outbox, as it is sent.
LEMMA SentTyped ==
  ASSUME TypeOK, NEW d \in Device, acked[d] < Len(authored[d])
  PROVE  /\ Sent(d, acked[d] + 1) \in Envelope
         /\ acked[d] + 1 \in DOMAIN authored[d]
         /\ Sent(d, acked[d] + 1).dev = d /\ Sent(d, acked[d] + 1).seq = acked[d] + 1
         /\ Sent(d, acked[d] + 1).event = authored[d][acked[d] + 1].event
<1>1. authored[d] \in Seq([event: Event, op: Op]) /\ acked[d] \in Nat
  BY DEF TypeOK
<1>2. acked[d] + 1 \in DOMAIN authored[d] /\ acked[d] + 1 \in Nat
  <2>1. DOMAIN authored[d] = 1..Len(authored[d]) /\ Len(authored[d]) \in Nat
    BY <1>1
  <2>2. acked[d] + 1 \in 1..Len(authored[d])
    BY <1>1, <2>1
  <2>3. QED
    BY <1>1, <2>1, <2>2
<1>3. authored[d][acked[d] + 1] \in [event: Event, op: Op]
  <2>1. Len(authored[d]) \in Nat /\ acked[d] + 1 \in 1..Len(authored[d])
    BY <1>1, <1>2
  <2>2. QED
    BY <1>1, <2>1, ElementOfSeq
<1>4. QED
  BY <1>2, <1>3 DEF Sent, Envelope

LEMMA FeedGrows ==
  ASSUME TypeOK, HandKept, [FeedNext]_vars
  PROVE  JournalGrows /\ hubMind \subseteq hubMind'
<1>0. UNCHANGED journal => JournalGrows
  BY Numbers DEF JournalGrows, SameRow
<1>1. CASE UNCHANGED vars
  BY <1>0, <1>1 DEF vars, hubVars
<1>2. ASSUME NEW d \in Device, Pair(d) \/ Revoke(d) \/ UpgradeFollower(d)
      PROVE  JournalGrows /\ hubMind \subseteq hubMind'
  BY <1>0, <1>2 DEF Pair, Revoke, UpgradeFollower, AddDevice, RevokeDevice, hubVars
<1>3. CASE Upgrade \/ Run \/ Crash
  BY <1>0, <1>3 DEF Upgrade, Run, Crash, UpgradeHub, RunOp, HubCrash
<1>4. ASSUME NEW d \in Device, NEW op \in Op, DeviceWrite(d, op)
      PROVE  JournalGrows /\ hubMind \subseteq hubMind'
  BY <1>0, <1>4 DEF DeviceWrite, hubVars
<1>5. ASSUME NEW d \in Device, Arrive(d) \/ ArriveAnswered(d)
      PROVE  JournalGrows /\ hubMind \subseteq hubMind'
  <2>1. \/ UNCHANGED journal
        \/ journal' = Append(journal, Reserved(Sent(d, acked[d] + 1)))
    BY <1>5 DEF Arrive, ArriveAnswered, Reserve, Resume, hubVars
  <2>2. UNCHANGED hubMind
    BY <1>5 DEF Arrive, ArriveAnswered, Reserve, Resume, hubVars
  <2>3. QED
    BY <1>0, <2>1, <2>2, AppendGrows
<1>6. CASE Finish
  BY <1>6, StampGrows DEF Finish, StampOutcome
<1>7. CASE HubWrite
  <2>1. UNCHANGED journal \/ \E row : journal' = Append(journal, row)
    BY <1>7 DEF HubWrite, JournalLocal
  <2>2. QED
    BY <1>0, <1>7, <2>1, AppendGrows DEF HubWrite
<1>8. ASSUME NEW d \in Device, StartPull(d) \/ PullStep(d) \/ LosePull(d)
      PROVE  JournalGrows /\ hubMind \subseteq hubMind'
  BY <1>0, <1>8 DEF StartPull, PullStep, LosePull, ServeEvents, ServeRefused, ApplyHead, Advance,
     ServeBaseline, ImportBaseline, StampPosition, FinishBoot, hubVars
<1>9. QED
  BY <1>1, <1>2, <1>3, <1>4, <1>5, <1>6, <1>7, <1>8 DEF FeedNext

-----------------------------------------------------------------------------
(* Type correctness.                                                       *)

LEMMA InitTyped == FeedInit => TypeOK
<1> SUFFICES ASSUME FeedInit PROVE TypeOK
  OBVIOUS
<1>1. HubTypeOK
  <2>1. devices \in [Device -> [paired: BOOLEAN, revoked: BOOLEAN, last: Nat]]
    BY DEF FeedInit
  <2>2. journal \in Seq(Row) /\ Len(journal) = 0 /\ running = 0 /\ hubSeq = 0 /\ result = "none"
        /\ hubMind = {} /\ catalogue = 1
    BY DEF FeedInit
  <2>3. QED
    BY <2>1, <2>2, OpAssumption DEF HubTypeOK
<1>2. /\ mind \in [Device -> SUBSET Event]
      /\ acked \in [Device -> Nat] /\ \A d \in Device : acked[d] <= devices[d].last
      /\ build \in [Device -> Op]
      /\ page \in [Device -> SUBSET (DOMAIN journal)] /\ \A d \in Device : page[d] = {}
      /\ base \in [Device -> [at: Nat, holds: SUBSET Event]]
      /\ booted \in [Device -> BOOLEAN] /\ quarantined \in [Device -> BOOLEAN]
      /\ spoken \in Nat /\ cached \in {"unread", "yes", "no"} /\ losses \in Nat
      /\ passedOpen \in [Device -> SUBSET (DOMAIN journal)] /\ unheard \subseteq Event
      /\ refused \in [Device -> SUBSET (DOMAIN journal)]
  BY DEF FeedInit, NoBase
<1>3. pulling \in [Device -> PullState]
  BY DEF FeedInit, PullState
<1>4. position \in [Device -> 0..Len(journal)]
  BY DEF FeedInit
<1>5. authored \in [Device -> Seq([event: Event, op: Op])]
  BY DEF FeedInit
<1>6. QED
  BY <1>1, <1>2, <1>3, <1>4, <1>5 DEF TypeOK

\* What was typed by the journal is typed by the longer one.
LEMMA Stretched ==
  ASSUME TypeOK, JournalGrows
  PROVE  /\ page \in [Device -> SUBSET (DOMAIN journal')]
         /\ passedOpen \in [Device -> SUBSET (DOMAIN journal')]
         /\ refused \in [Device -> SUBSET (DOMAIN journal')]
         /\ (Len(journal') \in Nat => position \in [Device -> 0..Len(journal')])
<1>1. DOMAIN journal \subseteq DOMAIN journal'
  BY DEF JournalGrows
<1>2. /\ page \in [Device -> SUBSET (DOMAIN journal')]
      /\ passedOpen \in [Device -> SUBSET (DOMAIN journal')]
      /\ refused \in [Device -> SUBSET (DOMAIN journal')]
  BY <1>1 DEF TypeOK
<1>3. ASSUME Len(journal') \in Nat PROVE position \in [Device -> 0..Len(journal')]
  <2>1. 0..Len(journal) \subseteq 0..Len(journal')
    BY <1>3, Numbers DEF JournalGrows
  <2>2. QED
    BY <2>1 DEF TypeOK
<1>4. QED
  BY <1>2, <1>3

\* A step of the hub alone.
LEMMA HubSideTyped ==
  ASSUME TypeOK, HubTypeOK', JournalGrows, UNCHANGED <<followerVars, authored, build>>,
         acked' \in [Device -> Nat], \A d \in Device : acked'[d] <= devices'[d].last,
         spoken' \in Nat, cached' \in {"unread", "yes", "no"}, losses' \in Nat,
         unheard' \subseteq Event
  PROVE  TypeOK'
<1>1. Len(journal') \in Nat
  <2>1. journal' \in Seq(Row)
    BY DEF HubTypeOK
  <2>2. QED
    BY <2>1
<1>2. /\ page \in [Device -> SUBSET (DOMAIN journal')]
      /\ passedOpen \in [Device -> SUBSET (DOMAIN journal')]
      /\ refused \in [Device -> SUBSET (DOMAIN journal')]
      /\ position \in [Device -> 0..Len(journal')]
  BY <1>1, Stretched
<1>3. QED
  BY <1>2 DEF followerVars, TypeOK

\* A step of one follower.
LEMMA FollowerTyped ==
  ASSUME TypeOK, UNCHANGED <<hubVars, hubSideVars, upVars, build>>,
         mind' \in [Device -> SUBSET Event], pulling' \in [Device -> PullState],
         page' \in [Device -> SUBSET (DOMAIN journal)],
         \A d \in Device : pulling'[d] \notin {"applying", "applied"} => page'[d] = {},
         base' \in [Device -> [at: Nat, holds: SUBSET Event]],
         position' \in [Device -> 0..Len(journal)],
         booted' \in [Device -> BOOLEAN], quarantined' \in [Device -> BOOLEAN],
         losses' \in Nat, passedOpen' \in [Device -> SUBSET (DOMAIN journal)],
         refused' \in [Device -> SUBSET (DOMAIN journal)]
  PROVE  TypeOK'
<1>1. HubTypeOK'
  BY HubUnchangedTypes DEF TypeOK
<1>2. QED
  BY <1>1 DEF hubVars, hubSideVars, upVars, TypeOK

LEMMA LoseTyped == TypeOK /\ (Lose \/ UNCHANGED losses) => losses' \in Nat
  BY DEF TypeOK, Lose

LEMMA PullTyped ==
  ASSUME TypeOK, FeedKept, NEW d \in Device, StartPull(d) \/ PullStep(d) \/ LosePull(d)
  PROVE  TypeOK'
<1> USE DEF PullState
<1>0. UNCHANGED <<hubVars, hubSideVars, upVars, build>>
  BY DEF StartPull, PullStep, LosePull, ServeEvents, ServeRefused, ApplyHead, Advance,
     ServeBaseline, ImportBaseline, StampPosition, FinishBoot
<1>1. CASE StartPull(d)
  BY <1>0, <1>1, FollowerTyped DEF StartPull, TypeOK
<1>2. CASE ServeEvents(d)
  <2>1. Cut(position[d]) \subseteq DOMAIN journal /\ Open \subseteq DOMAIN journal
    BY DEF Cut, Finished, Open
  <2>2. QED
    BY <1>0, <1>2, <2>1, FollowerTyped DEF ServeEvents, TypeOK
<1>3. CASE ServeRefused(d)
  BY <1>0, <1>3, FollowerTyped DEF ServeRefused, TypeOK
<1>4. CASE ApplyHead(d)
  <2>1. PICK g \in page[d] :
          /\ mind' = mind \/ mind' = [mind EXCEPT ![d] = @ \cup {journal[g].event}]
          /\ refused' = refused \/ refused' = [refused EXCEPT ![d] = @ \cup {g}]
    BY <1>4 DEF ApplyHead
  <2>2. \/ /\ pulling' = [pulling EXCEPT ![d] = "applied"]
           /\ UNCHANGED <<page, quarantined>>
        \/ /\ quarantined' = [quarantined EXCEPT ![d] = TRUE]
           /\ pulling' = [pulling EXCEPT ![d] = "idle"]
           /\ page' = [page EXCEPT ![d] = {}]
    BY <1>4 DEF ApplyHead
  <2>3. mind' \in [Device -> SUBSET Event] /\ refused' \in [Device -> SUBSET (DOMAIN journal)]
    <3>1. journal[g].event \in Event /\ g \in DOMAIN journal
      BY Numbers DEF TypeOK, Row
    <3>2. /\ mind \in [Device -> SUBSET Event]
          /\ refused \in [Device -> SUBSET (DOMAIN journal)]
      BY DEF TypeOK
    <3>3. /\ [mind EXCEPT ![d] = @ \cup {journal[g].event}] \in [Device -> SUBSET Event]
          /\ [refused EXCEPT ![d] = @ \cup {g}] \in [Device -> SUBSET (DOMAIN journal)]
      BY <3>1, <3>2
    <3>4. QED
      BY <2>1, <3>2, <3>3
  <2>4. /\ pulling' \in [Device -> PullState] /\ quarantined' \in [Device -> BOOLEAN]
        /\ page' \in [Device -> SUBSET (DOMAIN journal)]
        /\ \A c \in Device : pulling'[c] \notin {"applying", "applied"} => page'[c] = {}
    BY <1>4, <2>2 DEF ApplyHead, TypeOK
  <2>5. UNCHANGED <<base, position, booted, passedOpen>> /\ losses' \in Nat
    BY <1>4, LoseTyped DEF ApplyHead
  <2>6. QED
    BY <1>0, <2>3, <2>4, <2>5, FollowerTyped DEF TypeOK
<1>5. CASE Advance(d)
  <2>1. PICK g \in page[d] :
          /\ position' = [position EXCEPT ![d] = g]
          /\ page' = [page EXCEPT ![d] = @ \ {g}]
          /\ pulling' = [pulling EXCEPT ![d] = IF page[d] = {g} THEN "asking" ELSE "applying"]
    BY <1>5 DEF Advance
  <2>2. g \in 0..Len(journal)
    BY Numbers DEF TypeOK
  <2>3. position' \in [Device -> 0..Len(journal)]
    BY <2>1, <2>2 DEF TypeOK
  <2>4. /\ pulling' \in [Device -> PullState]
        /\ page' \in [Device -> SUBSET (DOMAIN journal)]
        /\ \A c \in Device : pulling'[c] \notin {"applying", "applied"} => page'[c] = {}
    BY <2>1 DEF TypeOK
  <2>5. QED
    BY <1>0, <1>5, <2>3, <2>4, FollowerTyped DEF Advance, TypeOK
<1>6. CASE ServeBaseline(d)
  <2>1. Open \subseteq DOMAIN journal /\ Failed \subseteq DOMAIN journal
    BY DEF Open, Failed
  <2>2. [at |-> Len(journal), holds |-> hubMind] \in [at: Nat, holds: SUBSET Event]
    BY Numbers DEF TypeOK, HubTypeOK
  <2>3. QED
    BY <1>0, <1>6, <2>1, <2>2, FollowerTyped DEF ServeBaseline, TypeOK
<1>7. CASE ImportBaseline(d)
  BY <1>0, <1>7, FollowerTyped DEF ImportBaseline, TypeOK
<1>8. CASE StampPosition(d)
  <2>1. base[d].at \in 0..Len(journal)
    BY Numbers DEF FeedKept, PullKept, BaseKept
  <2>2. position' \in [Device -> 0..Len(journal)]
    BY <1>8, <2>1 DEF StampPosition, TypeOK
  <2>3. QED
    BY <1>0, <1>8, <2>2, FollowerTyped DEF StampPosition, NoBase, TypeOK
<1>9. CASE FinishBoot(d)
  BY <1>0, <1>9, FollowerTyped DEF FinishBoot, TypeOK
<1>10. CASE LosePull(d)
  <2>1. losses' \in Nat
    BY <1>10, LoseTyped DEF LosePull
  <2>2. QED
    BY <1>0, <1>10, <2>1, FollowerTyped DEF LosePull, NoBase, TypeOK
<1>11. QED
  BY <1>1, <1>2, <1>3, <1>4, <1>5, <1>6, <1>7, <1>8, <1>9, <1>10 DEF PullStep

LEMMA StepTyped ==
  ASSUME TypeOK, FeedKept, [FeedNext]_vars
  PROVE  TypeOK'
<1>g. JournalGrows
  BY FeedGrows DEF FeedKept, HubKept
<1>h. HubTypeOK
  BY DEF TypeOK
<1>1. CASE UNCHANGED vars
  <2>1. HubTypeOK'
    BY <1>h, <1>1, HubUnchangedTypes DEF vars
  <2>2. QED
    BY <1>1, <2>1 DEF vars, hubVars, followerVars, hubSideVars, upVars, TypeOK
<1>2. ASSUME NEW d \in Device, Pair(d) \/ Revoke(d) PROVE TypeOK'
  <2>1. HubTypeOK'
    BY <1>h, <1>2, HubStepTypes DEF Pair, Revoke
  <2>2. \A c \in Device : devices'[c].last = devices[c].last
    BY <1>2, <1>h DEF Pair, Revoke, AddDevice, RevokeDevice, HubTypeOK
  <2>3. UNCHANGED <<followerVars, hubSideVars, upVars, build, losses>>
    BY <1>2 DEF Pair, Revoke
  <2>4. QED
    BY <1>g, <2>1, <2>2, <2>3, HubSideTyped DEF upVars, hubSideVars, TypeOK
<1>3. ASSUME NEW d \in Device, UpgradeFollower(d) PROVE TypeOK'
  <2>1. HubTypeOK' /\ build' \in [Device -> Op]
    BY <1>h, <1>3, HubUnchangedTypes DEF UpgradeFollower, TypeOK
  <2>2. QED
    BY <1>3, <2>1 DEF UpgradeFollower, hubVars, followerVars, hubSideVars, upVars, TypeOK
<1>4. CASE Upgrade \/ Run \/ Crash
  <2>1. HubTypeOK' /\ losses' \in Nat
    BY <1>h, <1>4, HubStepTypes, LoseTyped DEF Upgrade, Run, Crash
  <2>2. UNCHANGED <<devices, followerVars, hubSideVars, upVars, build>>
    BY <1>4 DEF Upgrade, Run, Crash, UpgradeHub, RunOp, HubCrash
  <2>3. QED
    BY <1>g, <2>1, <2>2, HubSideTyped DEF upVars, hubSideVars, TypeOK
<1>5. ASSUME NEW d \in Device, NEW op \in Op, DeviceWrite(d, op) PROVE TypeOK'
  <2> DEFINE e == <<d, Len(authored[d]) + 1>>
  <2>1. e \in Event
    BY Numbers, WriterAssumption DEF Event
  <2>2. mind' \in [Device -> SUBSET Event]
    BY <1>5, <2>1 DEF DeviceWrite, TypeOK
  <2>3. authored' \in [Device -> Seq([event: Event, op: Op])]
    <3>1. [event |-> e, op |-> op] \in [event: Event, op: Op]
      BY <2>1
    <3>2. authored[d] \in Seq([event: Event, op: Op])
      BY DEF TypeOK
    <3>3. Append(authored[d], [event |-> e, op |-> op]) \in Seq([event: Event, op: Op])
      BY <3>1, <3>2, AppendProperties
    <3>4. QED
      BY <1>5, <3>3 DEF DeviceWrite, TypeOK
  <2>4. HubTypeOK'
    BY <1>h, <1>5, HubUnchangedTypes DEF DeviceWrite
  <2>5. QED
    BY <1>5, <2>2, <2>3, <2>4 DEF DeviceWrite, hubVars, hubSideVars, TypeOK
<1>6. ASSUME NEW d \in Device, Arrive(d) PROVE TypeOK'
  <2> DEFINE e == Sent(d, acked[d] + 1)
  <2>1. e \in Envelope /\ e.dev = d /\ e.seq \in Nat
    BY <1>6, SentTyped DEF Arrive, Envelope
  <2>2. Reserve(e) \/ Resume(e)
    BY <1>6 DEF Arrive
  <2> HIDE DEF e
  <2>3. HubTypeOK'
    BY <1>h, <2>1, <2>2, HubStepTypes
  <2>4. ASSUME NEW c \in Device
        PROVE  devices[c].last \in Nat /\ devices'[c].last \in {devices[c].last, devices[c].last + 1}
    <3>1. devices[c].last \in Nat
      BY Numbers
    <3>2. devices'[c].last = devices[c].last \/ (c = d /\ e.seq = devices[d].last + 1 /\ devices'[c].last = e.seq)
      BY <1>h, <2>1, <2>2 DEF Reserve, Resume, IsNext, HubTypeOK
    <3>3. QED
      BY <3>1, <3>2
  <2>5. UNCHANGED <<followerVars, hubSideVars, upVars, build, losses>>
    BY <1>6 DEF Arrive
  <2>6. ASSUME NEW c \in Device PROVE acked'[c] <= devices'[c].last
    <3>1. acked'[c] = acked[c] /\ acked[c] \in Nat /\ acked[c] <= devices[c].last
      BY <2>5 DEF upVars, TypeOK
    <3>2. QED
      BY <2>4, <3>1
  <2>7. QED
    BY <1>g, <2>3, <2>5, <2>6, HubSideTyped DEF upVars, hubSideVars, TypeOK
<1>7. ASSUME NEW d \in Device, ArriveAnswered(d) PROVE TypeOK'
  <2>1. /\ UNCHANGED <<hubVars, followerVars, hubSideVars, authored, build, losses>>
        /\ acked' = [acked EXCEPT ![d] = @ + 1]
    BY <1>7 DEF ArriveAnswered
  <2>2. acked[d] + 1 <= devices[d].last
    <3>1. Sent(d, acked[d] + 1).dev = d /\ Sent(d, acked[d] + 1).seq = acked[d] + 1
      BY <1>7, SentTyped DEF ArriveAnswered
    <3>2. QED
      BY <1>7, <3>1 DEF ArriveAnswered, AnswersFromJournal, IsReplay
  <2>3. acked' \in [Device -> Nat] /\ \A c \in Device : acked'[c] <= devices[c].last
    BY <2>1, <2>2 DEF TypeOK
  <2>4. HubTypeOK'
    BY <1>h, <2>1, HubUnchangedTypes
  <2>5. QED
    BY <1>g, <2>1, <2>3, <2>4, HubSideTyped DEF hubVars, hubSideVars, TypeOK
<1>8. CASE Finish
  <2>1. PICK lost \in BOOLEAN, heard \in BOOLEAN :
          /\ StampOutcome(lost)
          /\ acked' = IF heard THEN [acked EXCEPT ![journal[running].dev] = journal[running].seq]
                               ELSE acked
          /\ IF lost \/ ~heard THEN Lose ELSE UNCHANGED losses
    BY <1>8 DEF Finish
  <2>2. HubTypeOK' /\ losses' \in Nat
    BY <1>h, <2>1, HubStepTypes, LoseTyped
  <2>3. running \in DOMAIN journal /\ journal[running] \in Row
    BY <1>h, <2>1, Numbers DEF StampOutcome, HubTypeOK
  <2>4. journal[running].dev \in Device /\ journal[running].seq \in Nat
        /\ journal[running].seq <= devices[journal[running].dev].last
    <3>1. journal[running].dev \in Device
      BY <2>1, <2>3 DEF FeedKept, HubKept, HandKept, StampOutcome, HubTypeOK, TypeOK
    <3>2. RowKept(running) /\ journal[running].dev # HubId
      BY <2>3, <3>1, HubIdAssumption DEF FeedKept, HubKept
    <3>3. QED
      BY <2>3, <3>1, <3>2 DEF RowKept, Row
  <2>5. acked' \in [Device -> Nat] /\ \A c \in Device : acked'[c] <= devices[c].last
    BY <2>1, <2>4 DEF TypeOK
  <2>6. UNCHANGED <<devices, followerVars, hubSideVars, authored, build>>
    BY <1>8, <2>1 DEF Finish, StampOutcome
  <2>7. QED
    BY <1>g, <2>2, <2>5, <2>6, HubSideTyped DEF hubSideVars, TypeOK
<1>9. CASE HubWrite
  <2> DEFINE e == <<HubId, spoken + 1>>
  <2>1. PICK now \in {"yes", "no"} :
          /\ cached' = now
          /\ IF now = "yes" THEN JournalLocal(e)
             ELSE UNCHANGED <<devices, journal, hubSeq, running, result, catalogue>>
          /\ unheard' = IF now = "no" /\ HasLiveDevice THEN unheard \cup {e} ELSE unheard
    BY <1>9 DEF HubWrite
  <2>2. e \in Event /\ spoken' \in Nat /\ spoken' = spoken + 1 /\ hubMind' = hubMind \cup {e}
        /\ UNCHANGED <<followerVars, upVars, build, losses>>
    BY <1>9, HubIdAssumption DEF HubWrite, Event, TypeOK
  <2>3. unheard' \subseteq Event /\ cached' \in {"unread", "yes", "no"}
    BY <2>1, <2>2 DEF TypeOK
  <2>4. UNCHANGED <<devices, running, result, catalogue>> /\ hubSeq' \in Nat
    BY <1>h, <2>1 DEF JournalLocal, HubTypeOK
  <2>5. journal' \in Seq(Row)
    <3>1. CASE now = "yes"
      <4>1. [dev |-> HubId, seq |-> hubSeq + 1, event |-> e, op |-> 1, outcome |-> "ok"] \in Row
        BY <1>h, <2>2, OpAssumption DEF HubTypeOK, Row, Outcome
      <4>2. journal \in Seq(Row)
        BY <1>h DEF HubTypeOK
      <4>3. QED
        BY <2>1, <3>1, <4>1, <4>2, AppendProperties DEF JournalLocal
    <3>2. CASE now # "yes"
      BY <1>h, <2>1, <3>2 DEF HubTypeOK
    <3>3. QED
      BY <3>1, <3>2
  <2>6. running \in 0..Len(journal')
    <3>1. Len(journal') \in Nat
      BY <2>5
    <3>2. QED
      BY <1>g, <1>h, <3>1, Numbers DEF HubTypeOK, JournalGrows
  <2>7. HubTypeOK'
    BY <1>h, <2>2, <2>4, <2>5, <2>6 DEF HubTypeOK
  <2>8. QED
    BY <1>g, <2>2, <2>3, <2>4, <2>7, HubSideTyped DEF upVars, TypeOK
<1>10. ASSUME NEW d \in Device, StartPull(d) \/ PullStep(d) \/ LosePull(d) PROVE TypeOK'
  BY <1>10, PullTyped
<1>11. QED
  BY <1>1, <1>2, <1>3, <1>4, <1>5, <1>6, <1>7, <1>8, <1>9, <1>10 DEF FeedNext

-----------------------------------------------------------------------------
(* The hub's side of the invariant.                                        *)

\* Steps that leave the rows, the row in hand and the outboxes alone.
HubIdles ==
  /\ UNCHANGED <<journal, spoken, authored, hubMind>>
  /\ \A d \in Device : devices'[d].last = devices[d].last /\ mind[d] \subseteq mind'[d]
  /\ \/ UNCHANGED <<running, result>>
     \/ running' = 0 /\ result' = "none"
     \/ /\ result' = "none" /\ running' \in DOMAIN journal
        /\ journal[running'].dev \in Device /\ journal[running'].outcome = "null"

LEMMA IdlesKept ==
  ASSUME TypeOK, HubKept, NoEcho, HubIdles
  PROVE  HubKept' /\ NoEcho'
<1>1. NoEcho'
  BY DEF NoEcho, HubIdles
<1>2. HandKept'
  BY DEF HubKept, HandKept, HubIdles
<1>3. ASSUME NEW g \in DOMAIN journal PROVE RowKept(g)'
  <2>1. RowKept(g) /\ journal[g] \in Row
    BY Numbers DEF HubKept
  <2>2. journal[g].dev # HubId => journal[g].dev \in Device
    BY <2>1 DEF Row
  <2>3. QED
    BY <2>1, <2>2 DEF HubIdles, RowKept
<1>4. ASSUME NEW d \in Device PROVE OutboxKept(d)'
  <2>1. OutboxKept(d)
    BY DEF HubKept
  <2>2. authored' = authored /\ devices'[d].last = devices[d].last /\ mind[d] \subseteq mind'[d]
    BY DEF HubIdles
  <2>3. QED
    BY <2>1, <2>2 DEF OutboxKept
<1>5. DOMAIN journal' = DOMAIN journal
  BY DEF HubIdles
<1>6. QED
  BY <1>1, <1>2, <1>3, <1>4, <1>5 DEF HubKept

\* An arriving event becomes a row nobody has written before.
LEMMA ReserveKept ==
  ASSUME TypeOK, HubKept, NoEcho, NEW d \in Device, acked[d] < Len(authored[d]),
         Reserve(Sent(d, acked[d] + 1)), UNCHANGED <<mind, authored, spoken>>
  PROVE  HubKept' /\ NoEcho'
<1>n. PICK n \in Nat, k \in Nat : n = Len(journal) + 1 /\ k = acked[d] + 1
  BY Numbers DEF TypeOK
<1> DEFINE row == Reserved(Sent(d, k))
<1>1. k \in DOMAIN authored[d] /\ Sent(d, k).dev = d /\ Sent(d, k).seq = k
      /\ Sent(d, k).event = <<d, k>>
  BY <1>n, SentTyped DEF HubKept, OutboxKept
<1>2. row.dev = d /\ row.seq = k /\ row.event = <<d, k>> /\ row.outcome = "null"
  BY <1>1 DEF Reserved
<1>3. journal' = Append(journal, row) /\ running = 0 /\ running' = n
      /\ UNCHANGED <<hubSeq, result, hubMind>>
  BY <1>n DEF Reserve
<1>4. k = devices[d].last + 1 /\ k \in Nat /\ k <= Len(authored[d])
  <2>1. k = devices[d].last + 1
    BY <1>n, <1>1 DEF Reserve, IsNext
  <2>2. k <= Len(authored[d])
    <3>1. authored[d] \in Seq([event: Event, op: Op])
      BY DEF TypeOK
    <3>2. DOMAIN authored[d] = 1..Len(authored[d])
      BY <3>1
    <3>3. QED
      BY <1>1, <3>2, Numbers
  <2>3. QED
    BY <2>1, <2>2
<1>5. \A c \in Device : devices'[c].last = IF c = d THEN k ELSE devices[c].last
  BY <1>n, <1>1 DEF Reserve, TypeOK, HubTypeOK
<1>6. /\ DOMAIN journal' = DOMAIN journal \cup {n} /\ n \notin DOMAIN journal
      /\ \A g \in DOMAIN journal : journal'[g] = journal[g]
      /\ journal'[n] = row
  <2> HIDE DEF row
  <2>1. QED
    BY <1>n, <1>3, AppendGrows
<1> HIDE DEF row
<1>7. ASSUME NEW g \in DOMAIN journal PROVE journal[g].event # <<d, k>> /\ RowKept(g)'
  <2>1. RowKept(g) /\ journal[g] \in Row
    BY Numbers DEF HubKept
  <2>2. CASE journal[g].dev = HubId
    <3>1. journal[g].event[1] = HubId /\ journal[g].event[2] <= spoken
      BY <2>1, <2>2 DEF RowKept
    <3>2. QED
      BY <1>3, <1>6, <2>1, <2>2, <3>1, HubIdAssumption DEF RowKept
  <2>3. CASE journal[g].dev # HubId
    <3>1. journal[g].dev \in Device /\ journal[g].seq \in Nat
          /\ journal[g].event = <<journal[g].dev, journal[g].seq>>
          /\ journal[g].seq \in 1 .. devices[journal[g].dev].last
          /\ devices[journal[g].dev].last \in Nat
      BY <2>1, <2>3, Numbers DEF RowKept, Row
    <3>2. journal[g].seq \in 1 .. devices'[journal[g].dev].last
      BY <1>4, <1>5, <3>1
    <3>3. journal[g].event # <<d, k>>
      <4>1. journal[g].dev = d => journal[g].seq # k
        BY <1>4, <3>1
      <4>2. QED
        BY <3>1, <4>1
    <3>4. QED
      BY <1>3, <1>6, <2>1, <2>3, <3>1, <3>2, <3>3 DEF RowKept
  <2>4. QED
    BY <2>2, <2>3
<1>8. RowKept(n)'
  <2>1. d # HubId /\ devices'[d].last = k
    BY <1>5, HubIdAssumption
  <2>2. k \in 1..k
    <3>1. devices[d].last \in Nat
      BY Numbers
    <3>2. QED
      BY <1>4, <3>1
  <2>3. QED
    BY <1>2, <1>6, <2>1, <2>2 DEF RowKept
<1>9. HandKept'
  <2>1. result = "none"
    BY <1>3 DEF TypeOK, HubTypeOK
  <2>2. journal'[running'].dev \in Device /\ journal'[running'].outcome = "null"
    BY <1>2, <1>3, <1>6
  <2>3. QED
    BY <1>3, <2>1, <2>2 DEF HandKept
<1>10. ASSUME NEW c \in Device PROVE OutboxKept(c)'
  BY <1>4, <1>5 DEF HubKept, OutboxKept
<1>11. NoEcho'
  BY <1>2, <1>6, <1>7 DEF NoEcho
<1>12. QED
  BY <1>6, <1>7, <1>8, <1>9, <1>10, <1>11 DEF HubKept

\* The hub's own words are numbered by spoken, so a new one is new.
LEMMA HubWriteKept ==
  ASSUME TypeOK, HubKept, NoEcho, HubWrite
  PROVE  HubKept' /\ NoEcho'
<1>n. PICK n \in Nat : n = Len(journal) + 1
  BY Numbers
<1> DEFINE e == <<HubId, spoken + 1>>
           row == [dev |-> HubId, seq |-> hubSeq + 1, event |-> e, op |-> 1, outcome |-> "ok"]
<1>1. /\ spoken' = spoken + 1 /\ spoken \in Nat /\ hubMind' = hubMind \cup {e}
      /\ UNCHANGED <<mind, authored, devices, running, result>>
      /\ UNCHANGED journal \/ journal' = Append(journal, row)
  BY DEF HubWrite, JournalLocal, followerVars, upVars, TypeOK
<1>2. ASSUME NEW g \in DOMAIN journal
      PROVE  journal[g].event # e /\ (journal'[g] = journal[g] => RowKept(g)')
  <2>1. RowKept(g) /\ journal[g] \in Row
    BY Numbers DEF HubKept
  <2>2. journal[g].event \in Writer \X Nat
    BY <2>1 DEF Row, Event
  <2>3. CASE journal[g].dev = HubId
    <3>1. journal[g].event[1] = HubId /\ journal[g].event[2] <= spoken /\ journal[g].event[2] \in Nat
      BY <2>1, <2>2, <2>3 DEF RowKept
    <3>2. journal[g].event[2] <= spoken + 1 /\ journal[g].event[2] # spoken + 1
      BY <1>1, <3>1
    <3>3. QED
      BY <1>1, <2>1, <2>3, <3>1, <3>2 DEF RowKept
  <2>4. CASE journal[g].dev # HubId
    <3>1. journal[g].event[1] # HubId
      BY <2>1, <2>4, HubIdAssumption DEF RowKept, Row
    <3>2. QED
      BY <1>1, <2>1, <2>4, <3>1 DEF RowKept
  <2>5. QED
    BY <2>3, <2>4
<1>3. \A d \in Device : OutboxKept(d)'
  BY <1>1 DEF HubKept, OutboxKept
<1>4. CASE UNCHANGED journal
  <2>1. HandKept'
    BY <1>1, <1>4 DEF HubKept, HandKept
  <2>2. NoEcho'
    BY <1>4 DEF NoEcho
  <2>3. QED
    BY <1>2, <1>3, <1>4, <2>1, <2>2 DEF HubKept
<1>5. CASE journal' = Append(journal, row)
  <2>1. /\ DOMAIN journal' = DOMAIN journal \cup {n} /\ n \notin DOMAIN journal
        /\ \A g \in DOMAIN journal : journal'[g] = journal[g]
        /\ journal'[n] = row
    <3> HIDE DEF row
    <3>1. QED
      BY <1>n, <1>5, AppendGrows
  <2>2. RowKept(n)'
    <3>1. row.outcome = "ok" /\ row.dev = HubId /\ row.event = e /\ e[1] = HubId /\ e[2] = spoken + 1
      OBVIOUS
    <3>2. spoken + 1 <= spoken' /\ e \in hubMind'
      BY <1>1
    <3> HIDE DEF row, e
    <3>3. QED
      BY <2>1, <3>1, <3>2 DEF RowKept
  <2>3. HandKept'
    <3>1. running # 0 => running \in DOMAIN journal
      BY Numbers DEF TypeOK, HubTypeOK
    <3>2. result # "none" => running # 0
      BY DEF TypeOK, HubTypeOK
    <3>3. QED
      BY <1>1, <2>1, <3>1, <3>2 DEF HubKept, HandKept
  <2>4. NoEcho'
    <3>1. row.event = e
      OBVIOUS
    <3> HIDE DEF row, e
    <3>2. QED
      BY <1>2, <2>1, <3>1 DEF NoEcho
  <2>5. QED
    BY <1>2, <1>3, <2>1, <2>2, <2>3, <2>4 DEF HubKept
<1>6. QED
  BY <1>1, <1>4, <1>5

LEMMA RunKept ==
  ASSUME TypeOK, HubKept, NoEcho, Run
  PROVE  HubKept' /\ NoEcho'
<1>1. /\ running \in DOMAIN journal /\ result' \in {"ok", "failed"}
      /\ hubMind \subseteq hubMind'
      /\ result' = "ok" => journal[running].event \in hubMind'
      /\ UNCHANGED <<journal, devices, running, spoken, authored, mind>>
  BY Numbers DEF Run, RunOp, followerVars, upVars, hubSideVars, TypeOK, HubTypeOK
<1>2. QED
  BY <1>1 DEF HubKept, RowKept, HandKept, OutboxKept, NoEcho

LEMMA FinishKept ==
  ASSUME TypeOK, HubKept, NoEcho, Finish
  PROVE  HubKept' /\ NoEcho'
<1>1. PICK lost \in BOOLEAN : StampOutcome(lost)
  BY DEF Finish
<1>2. /\ UNCHANGED <<devices, spoken, authored, mind, hubMind>>
      /\ running' = 0 /\ result' = "none" /\ result \in {"ok", "failed"} /\ running # 0
  BY <1>1 DEF Finish, StampOutcome, followerVars, hubSideVars, HubKept, HandKept, TypeOK, HubTypeOK
<1>3. /\ DOMAIN journal' = DOMAIN journal
      /\ \A g \in DOMAIN journal :
           journal'[g] = journal[g] \/ (g = running /\ journal'[g] = [journal[g] EXCEPT !.outcome = result])
  BY <1>1, <1>2, StampGrows DEF HubKept
<1>4. ASSUME NEW g \in DOMAIN journal
      PROVE  RowKept(g)' /\ journal'[g].event = journal[g].event
  <2>1. RowKept(g) /\ journal[g] \in Row
    BY Numbers DEF HubKept
  <2>2. CASE journal'[g] = journal[g]
    BY <1>2, <2>1, <2>2 DEF RowKept
  <2>3. CASE g = running /\ journal'[g] = [journal[g] EXCEPT !.outcome = result]
    <3>1. result = "ok" => journal[g].event \in hubMind
      BY <1>2, <2>3 DEF HubKept, HandKept
    <3>2. /\ journal'[g].outcome = result /\ journal'[g].event = journal[g].event
          /\ journal'[g].dev = journal[g].dev /\ journal'[g].seq = journal[g].seq
      BY <2>1, <2>3 DEF Row
    <3>3. QED
      BY <1>2, <2>1, <3>1, <3>2 DEF RowKept
  <2>4. QED
    BY <1>3, <2>2, <2>3
<1>5. HandKept' /\ \A d \in Device : OutboxKept(d)'
  BY <1>2 DEF HubKept, HandKept, OutboxKept
<1>6. NoEcho'
  BY <1>3, <1>4 DEF NoEcho
<1>7. QED
  BY <1>3, <1>4, <1>5, <1>6 DEF HubKept

LEMMA DeviceWriteKept ==
  ASSUME TypeOK, HubKept, NoEcho, NEW d \in Device, NEW op \in Op, DeviceWrite(d, op)
  PROVE  HubKept' /\ NoEcho'
<1> DEFINE n == Len(authored[d]) + 1
           entry == [event |-> <<d, n>>, op |-> op]
<1>1. /\ mind' = [mind EXCEPT ![d] = @ \cup {<<d, n>>}]
      /\ authored' = [authored EXCEPT ![d] = Append(@, entry)]
      /\ UNCHANGED <<hubVars, hubSideVars>>
  BY DEF DeviceWrite
<1>2. \A g \in DOMAIN journal : RowKept(g)'
  BY <1>1 DEF hubVars, hubSideVars, HubKept, RowKept
<1>3. HandKept' /\ NoEcho' /\ DOMAIN journal' = DOMAIN journal
  BY <1>1 DEF hubVars, HubKept, HandKept, NoEcho
<1>4. ASSUME NEW c \in Device, c # d PROVE OutboxKept(c)'
  BY <1>1, <1>4 DEF hubVars, HubKept, OutboxKept, TypeOK
<1>5. OutboxKept(d)'
  <2>1. authored[d] \in Seq([event: Event, op: Op]) /\ Len(authored[d]) \in Nat
    BY Numbers DEF TypeOK
  <2>2. authored'[d] = Append(authored[d], entry) /\ mind'[d] = mind[d] \cup {<<d, n>>}
    BY <1>1 DEF TypeOK
  <2>3. /\ Len(authored'[d]) = n /\ DOMAIN authored'[d] = DOMAIN authored[d] \cup {n}
        /\ authored'[d][n] = entry
        /\ \A k \in DOMAIN authored[d] : authored'[d][k] = authored[d][k]
    <3> HIDE DEF entry
    <3>1. /\ Len(authored'[d]) = n /\ DOMAIN authored'[d] = 1..n
          /\ DOMAIN authored[d] = 1..Len(authored[d])
          /\ authored'[d][n] = entry
          /\ \A k \in 1..Len(authored[d]) : authored'[d][k] = authored[d][k]
      BY <2>1, <2>2
    <3>2. 1..n = 1..Len(authored[d]) \cup {n}
      BY <2>1
    <3>3. QED
      BY <3>1, <3>2
  <2>4. entry.event = <<d, n>>
    OBVIOUS
  <2>5. devices'[d].last <= n
    <3>1. devices' = devices /\ devices[d].last <= Len(authored[d]) /\ devices[d].last \in Nat
      BY <1>1, Numbers DEF hubVars, HubKept, OutboxKept
    <3>2. QED
      BY <2>1, <3>1
  <2> HIDE DEF entry, n
  <2>6. QED
    BY <2>2, <2>3, <2>4, <2>5 DEF HubKept, OutboxKept
<1>6. QED
  BY <1>2, <1>3, <1>4, <1>5 DEF HubKept

-----------------------------------------------------------------------------
(* The followers' side.                                                    *)

\* A page skips nothing but open rows.
LEMMA CutCovers ==
  ASSUME TypeOK, NEW since \in Nat, NEW h \in Cut(since)
  PROVE  /\ h \in Finished /\ h > since
         /\ \A g \in since + 1 .. h : g \in Cut(since) \/ (g \in Open /\ g < h)
<1> DEFINE ready == {g \in Finished : g > since}
           before(g) == {x \in ready : x < g}
<1>1. h \in Finished /\ h > since /\ Cardinality(before(h)) < PageSize
  BY DEF Cut
<1>2. ready \subseteq 1..Len(journal) /\ Len(journal) \in Nat /\ h \in 1..Len(journal)
  BY <1>1, Numbers DEF Finished
<1>3. ASSUME NEW g \in since + 1 .. h, g \in Finished PROVE g \in Cut(since)
  <2>1. g \in ready /\ g <= h
    <3>1. h \in Nat
      BY <1>2
    <3>2. g \in Int /\ g > since /\ g <= h
      BY <3>1
    <3>3. QED
      BY <1>3, <3>2
  <2>2. before(g) \subseteq before(h)
    BY <1>2, <2>1
  <2>3. IsFiniteSet(before(h))
    <3>1. IsFiniteSet(1..Len(journal)) /\ before(h) \subseteq 1..Len(journal)
      BY <1>2, FS_Interval
    <3>2. QED
      BY <3>1, FS_Subset
  <2>4. Cardinality(before(g)) \in Nat /\ Cardinality(before(h)) \in Nat
        /\ Cardinality(before(g)) <= Cardinality(before(h))
    BY <2>2, <2>3, FS_Subset, FS_CardinalityType
  <2>5. Cardinality(before(g)) < PageSize
    BY <1>1, <2>4, FeedBoundAssumption
  <2>6. QED
    BY <2>1, <2>5 DEF Cut
<1>4. ASSUME NEW g \in since + 1 .. h, g \notin Finished PROVE g \in Open /\ g < h
  BY <1>1, <1>2, <1>4, Numbers DEF Open
<1>5. QED
  BY <1>1, <1>3, <1>4

\* Whatever others do, a pull at rest stays as good as it was.
LEMMA StillKept ==
  ASSUME TypeOK, NEW d \in Device, PullKept(d), JournalGrows, hubMind \subseteq hubMind',
         pulling'[d] = pulling[d], page'[d] = page[d], base'[d] = base[d],
         position'[d] = position[d], mind[d] \subseteq mind'[d],
         passedOpen[d] \subseteq passedOpen'[d], refused[d] \subseteq refused'[d],
         Len(journal') \in Nat
  PROVE  PullKept(d)'
<1>1. position[d] \in 0..Len(journal) /\ page[d] \subseteq DOMAIN journal
  BY DEF TypeOK
<1>2. /\ DOMAIN journal = 1..Len(journal) /\ Len(journal) \in Nat /\ base[d].at \in Nat
      /\ base[d].at <= Len(journal) /\ Len(journal) <= Len(journal')
  BY Numbers DEF PullKept, BaseKept, JournalGrows
<1>3. \A g \in DOMAIN journal : journal'[g].event = journal[g].event
  BY DEF JournalGrows, SameRow
<1>4. Finished \subseteq Finished'
  BY DEF Finished, JournalGrows, SameRow
<1>5. PageKept(d)'
  BY <1>1, <1>3, <1>4 DEF PullKept, PageKept, IsHead
<1>6. BaseKept(d)'
  <2>1. base[d].at <= Len(journal')
    BY <1>2
  <2>2. \A g \in 1..base[d].at : journal'[g].event = journal[g].event
    BY <1>2, <1>3
  <2>3. QED
    BY <2>1, <2>2 DEF PullKept, BaseKept
<1>7. \A g \in 1..position[d] : Covered(d, g)'
  <2>1. \A g \in 1..position[d] : journal'[g].event = journal[g].event
    BY <1>1, <1>2, <1>3
  <2>2. QED
    BY <2>1 DEF PullKept, Covered
<1>8. QED
  BY <1>5, <1>6, <1>7 DEF PullKept

\* A pull that holds no page and no baseline.
LEMMA EmptyKept ==
  ASSUME TypeOK, NEW d \in Device, PullKept(d), UNCHANGED journal, hubMind \subseteq hubMind',
         pulling'[d] \in {"idle", "asking", "booting", "stamped"}, page'[d] = {},
         base'[d] \in {base[d], NoBase},
         position'[d] = position[d], mind'[d] = mind[d], passedOpen[d] \subseteq passedOpen'[d],
         refused[d] \subseteq refused'[d]
  PROVE  PullKept(d)'
<1>1. PageKept(d)'
  BY DEF PageKept
<1>2. BaseKept(d)'
  BY Numbers DEF PullKept, BaseKept, NoBase
<1>3. \A g \in 1..position'[d] : Covered(d, g)'
  BY DEF PullKept, Covered
<1>4. QED
  BY <1>1, <1>2, <1>3 DEF PullKept

LEMMA ServeKept ==
  ASSUME TypeOK, NEW d \in Device, PullKept(d), ServeEvents(d)
  PROVE  PullKept(d)'
<1>1. PICK cut : cut = Cut(position[d])
  OBVIOUS
<1>2. /\ page'[d] = cut /\ pulling'[d] = (IF cut = {} THEN "idle" ELSE "applying")
      /\ passedOpen'[d] = passedOpen[d] \cup {g \in Open : \E h \in cut : g < h}
      /\ UNCHANGED <<journal, hubMind, mind, base, position, refused>>
  BY <1>1 DEF ServeEvents, hubVars, TypeOK
<1>3. position[d] \in Nat
  BY Numbers
<1>4. /\ cut \subseteq Finished /\ \A h \in cut : h > position[d]
      /\ \A h \in cut : \A g \in position[d] + 1 .. h : g \in cut \/ g \in passedOpen'[d]
  BY <1>1, <1>2, <1>3, CutCovers
<1>5. PageKept(d)'
  BY <1>2, <1>4 DEF PageKept, Finished
<1>6. BaseKept(d)'
  BY <1>2 DEF PullKept, BaseKept
<1>7. \A g \in 1..position[d] : Covered(d, g)'
  BY <1>2 DEF PullKept, Covered
<1>8. QED
  BY <1>2, <1>5, <1>6, <1>7 DEF PullKept

\* After its head is applied, a follower holds the head's event, or its handler failed.
LEMMA ApplyKept ==
  ASSUME TypeOK, HubKept, NEW d \in Device, PullKept(d), ApplyHead(d)
  PROVE  PullKept(d)'
<1>0. UNCHANGED <<journal, hubMind, base, position, passedOpen>> /\ pulling[d] = "applying"
      /\ mind[d] \subseteq mind'[d] /\ refused[d] \subseteq refused'[d]
  BY DEF ApplyHead, hubVars, TypeOK
<1>1. PICK g \in page[d] :
        /\ IsHead(g, d)
        /\ \/ /\ journal[g].dev = d
              /\ pulling' = [pulling EXCEPT ![d] = "applied"]
              /\ UNCHANGED <<mind, page, refused>>
           \/ /\ journal[g].dev # d
              /\ \/ mind' = [mind EXCEPT ![d] = @ \cup {journal[g].event}]
                 \/ refused' = [refused EXCEPT ![d] = @ \cup {g}]
              /\ pulling' = [pulling EXCEPT ![d] = "applied"]
              /\ UNCHANGED page
           \/ /\ pulling' = [pulling EXCEPT ![d] = "idle"]
              /\ page' = [page EXCEPT ![d] = {}]
              /\ UNCHANGED <<mind, refused>>
  BY DEF ApplyHead
<1>2. g \in DOMAIN journal /\ journal[g] \in Row
  BY <1>1, Numbers DEF TypeOK
<1>3. CASE pulling' = [pulling EXCEPT ![d] = "applied"]
  <2>1. page' = page /\ pulling'[d] = "applied"
    BY <1>1, <1>3 DEF TypeOK
  <2>2. journal[g].event \in mind'[d] \/ g \in refused'[d]
    <3>1. CASE journal[g].dev = d
      <4>1. journal[g].event = <<d, journal[g].seq>> /\ journal[g].seq \in 1 .. devices[d].last
        BY <1>2, <3>1, HubIdAssumption DEF HubKept, RowKept, Row
      <4>2. devices[d].last <= Len(authored[d]) /\ devices[d].last \in Nat /\ Len(authored[d]) \in Nat
        BY Numbers DEF HubKept, OutboxKept
      <4>3. DOMAIN authored[d] = 1..Len(authored[d])
        <5>1. authored[d] \in Seq([event: Event, op: Op])
          BY DEF TypeOK
        <5>2. QED
          BY <5>1
      <4>4. journal[g].seq \in DOMAIN authored[d]
        BY <4>1, <4>2, <4>3
      <4>5. QED
        BY <1>0, <4>1, <4>4 DEF HubKept, OutboxKept
    <3>2. CASE journal[g].dev # d
      BY <1>1, <2>1, <3>2 DEF TypeOK
    <3>3. QED
      BY <3>1, <3>2
  <2>3. \A h \in page[d] : IsHead(h, d) => h = g
    <3>1. page[d] \subseteq Nat
      BY Numbers DEF TypeOK
    <3>2. QED
      BY <1>1, <3>1 DEF IsHead
  <2>4. PageKept(d)'
    BY <1>0, <1>1, <2>1, <2>2, <2>3 DEF PullKept, PageKept, Finished, IsHead
  <2>5. BaseKept(d)'
    BY <1>0, <2>1 DEF PullKept, BaseKept
  <2>6. \A h \in 1..position[d] : Covered(d, h)'
    BY <1>0 DEF PullKept, Covered
  <2>7. QED
    BY <1>0, <2>4, <2>5, <2>6 DEF PullKept
<1>4. CASE page' = [page EXCEPT ![d] = {}]
  BY <1>0, <1>1, <1>4, EmptyKept DEF TypeOK
<1>5. QED
  BY <1>1, <1>3, <1>4

LEMMA AdvanceKept ==
  ASSUME TypeOK, NEW d \in Device, PullKept(d), Advance(d)
  PROVE  /\ PullKept(d)'
         /\ position'[d] >= position[d]
         /\ \A g \in Finished \ (passedOpen[d] \cup refused[d]) :
              position[d] < g /\ g <= position'[d] => journal[g].event \in mind[d]
<1>1. PICK h \in page[d] :
        /\ IsHead(h, d)
        /\ position' = [position EXCEPT ![d] = h]
        /\ page' = [page EXCEPT ![d] = @ \ {h}]
        /\ pulling' = [pulling EXCEPT ![d] = IF page[d] = {h} THEN "asking" ELSE "applying"]
  BY DEF Advance
<1>2. UNCHANGED <<journal, hubMind, mind, base, passedOpen, refused>> /\ pulling[d] = "applied"
  BY DEF Advance, hubVars
<1>3. /\ position'[d] = h /\ page'[d] = page[d] \ {h}
      /\ pulling'[d] = (IF page[d] = {h} THEN "asking" ELSE "applying")
  BY <1>1 DEF TypeOK
<1>4. page[d] \subseteq Nat /\ h \in Nat /\ position[d] \in Nat /\ h > position[d]
  BY Numbers DEF TypeOK, PullKept, PageKept
<1>5. journal[h].event \in mind[d] \/ h \in refused[d]
  BY <1>1, <1>2 DEF PullKept, PageKept
<1>6. ASSUME NEW g \in position[d] + 1 .. h PROVE g = h \/ g \in passedOpen[d]
  <2>1. g \in page[d] \/ g \in passedOpen[d]
    BY DEF PullKept, PageKept
  <2>2. g \in page[d] => g = h
    BY <1>1, <1>4 DEF IsHead
  <2>3. QED
    BY <2>1, <2>2
<1>7. ASSUME NEW g \in 1..h PROVE Covered(d, g)
  <2>1. g \in 1..position[d] \/ g \in position[d] + 1 .. h
    BY <1>4
  <2>2. QED
    BY <1>5, <1>6, <2>1 DEF PullKept, Covered
<1>8. PageKept(d)'
  <2>1. \A x \in page'[d] : x \in page[d] /\ x > h
    BY <1>1, <1>3, <1>4 DEF IsHead
  <2>2. ASSUME NEW x \in page'[d], NEW g \in h + 1 .. x
        PROVE  g \in page'[d] \/ g \in passedOpen[d]
    <3>1. g \in position[d] + 1 .. x /\ x \in page[d] /\ g # h
      BY <1>4, <2>1
    <3>2. g \in page[d] \/ g \in passedOpen[d]
      BY <3>1 DEF PullKept, PageKept
    <3>3. QED
      BY <1>3, <3>1, <3>2
  <2>3. pulling'[d] # "applied"
    BY <1>3
  <2>4. page'[d] \subseteq Finished'
    BY <1>2, <2>1 DEF PullKept, PageKept, Finished
  <2>5. QED
    BY <1>2, <1>3, <2>1, <2>2, <2>3, <2>4 DEF PageKept
<1>9. BaseKept(d)'
  BY <1>2, <1>3 DEF PullKept, BaseKept
<1>10. \A g \in 1..position'[d] : Covered(d, g)'
  BY <1>2, <1>3, <1>7 DEF Covered
<1>11. \A g \in Finished \ (passedOpen[d] \cup refused[d]) :
         position[d] < g /\ g <= position'[d] => journal[g].event \in mind[d]
  <2> SUFFICES ASSUME NEW g \in Finished \ (passedOpen[d] \cup refused[d]), position[d] < g, g <= h
               PROVE  journal[g].event \in mind[d]
    BY <1>3
  <2>1. g \in position[d] + 1 .. h
    BY <1>4, Numbers DEF Finished
  <2>2. QED
    BY <1>5, <1>6, <2>1
<1>12. QED
  BY <1>3, <1>4, <1>8, <1>9, <1>10, <1>11 DEF PullKept

LEMMA BaselineKept ==
  ASSUME TypeOK, HubKept, NEW d \in Device, PullKept(d),
         ServeBaseline(d) \/ ImportBaseline(d)
  PROVE  PullKept(d)'
<1>0. UNCHANGED <<journal, hubMind, page, position>> /\ page[d] = {}
  BY DEF ServeBaseline, ImportBaseline, hubVars, TypeOK
<1>1. PageKept(d)'
  <2>1. pulling'[d] \in {"importing", "imported"}
    BY DEF ServeBaseline, ImportBaseline, TypeOK
  <2>2. QED
    BY <1>0, <2>1 DEF PageKept
<1>2. /\ mind[d] \subseteq mind'[d] /\ passedOpen[d] \subseteq passedOpen'[d]
      /\ refused[d] \subseteq refused'[d]
  BY DEF ServeBaseline, ImportBaseline, TypeOK
<1>3. \A g \in 1..position[d] : Covered(d, g)'
  BY <1>0, <1>2 DEF PullKept, Covered
<1>4. BaseKept(d)'
  <2>1. CASE ServeBaseline(d)
    <3>1. /\ base'[d] = [at |-> Len(journal), holds |-> hubMind] /\ pulling'[d] = "importing"
          /\ Open \subseteq passedOpen'[d] /\ Failed \subseteq refused'[d]
      BY <2>1 DEF ServeBaseline, TypeOK
    <3>2. ASSUME NEW g \in 1..Len(journal), g \notin Open
          PROVE  journal[g].event \in hubMind \/ g \in Failed
      <4>1. journal[g].outcome # "null" /\ journal[g] \in Row /\ RowKept(g)
        BY <3>2, Numbers DEF Open, Finished, HubKept
      <4>2. QED
        BY <3>2, <4>1, Numbers DEF RowKept, Row, Outcome, Failed
    <3>3. position[d] <= Len(journal)
      BY Numbers DEF TypeOK
    <3>4. QED
      BY <1>0, <3>1, <3>2, <3>3, Numbers DEF BaseKept
  <2>2. CASE ImportBaseline(d)
    <3>1. /\ base' = base /\ UNCHANGED <<passedOpen, refused>> /\ mind'[d] = mind[d] \cup base[d].holds
          /\ pulling[d] = "importing" /\ pulling'[d] = "imported"
      BY <2>2 DEF ImportBaseline, TypeOK
    <3>2. QED
      BY <1>0, <3>1 DEF PullKept, BaseKept
  <2>3. QED
    BY <2>1, <2>2
<1>5. QED
  BY <1>0, <1>1, <1>3, <1>4 DEF PullKept

LEMMA StampKept ==
  ASSUME TypeOK, NEW d \in Device, PullKept(d), StampPosition(d)
  PROVE  /\ PullKept(d)'
         /\ position'[d] >= position[d]
         /\ \A g \in Finished \ (passedOpen[d] \cup refused[d]) :
              position[d] < g /\ g <= position'[d] => journal[g].event \in mind[d]
<1>1. /\ pulling[d] = "imported" /\ pulling'[d] = "stamped" /\ page'[d] = {}
      /\ position'[d] = base[d].at /\ base'[d] = NoBase
      /\ UNCHANGED <<journal, hubMind, mind, passedOpen, refused>>
  BY DEF StampPosition, hubVars, TypeOK
<1>2. \A g \in 1..base[d].at : Covered(d, g)
  BY <1>1 DEF PullKept, BaseKept, Covered
<1>3. base[d].at \in Nat /\ position[d] \in Nat /\ position[d] <= base[d].at
  BY <1>1, Numbers DEF PullKept, BaseKept
<1>4. PageKept(d)' /\ BaseKept(d)'
  BY <1>1, Numbers DEF PageKept, BaseKept, NoBase
<1>5. ASSUME NEW g \in Finished \ (passedOpen[d] \cup refused[d]), position[d] < g, g <= position'[d]
      PROVE  journal[g].event \in mind[d]
  <2>1. g \in 1..base[d].at
    BY <1>1, <1>3, <1>5, Numbers DEF Finished
  <2>2. QED
    BY <1>2, <2>1 DEF Covered
<1>6. QED
  BY <1>1, <1>2, <1>3, <1>4, <1>5 DEF PullKept, Covered

-----------------------------------------------------------------------------
(* Every step keeps the invariant.                                         *)

PullAction(d) == StartPull(d) \/ PullStep(d) \/ LosePull(d)

\* A step that is no pull's leaves the pulls alone.
OutsidePulls ==
  /\ UNCHANGED <<pulling, page, base, position, passedOpen, refused>>
  /\ \A d \in Device : mind[d] \subseteq mind'[d]

InOrder(d) ==
  /\ position'[d] >= position[d]
  /\ \A g \in Finished \ (passedOpen[d] \cup refused[d]) :
       position[d] < g /\ g <= position'[d] => journal[g].event \in mind[d]

LEMMA OutsideOrPull ==
  ASSUME TypeOK, [FeedNext]_vars
  PROVE  OutsidePulls \/ \E d \in Device : PullAction(d)
<1> USE DEF OutsidePulls, followerVars
<1>1. CASE UNCHANGED vars
  BY <1>1 DEF vars
<1>2. ASSUME NEW d \in Device, Pair(d) \/ Revoke(d) \/ UpgradeFollower(d) \/ Arrive(d) \/ ArriveAnswered(d)
      PROVE  OutsidePulls
  BY <1>2 DEF Pair, Revoke, UpgradeFollower, Arrive, ArriveAnswered
<1>3. CASE Upgrade \/ Run \/ Crash \/ Finish \/ HubWrite
  BY <1>3 DEF Upgrade, Run, Crash, Finish, HubWrite
<1>4. ASSUME NEW d \in Device, NEW op \in Op, DeviceWrite(d, op) PROVE OutsidePulls
  BY <1>4 DEF DeviceWrite, TypeOK
<1>5. QED
  BY <1>1, <1>2, <1>3, <1>4 DEF FeedNext, PullAction

\* A pull touches its own follower only.
LEMMA PullsApart ==
  ASSUME TypeOK, NEW d \in Device, PullAction(d), NEW c \in Device, c # d
  PROVE  /\ pulling'[c] = pulling[c] /\ page'[c] = page[c] /\ base'[c] = base[c]
         /\ position'[c] = position[c] /\ mind'[c] = mind[c] /\ passedOpen'[c] = passedOpen[c]
         /\ refused'[c] = refused[c]
<1> USE DEF TypeOK
<1>1. CASE StartPull(d)
  BY <1>1 DEF StartPull
<1>2. CASE ServeEvents(d) \/ ServeRefused(d)
  BY <1>2 DEF ServeEvents, ServeRefused
<1>3. CASE ApplyHead(d)
  BY <1>3 DEF ApplyHead
<1>4. CASE Advance(d)
  BY <1>4 DEF Advance
<1>5. CASE ServeBaseline(d) \/ ImportBaseline(d) \/ StampPosition(d) \/ FinishBoot(d)
  BY <1>5 DEF ServeBaseline, ImportBaseline, StampPosition, FinishBoot
<1>6. CASE LosePull(d)
  BY <1>6 DEF LosePull
<1>7. QED
  BY <1>1, <1>2, <1>3, <1>4, <1>5, <1>6 DEF PullAction, PullStep

LEMMA PullHub ==
  ASSUME TypeOK, NEW d \in Device, PullAction(d)
  PROVE  UNCHANGED <<hubVars, hubSideVars, upVars>> /\ \A c \in Device : mind[c] \subseteq mind'[c]
<1>1. UNCHANGED <<hubVars, hubSideVars, upVars>>
  BY DEF PullAction, StartPull, PullStep, LosePull, ServeEvents, ServeRefused, ApplyHead, Advance,
     ServeBaseline, ImportBaseline, StampPosition, FinishBoot
<1>2. mind[d] \subseteq mind'[d]
  BY DEF PullAction, StartPull, PullStep, LosePull, ServeEvents, ServeRefused, ApplyHead, Advance,
     ServeBaseline, ImportBaseline, StampPosition, FinishBoot, TypeOK
<1>3. QED
  BY <1>1, <1>2, PullsApart

LEMMA OwnPull ==
  ASSUME TypeOK, FeedKept, NEW d \in Device, PullAction(d)
  PROVE  PullKept(d)' /\ InOrder(d)
<1>0. PullKept(d) /\ HubKept /\ UNCHANGED journal /\ UNCHANGED hubMind
  BY PullHub DEF FeedKept, hubVars
<1>1. ASSUME position'[d] = position[d] PROVE InOrder(d)
  BY <1>1, Numbers DEF InOrder, Finished
<1>2. CASE StartPull(d) \/ ServeRefused(d) \/ FinishBoot(d) \/ LosePull(d)
  <2>1. /\ pulling'[d] \in {"idle", "asking", "booting"} /\ page'[d] = {}
        /\ base'[d] \in {base[d], NoBase} /\ position'[d] = position[d] /\ mind'[d] = mind[d]
        /\ passedOpen'[d] = passedOpen[d] /\ refused'[d] = refused[d]
    BY <1>2 DEF StartPull, ServeRefused, FinishBoot, LosePull, TypeOK
  <2>2. QED
    BY <1>0, <1>1, <2>1, EmptyKept
<1>3. CASE ServeEvents(d)
  BY <1>0, <1>1, <1>3, ServeKept DEF ServeEvents
<1>4. CASE ApplyHead(d)
  BY <1>0, <1>1, <1>4, ApplyKept DEF ApplyHead
<1>5. CASE Advance(d) \/ StampPosition(d)
  BY <1>0, <1>5, AdvanceKept, StampKept DEF InOrder
<1>6. CASE ServeBaseline(d) \/ ImportBaseline(d)
  BY <1>0, <1>1, <1>6, BaselineKept DEF ServeBaseline, ImportBaseline
<1>7. QED
  BY <1>2, <1>3, <1>4, <1>5, <1>6 DEF PullAction, PullStep

LEMMA HubStepKept ==
  ASSUME TypeOK, FeedKept, [FeedNext]_vars
  PROVE  HubKept' /\ NoEcho'
<1>0. HubKept /\ NoEcho
  BY DEF FeedKept
<1>u. ASSUME UNCHANGED hubVars, UNCHANGED <<spoken, authored>>,
             \A d \in Device : mind[d] \subseteq mind'[d]
      PROVE  HubIdles
  BY <1>u DEF hubVars, HubIdles
<1>1. CASE UNCHANGED vars
  BY <1>0, <1>1, <1>u, IdlesKept DEF vars, followerVars, hubSideVars, upVars
<1>2. ASSUME NEW d \in Device, Pair(d) \/ Revoke(d) PROVE HubIdles
  <2>0. devices \in [Device -> [paired: BOOLEAN, revoked: BOOLEAN, last: Nat]]
    BY DEF TypeOK, HubTypeOK
  <2>1. \A c \in Device : devices'[c].last = devices[c].last
    <3>1. CASE Pair(d)
      BY <2>0, <3>1 DEF Pair, AddDevice
    <3>2. CASE Revoke(d)
      BY <2>0, <3>2 DEF Revoke, RevokeDevice
    <3>3. QED
      BY <1>2, <3>1, <3>2
  <2>2. QED
    BY <1>2, <2>1 DEF Pair, Revoke, AddDevice, RevokeDevice, followerVars, hubSideVars, upVars, HubIdles
<1>3. ASSUME NEW d \in Device, UpgradeFollower(d) \/ ArriveAnswered(d) PROVE HubIdles
  <2>1. UNCHANGED <<hubVars, mind, authored, spoken>>
    BY <1>3 DEF UpgradeFollower, ArriveAnswered, followerVars, hubSideVars, upVars
  <2>2. QED
    BY <1>u, <2>1
<1>4. ASSUME Upgrade \/ Crash PROVE HubIdles
  BY <1>4 DEF Upgrade, Crash, UpgradeHub, HubCrash, followerVars, hubSideVars, upVars, HubIdles
<1>5. ASSUME NEW d \in Device, Arrive(d) PROVE HubKept' /\ NoEcho'
  <2> DEFINE e == Sent(d, acked[d] + 1)
  <2>1. UNCHANGED <<mind, authored, spoken>> /\ acked[d] < Len(authored[d])
    BY <1>5 DEF Arrive, followerVars, hubSideVars, upVars
  <2>2. CASE Reserve(e)
    BY <1>0, <2>1, <2>2, ReserveKept
  <2>3. CASE Resume(e)
    <3>1. e.dev = d
      BY <2>1, SentTyped
    <3> HIDE DEF e
    <3>2. /\ UNCHANGED <<devices, journal, hubMind, result>> /\ running = 0
          /\ running' \in DOMAIN journal /\ journal[running'].dev = d
          /\ journal[running'].outcome = "null"
      BY <2>3, <3>1 DEF Resume, Prior, Rows
    <3>3. result = "none"
      BY <3>2 DEF TypeOK, HubTypeOK
    <3>4. HubIdles
      BY <2>1, <3>2, <3>3 DEF HubIdles
    <3>5. QED
      BY <1>0, <3>4, IdlesKept
  <2>4. QED
    BY <1>5, <2>2, <2>3 DEF Arrive
<1>6. ASSUME NEW d \in Device, PullAction(d) PROVE HubIdles
  BY <1>6, <1>u, PullHub DEF hubSideVars, upVars
<1>7. QED
  BY <1>0, <1>1, <1>2, <1>3, <1>4, <1>5, <1>6, IdlesKept, RunKept, FinishKept, HubWriteKept,
     DeviceWriteKept DEF FeedNext, PullAction

LEMMA FollowersKept ==
  ASSUME TypeOK, FeedKept, [FeedNext]_vars
  PROVE  FollowersHoldHistory'
<1> DEFINE OnRecord(e) == e \in hubMind \/ \E g \in Failed : journal[g].event = e
<1> SUFFICES ASSUME NEW d \in Device, NEW e \in mind'[d] PROVE e[1] = d \/ OnRecord(e)'
  BY DEF FollowersHoldHistory
<1>1. OnRecord(e) => OnRecord(e)'
  BY FeedGrows DEF FeedKept, HubKept, JournalGrows, SameRow, Failed
<1>2. CASE e \in mind[d]
  BY <1>1, <1>2 DEF FeedKept, FollowersHoldHistory
<1>3. CASE e \notin mind[d]
  <2>1. ASSUME NEW c \in Device, NEW op \in Op, DeviceWrite(c, op) PROVE e[1] = d
    BY <1>3, <2>1 DEF DeviceWrite, TypeOK
  <2>2. ASSUME NEW c \in Device, PullAction(c) PROVE OnRecord(e)
    <3>1. c = d
      BY <1>3, <2>2, PullsApart
    <3>2. ApplyHead(d) \/ ImportBaseline(d)
      BY <1>3, <2>2, <3>1 DEF PullAction, StartPull, PullStep, LosePull, ServeEvents, ServeRefused,
         Advance, ServeBaseline, StampPosition, FinishBoot
    <3>3. CASE ApplyHead(d)
      <4>1. PICK g \in page[d] : e = journal[g].event
        BY <1>3, <3>3 DEF ApplyHead, TypeOK
      <4>2. g \in Finished /\ journal[g] \in Row /\ RowKept(g)
        BY Numbers DEF FeedKept, PullKept, PageKept, HubKept, Finished
      <4>3. QED
        BY <4>1, <4>2 DEF Finished, Failed, RowKept, Row, Outcome
    <3>4. CASE ImportBaseline(d)
      BY <1>3, <3>4 DEF ImportBaseline, TypeOK, FeedKept, PullKept, BaseKept
    <3>5. QED
      BY <3>2, <3>3, <3>4
  <2>3. QED
    <3>1. mind' # mind
      BY <1>3
    <3>2. \/ \E c \in Device, op \in Op : DeviceWrite(c, op)
          \/ \E c \in Device : PullAction(c)
      BY <3>1 DEF FeedNext, vars, followerVars, PullAction, Pair, Revoke, UpgradeFollower, Upgrade,
         Arrive, ArriveAnswered, Run, Finish, Crash, HubWrite
    <3>3. QED
      BY <1>1, <2>1, <2>2, <3>2
<1>4. QED
  BY <1>2, <1>3

LEMMA StepKept ==
  ASSUME TypeOK, FeedKept, [FeedNext]_vars
  PROVE  FeedKept' /\ \A d \in Device : InOrder(d)
<1>1. TypeOK' /\ JournalGrows /\ hubMind \subseteq hubMind'
  BY StepTyped, FeedGrows DEF FeedKept, HubKept
<1>2. Len(journal') \in Nat
  <2>1. journal' \in Seq(Row)
    BY <1>1 DEF TypeOK, HubTypeOK
  <2>2. QED
    BY <2>1
<1>3. ASSUME NEW d \in Device PROVE PullKept(d)' /\ InOrder(d)
  <2>0. PullKept(d)
    BY DEF FeedKept
  <2>1. CASE PullAction(d)
    BY <2>1, OwnPull
  <2>2. CASE ~PullAction(d)
    <3>1. /\ pulling'[d] = pulling[d] /\ page'[d] = page[d] /\ base'[d] = base[d]
          /\ position'[d] = position[d] /\ mind[d] \subseteq mind'[d]
          /\ passedOpen[d] \subseteq passedOpen'[d] /\ refused[d] \subseteq refused'[d]
      BY <2>2, OutsideOrPull, PullsApart DEF OutsidePulls
    <3>2. PullKept(d)'
      BY <1>1, <1>2, <2>0, <3>1, StillKept
    <3>3. InOrder(d)
      BY <3>1, Numbers DEF InOrder, Finished
    <3>4. QED
      BY <3>2, <3>3
  <2>3. QED
    BY <2>1, <2>2
<1>4. QED
  BY <1>3, HubStepKept, FollowersKept DEF FeedKept

LEMMA Invariance == FeedSpec => [](TypeOK /\ FeedKept)
<1>1. TypeOK /\ FeedKept /\ [FeedNext]_vars => (TypeOK /\ FeedKept)'
  BY StepTyped, StepKept
<1>2. QED
  BY <1>1, InitTyped, InitKept, PTL DEF FeedSpec

\* Hub, followers and pages keep to their types; a page is in hand only while
\* its rows are being applied (TypeOK).
THEOREM FeedTypeCorrect == FeedSpec => []TypeOK
<1>1. QED
  BY Invariance, PTL

\* replica.js:15-18, 63-72, hub.js:253-257 (MissesExplained): behind its position
\* a follower lacks only rows that were open when it was carried past them, or
\* whose handler failed.
THEOREM NothingElseMissed == FeedSpec => []MissesExplained
<1>1. TypeOK /\ FeedKept => MissesExplained
  BY DEF FeedKept, PullKept, Covered, MissesExplained
<1>2. QED
  BY <1>1, Invariance, PTL

\* hub.js:149-156, 236-239 (FollowersHoldHistory): what a follower holds of
\* others' words the mind machine holds, or has on record as failed.
THEOREM HistoryNotRequests == FeedSpec => []FollowersHoldHistory
<1>1. TypeOK /\ FeedKept => FollowersHoldHistory
  BY DEF FeedKept
<1>2. QED
  BY <1>1, Invariance, PTL

\* engram.js:660-663 (NoEcho): each event enters the journal once.
THEOREM EventsEnterOnce == FeedSpec => []NoEcho
<1>1. TypeOK /\ FeedKept => NoEcho
  BY DEF FeedKept
<1>2. QED
  BY <1>1, Invariance, PTL

\* replica.js:5-6, 24-25 (AppliesInOrder): a position moves forward only, and
\* over no finished row the device has not applied, but one the cut left open
\* or whose handler failed.
THEOREM FeedInOrder == FeedSpec => AppliesInOrder
<1>1. TypeOK /\ FeedKept /\ [FeedNext]_vars =>
        [\A d \in Device : InOrder(d)]_vars
  BY StepKept
<1>2. FeedSpec => [][\A d \in Device : InOrder(d)]_vars
  BY <1>1, Invariance, PTL DEF FeedSpec
<1>3. QED
  BY <1>2 DEF InOrder, AppliesInOrder

-----------------------------------------------------------------------------
(* The journal the followers read is the shared log.                       *)

JLog == [g \in DOMAIN journal |-> Entry(g)]
Boxed(d) == {Sent(d, k) : k \in DOMAIN authored[d]}
OwnEntries == {Entry(g) : g \in OwnRows}
SeqsOf(d) == {journal[g].seq : g \in {h \in DOMAIN journal : journal[h].dev = d}}

\* Every number a writer was counted up to has its row.
Counted ==
  /\ \A d \in Device : SeqsOf(d) = 1 .. devices[d].last
  /\ SeqsOf(HubId) = 1 .. hubSeq

\* The four things a step does to outboxes and journal.
Quiet ==
  /\ DOMAIN journal' = DOMAIN journal
  /\ \A g \in DOMAIN journal : /\ journal'[g].dev = journal[g].dev /\ journal'[g].seq = journal[g].seq
                               /\ journal'[g].event = journal[g].event /\ journal'[g].op = journal[g].op
  /\ UNCHANGED <<authored, hubSeq>>
  /\ \A d \in Device : devices'[d].last = devices[d].last

Takes(d) ==
  /\ acked[d] < Len(authored[d])
  /\ Reserve(Sent(d, acked[d] + 1))
  /\ UNCHANGED authored

Utters(row) ==
  /\ row.dev = HubId /\ row.seq = hubSeq + 1
  /\ journal' = Append(journal, row)
  /\ hubSeq' = hubSeq + 1
  /\ UNCHANGED <<authored, devices>>

LEMMA StepShape ==
  ASSUME TypeOK, FeedKept, [FeedNext]_vars
  PROVE  \/ Quiet
         \/ \E d \in Device : Takes(d)
         \/ \E row \in Row : Utters(row)
         \/ \E d \in Device, op \in Op : DeviceWrite(d, op)
<1>0. ASSUME UNCHANGED <<journal, authored, hubSeq>>,
             \A d \in Device : devices'[d].last = devices[d].last
      PROVE  Quiet
  BY <1>0 DEF Quiet
<1>1. CASE UNCHANGED vars
  BY <1>0, <1>1 DEF vars, hubVars, upVars
<1>2. ASSUME NEW d \in Device, Pair(d) \/ Revoke(d) PROVE Quiet
  <2>1. devices \in [Device -> [paired: BOOLEAN, revoked: BOOLEAN, last: Nat]]
    BY DEF TypeOK, HubTypeOK
  <2>2. CASE Pair(d)
    <3>1. \A c \in Device : devices'[c].last = devices[c].last
      BY <2>1, <2>2 DEF Pair, AddDevice
    <3>2. QED
      BY <1>0, <2>2, <3>1 DEF Pair, AddDevice, upVars
  <2>3. CASE Revoke(d)
    <3>1. \A c \in Device : devices'[c].last = devices[c].last
      BY <2>1, <2>3 DEF Revoke, RevokeDevice
    <3>2. QED
      BY <1>0, <2>3, <3>1 DEF Revoke, RevokeDevice, upVars
  <2>4. QED
    BY <1>2, <2>2, <2>3
<1>3. ASSUME NEW d \in Device, UpgradeFollower(d) \/ ArriveAnswered(d) PROVE Quiet
  BY <1>0, <1>3 DEF UpgradeFollower, ArriveAnswered, hubVars, upVars
<1>4. ASSUME Upgrade \/ Run \/ Crash PROVE Quiet
  BY <1>0, <1>4 DEF Upgrade, Run, Crash, UpgradeHub, RunOp, HubCrash, upVars
<1>5. ASSUME NEW d \in Device, Arrive(d) PROVE Quiet \/ Takes(d)
  <2>1. UNCHANGED authored /\ acked[d] < Len(authored[d])
    BY <1>5 DEF Arrive, upVars
  <2>2. Reserve(Sent(d, acked[d] + 1)) \/ Resume(Sent(d, acked[d] + 1))
    BY <1>5 DEF Arrive
  <2>3. ASSUME Resume(Sent(d, acked[d] + 1)) PROVE Quiet
    BY <1>0, <2>1, <2>3 DEF Resume
  <2>4. QED
    BY <2>1, <2>2, <2>3 DEF Takes
<1>6. ASSUME Finish PROVE Quiet
  <2>1. PICK lost \in BOOLEAN : StampOutcome(lost)
    BY <1>6 DEF Finish
  <2>2. UNCHANGED <<devices, hubSeq, authored>>
    BY <1>6, <2>1 DEF Finish, StampOutcome
  <2>3. /\ DOMAIN journal' = DOMAIN journal
        /\ \A g \in DOMAIN journal :
             journal'[g] = journal[g] \/ (g = running /\ journal'[g] = [journal[g] EXCEPT !.outcome = result])
    BY <2>1, StampGrows DEF FeedKept, HubKept
  <2>4. QED
    BY <2>2, <2>3, Numbers DEF Quiet, Row
<1>7. ASSUME HubWrite PROVE Quiet \/ \E row \in Row : Utters(row)
  <2> DEFINE e == <<HubId, spoken + 1>>
             row == [dev |-> HubId, seq |-> hubSeq + 1, event |-> e, op |-> 1, outcome |-> "ok"]
  <2>1. UNCHANGED authored /\ UNCHANGED devices
    BY <1>7 DEF HubWrite, JournalLocal, upVars
  <2>2. \/ UNCHANGED <<journal, hubSeq>>
        \/ journal' = Append(journal, row) /\ hubSeq' = hubSeq + 1
    BY <1>7 DEF HubWrite, JournalLocal
  <2>3. row \in Row
    BY HubIdAssumption, OpAssumption DEF Row, Outcome, Event, TypeOK, HubTypeOK
  <2>4. row.dev = HubId /\ row.seq = hubSeq + 1
    OBVIOUS
  <2> HIDE DEF row
  <2>5. QED
    BY <1>0, <2>1, <2>2, <2>3, <2>4 DEF Utters
<1>8. ASSUME NEW d \in Device, PullAction(d) PROVE Quiet
  BY <1>0, <1>8, PullHub DEF hubVars, upVars
<1>9. QED
  BY <1>1, <1>2, <1>3, <1>4, <1>5, <1>6, <1>7, <1>8 DEF FeedNext, PullAction

\* A row more is an entry more, and its number is one more of its writer's.
LEMMA RowMore ==
  ASSUME TypeOK, NEW row \in Row, journal' = Append(journal, row)
  PROVE  /\ JLog' = Append(JLog, [dev |-> row.dev, seq |-> row.seq, event |-> row.event, op |-> row.op])
         /\ \A d : SeqsOf(d)' = IF row.dev = d THEN SeqsOf(d) \cup {row.seq} ELSE SeqsOf(d)
         /\ OwnEntries' = IF row.dev = HubId
                          THEN OwnEntries \cup {[dev |-> row.dev, seq |-> row.seq,
                                                 event |-> row.event, op |-> row.op]}
                          ELSE OwnEntries
<1> DEFINE E == [dev: Device \cup {HubId}, seq: Nat, event: Event, op: Op]
           W(r) == [dev |-> r.dev, seq |-> r.seq, event |-> r.event, op |-> r.op]
<1>n. PICK n \in Nat : n = Len(journal)
  BY Numbers
<1>1. DOMAIN journal = 1 .. n /\ \A g \in 1 .. n : journal[g] \in Row
  BY <1>n, Numbers
<1>2. /\ DOMAIN journal' = DOMAIN journal \cup {n + 1} /\ n + 1 \notin DOMAIN journal
      /\ \A g \in DOMAIN journal : journal'[g] = journal[g]
      /\ journal'[n + 1] = row
  BY <1>n, AppendGrows
<1>3. DOMAIN journal' = 1 .. n + 1
  BY <1>1, <1>2
<1>4. /\ JLog = [g \in 1 .. n |-> W(journal[g])]
      /\ JLog' = [g \in 1 .. n + 1 |-> W(journal'[g])]
  BY <1>1, <1>3 DEF JLog, Entry
<1>5. W(row) \in E /\ \A g \in 1 .. n : W(journal[g]) \in E
  BY <1>1 DEF Row
<1>s. ASSUME NEW d
      PROVE  SeqsOf(d)' = IF row.dev = d THEN SeqsOf(d) \cup {row.seq} ELSE SeqsOf(d)
  <2> DEFINE own == {h \in DOMAIN journal : journal[h].dev = d}
             new == {h \in DOMAIN journal' : journal'[h].dev = d}
  <2>1. /\ row.dev # d => new = own
        /\ row.dev = d => new = own \cup {n + 1}
        /\ own \subseteq DOMAIN journal
    BY <1>2
  <2>2. SeqsOf(d) = {journal[g].seq : g \in own} /\ SeqsOf(d)' = {journal'[g].seq : g \in new}
    BY DEF SeqsOf
  <2> HIDE DEF own, new
  <2>3. {journal'[g].seq : g \in own} = SeqsOf(d)
    BY <1>2, <2>1, <2>2
  <2>4. QED
    BY <1>2, <2>1, <2>2, <2>3
<1>o. OwnEntries' = IF row.dev = HubId THEN OwnEntries \cup {W(row)} ELSE OwnEntries
  <2> DEFINE new == {h \in DOMAIN journal' : journal'[h].dev = HubId}
  <2>1. /\ row.dev # HubId => new = OwnRows
        /\ row.dev = HubId => new = OwnRows \cup {n + 1}
        /\ OwnRows \subseteq DOMAIN journal
    BY <1>2 DEF OwnRows
  <2>2. OwnEntries = {W(journal[g]) : g \in OwnRows} /\ OwnEntries' = {W(journal'[g]) : g \in new}
    BY DEF OwnEntries, OwnRows, Entry
  <2> HIDE DEF new, W
  <2>3. {W(journal'[g]) : g \in OwnRows} = OwnEntries
    BY <1>2, <2>1, <2>2
  <2>4. QED
    BY <1>2, <2>1, <2>2, <2>3
<1>l. JLog' = Append(JLog, W(row))
  <2> HIDE DEF E, W
  <2>1. JLog \in Seq(E) /\ Len(JLog) = n /\ \A g \in 1 .. n : JLog[g] = W(journal[g])
    <3>1. JLog \in [1 .. n -> E]
      BY <1>4, <1>5
    <3>2. JLog \in Seq(E)
      BY <1>4, <1>5, IsASeq
    <3>3. QED
      BY <1>4, <3>1, <3>2
  <2>2. /\ Append(JLog, W(row)) \in Seq(E)
        /\ Len(Append(JLog, W(row))) = n + 1
        /\ \A g \in 1 .. n : Append(JLog, W(row))[g] = JLog[g]
        /\ Append(JLog, W(row))[n + 1] = W(row)
    BY <1>5, <2>1, AppendProperties
  <2>3. Append(JLog, W(row)) = [g \in 1 .. n + 1 |-> Append(JLog, W(row))[g]]
    <3> DEFINE a == Append(JLog, W(row))
    <3>1. a \in Seq(E) /\ Len(a) = n + 1
      BY <2>2
    <3> HIDE DEF a
    <3>2. a \in [1 .. n + 1 -> E]
      BY <3>1, LenProperties
    <3>3. a = [g \in 1 .. n + 1 |-> a[g]]
      BY <3>2
    <3>4. QED
      BY <3>3 DEF a
  <2>4. \A g \in 1 .. n + 1 : g \in 1 .. n \/ g = n + 1
    OBVIOUS
  <2>5. \A g \in 1 .. n : journal'[g] = journal[g]
    BY <1>1, <1>2
  <2>6. \A g \in 1 .. n + 1 : Append(JLog, W(row))[g] = W(journal'[g])
    BY <1>2, <2>1, <2>2, <2>4, <2>5
  <2>7. QED
    BY <1>4, <2>3, <2>6
<1>9. QED
  BY <1>s, <1>o, <1>l

LEMMA QuietSame ==
  ASSUME Quiet
  PROVE  /\ JLog' = JLog /\ OwnEntries' = OwnEntries
         /\ \A d : SeqsOf(d)' = SeqsOf(d)
         /\ \A d \in Device : Boxed(d)' = Boxed(d)
<1>1. \A g \in DOMAIN journal : Entry(g)' = Entry(g)
  BY DEF Quiet, Entry
<1>2. JLog' = JLog
  BY <1>1 DEF Quiet, JLog
<1>3. OwnRows' = OwnRows /\ OwnRows \subseteq DOMAIN journal
  BY DEF Quiet, OwnRows
<1>4. OwnEntries' = OwnEntries
  BY <1>1, <1>3 DEF OwnEntries
<1>5. ASSUME NEW d PROVE SeqsOf(d)' = SeqsOf(d)
  BY DEF Quiet, SeqsOf
<1>6. \A d \in Device : Boxed(d)' = Boxed(d)
  BY DEF Quiet, Boxed, Sent
<1>7. QED
  BY <1>2, <1>4, <1>5, <1>6

LEMMA Reached ==
  ASSUME TypeOK, FeedKept, NEW d \in Device, Takes(d)
  PROVE  LET k == acked[d] + 1 IN
         /\ k \in DOMAIN authored[d] /\ k = devices[d].last + 1 /\ devices[d].last \in Nat
         /\ Sent(d, k).dev = d /\ Sent(d, k).seq = k
         /\ Reserved(Sent(d, k)) \in Row
         /\ journal' = Append(journal, Reserved(Sent(d, k)))
         /\ devices' = [devices EXCEPT ![d].last = k]
         /\ UNCHANGED <<authored, hubSeq>>
<1>1. /\ Sent(d, acked[d] + 1) \in Envelope /\ acked[d] + 1 \in DOMAIN authored[d]
      /\ Sent(d, acked[d] + 1).dev = d /\ Sent(d, acked[d] + 1).seq = acked[d] + 1
  BY SentTyped DEF Takes
<1>2. Reserved(Sent(d, acked[d] + 1)) \in Row
  BY <1>1 DEF Reserved, Envelope, Row, Outcome
<1>3. QED
  BY <1>1, <1>2, Numbers DEF Takes, Reserve, IsNext

LEMMA CountedStep ==
  ASSUME TypeOK, FeedKept, Counted, [FeedNext]_vars
  PROVE  Counted'
<1>1. CASE Quiet
  BY <1>1, QuietSame DEF Quiet, Counted
<1>2. ASSUME NEW d \in Device, Takes(d) PROVE Counted'
  <2>1. PICK k \in Nat : k = acked[d] + 1 /\ k = devices[d].last + 1
    BY <1>2, Reached
  <2> DEFINE row == Reserved(Sent(d, k))
  <2>2. row \in Row /\ row.dev = d /\ row.seq = k /\ journal' = Append(journal, row)
    BY <1>2, <2>1, Reached DEF Reserved
  <2>3. \A c \in Device : devices'[c].last = IF c = d THEN k ELSE devices[c].last
    <3>1. devices' = [devices EXCEPT ![d].last = k]
      BY <1>2, <2>1, Reached
    <3>2. devices \in [Device -> [paired: BOOLEAN, revoked: BOOLEAN, last: Nat]]
      BY DEF TypeOK, HubTypeOK
    <3>3. QED
      BY <3>1, <3>2
  <2>4. hubSeq' = hubSeq
    BY <1>2, Reached
  <2> HIDE DEF row
  <2>5. \A c : SeqsOf(c)' = IF row.dev = c THEN SeqsOf(c) \cup {row.seq} ELSE SeqsOf(c)
    BY <2>2, RowMore
  <2>6. 1 .. k = (1 .. devices[d].last) \cup {k}
    BY <2>1, Numbers
  <2>7. QED
    BY <2>2, <2>3, <2>4, <2>5, <2>6, HubIdAssumption DEF Counted
<1>3. ASSUME NEW row \in Row, Utters(row) PROVE Counted'
  <2>1. \A c : SeqsOf(c)' = IF row.dev = c THEN SeqsOf(c) \cup {row.seq} ELSE SeqsOf(c)
    BY <1>3, RowMore DEF Utters
  <2>2. hubSeq \in Nat /\ 1 .. hubSeq + 1 = (1 .. hubSeq) \cup {hubSeq + 1}
    BY DEF TypeOK, HubTypeOK
  <2>3. QED
    BY <1>3, <2>1, <2>2, HubIdAssumption DEF Utters, Counted
<1>4. ASSUME NEW d \in Device, NEW op \in Op, DeviceWrite(d, op) PROVE Counted'
  BY <1>4 DEF DeviceWrite, hubVars, Counted, SeqsOf
<1>5. QED
  BY <1>1, <1>2, <1>3, <1>4, StepShape

LEMMA InitCounted == FeedInit => Counted
<1> SUFFICES ASSUME FeedInit PROVE Counted
  OBVIOUS
<1>1. DOMAIN journal = {} /\ hubSeq = 0 /\ \A d \in Device : devices[d].last = 0
  BY DEF FeedInit
<1>2. 1 .. 0 = {}
  OBVIOUS
<1>3. QED
  BY <1>1, <1>2 DEF Counted, SeqsOf

LEMMA AuthoredIs ==
  /\ Authored = (UNION {Boxed(d) : d \in Device}) \cup OwnEntries
  /\ Authored' = (UNION {Boxed(d)' : d \in Device}) \cup OwnEntries'
BY DEF Authored, Boxed, OwnEntries

LEMMA LoggedIs == \A d : Log!Logged(d) = SeqsOf(d)
<1> SUFFICES ASSUME NEW d PROVE Log!Logged(d) = SeqsOf(d)
  OBVIOUS
<1>1. /\ DOMAIN JLog = DOMAIN journal
      /\ \A g \in DOMAIN journal : JLog[g].dev = journal[g].dev /\ JLog[g].seq = journal[g].seq
  BY DEF JLog, Entry
<1>2. Log!Logged(d) = {JLog[g].seq : g \in {h \in DOMAIN JLog : JLog[h].dev = d}}
  BY DEF Log!Logged, JLog
<1>3. QED
  BY <1>1, <1>2 DEF SeqsOf

\* A device's event the hub reserves is the next entry of its log.
LEMMA TakesCommits ==
  ASSUME TypeOK, FeedKept, Counted, NEW d \in Device, Takes(d)
  PROVE  Log!Commit
<1>1. PICK k \in Nat : k = acked[d] + 1 /\ k = devices[d].last + 1
  BY Reached
<1> DEFINE e == Sent(d, k)
           row == Reserved(e)
<1>2. /\ row \in Row /\ row.dev = d /\ row.seq = k /\ journal' = Append(journal, row)
      /\ e.dev = d /\ e.seq = k /\ k \in DOMAIN authored[d] /\ authored' = authored
  BY <1>1, Reached DEF Reserved
<1>3. [dev |-> row.dev, seq |-> row.seq, event |-> row.event, op |-> row.op] = e
  BY DEF Reserved, Sent
<1>4. e \in Boxed(d)
  BY <1>2 DEF Boxed
<1>5. \A c \in Device : Boxed(c)' = Boxed(c)
  BY <1>2 DEF Boxed, Sent
<1> HIDE DEF e, row
<1>6. JLog' = Append(JLog, e) /\ OwnEntries' = OwnEntries
  BY <1>2, <1>3, RowMore, HubIdAssumption
<1>7. e \in Authored /\ Authored' = Authored
  BY <1>4, <1>5, <1>6, AuthoredIs
<1>8. Log!Logged(e.dev) = 1 .. devices[d].last /\ devices[d].last \in Nat
  BY <1>2, LoggedIs, Numbers DEF Counted
<1>9. e.seq \notin Log!Logged(e.dev) /\ \A j \in 1 .. e.seq - 1 : j \in Log!Logged(e.dev)
  BY <1>1, <1>2, <1>8
<1>10. QED
  BY <1>6, <1>7, <1>9 DEF Log!Commit, JLog

\* What a device queues is a new entry, and its last.
LEMMA WriteAuthors ==
  ASSUME TypeOK, FeedKept, NEW d \in Device, NEW op \in Op, DeviceWrite(d, op)
  PROVE  Log!Author
<1>n. PICK n \in Nat : n = Len(authored[d]) /\ DOMAIN authored[d] = 1 .. n
  <2>1. authored[d] \in Seq([event: Event, op: Op])
    BY DEF TypeOK
  <2>2. QED
    BY <2>1
<1> DEFINE e == [dev |-> d, seq |-> n + 1, event |-> <<d, n + 1>>, op |-> op]
<1>1. /\ \A c \in Device : c # d => authored'[c] = authored[c]
      /\ DOMAIN authored'[d] = DOMAIN authored[d] \cup {n + 1}
      /\ \A k \in DOMAIN authored[d] : authored'[d][k] = authored[d][k]
      /\ authored'[d][n + 1] = [event |-> <<d, n + 1>>, op |-> op]
      /\ UNCHANGED journal
  <2>1. authored'[d] = Append(authored[d], [event |-> <<d, n + 1>>, op |-> op])
        /\ \A c \in Device : c # d => authored'[c] = authored[c]
    BY <1>n DEF DeviceWrite, TypeOK
  <2>2. authored[d] \in Seq([event: Event, op: Op])
    BY DEF TypeOK
  <2>3. UNCHANGED journal
    BY DEF DeviceWrite, hubVars
  <2>4. QED
    BY <1>n, <2>1, <2>2, <2>3
<1>2. Boxed(d)' = Boxed(d) \cup {e}
  BY <1>1 DEF Boxed, Sent
<1>3. \A c \in Device : c # d => Boxed(c)' = Boxed(c)
  BY <1>1 DEF Boxed, Sent
<1>4. JLog' = JLog /\ OwnEntries' = OwnEntries
  BY <1>1 DEF JLog, OwnEntries, OwnRows, Entry
<1>5. e.dev = d /\ e.seq = n + 1
  OBVIOUS
<1>6. ASSUME NEW f \in Authored, f.dev = d PROVE f.seq < n + 1
  <2>1. f \notin OwnEntries
    BY <1>6, HubIdAssumption DEF OwnEntries, OwnRows, Entry
  <2>2. PICK c \in Device : f \in Boxed(c)
    BY <2>1, AuthoredIs
  <2>3. PICK k \in DOMAIN authored[c] : f = Sent(c, k)
    BY <2>2 DEF Boxed
  <2>4. f.dev = c /\ f.seq = k
    BY <2>3 DEF Sent
  <2>5. QED
    BY <1>n, <1>6, <2>3, <2>4
<1> HIDE DEF e
<1>7. Authored' = Authored \cup {e}
  BY <1>2, <1>3, <1>4, AuthoredIs
<1>8. e \notin Authored
  BY <1>5, <1>6
<1>9. QED
  BY <1>4, <1>5, <1>6, <1>7, <1>8 DEF Log!Author, JLog

\* What the hub says itself is authored and logged at once.
LEMMA UtterOwns ==
  ASSUME TypeOK, FeedKept, Counted, NEW row \in Row, Utters(row)
  PROVE  Log!Own
<1> DEFINE e == [dev |-> row.dev, seq |-> row.seq, event |-> row.event, op |-> row.op]
<1>1. e.dev = HubId /\ e.seq = hubSeq + 1 /\ hubSeq \in Nat /\ row.dev = HubId
      /\ journal' = Append(journal, row) /\ authored' = authored
  BY DEF Utters, TypeOK, HubTypeOK
<1>2. JLog' = Append(JLog, e) /\ OwnEntries' = OwnEntries \cup {e}
  BY <1>1, RowMore
<1>3. \A c \in Device : Boxed(c)' = Boxed(c)
  BY <1>1 DEF Boxed, Sent
<1>4. ASSUME NEW f \in Authored, f.dev = HubId PROVE f.seq \in 1 .. hubSeq
  <2>1. \A c \in Device : f \notin Boxed(c)
    BY <1>4, HubIdAssumption DEF Boxed, Sent
  <2>2. f \in OwnEntries
    BY <2>1, AuthoredIs
  <2>3. PICK g \in OwnRows : f = Entry(g)
    BY <2>2 DEF OwnEntries
  <2>4. f.seq = journal[g].seq /\ g \in DOMAIN journal /\ journal[g].dev = HubId
    BY <2>3 DEF Entry, OwnRows
  <2>5. QED
    BY <2>4 DEF Counted, SeqsOf
<1> HIDE DEF e
<1>5. Authored' = Authored \cup {e}
  BY <1>2, <1>3, AuthoredIs
<1>6. e \notin Authored /\ \A f \in Authored : f.dev = e.dev => f.seq < e.seq
  BY <1>1, <1>4
<1>7. \A j \in 1 .. e.seq - 1 : j \in Log!Logged(e.dev)
  BY <1>1, LoggedIs DEF Counted
<1>8. QED
  BY <1>2, <1>5, <1>6, <1>7 DEF Log!Own, JLog

LEMMA LogStep ==
  ASSUME TypeOK, FeedKept, Counted, [FeedNext]_vars
  PROVE  Log!LogNext \/ UNCHANGED <<Authored, JLog>>
<1>1. ASSUME Quiet PROVE UNCHANGED <<Authored, JLog>>
  BY <1>1, QuietSame, AuthoredIs
<1>2. QED
  BY <1>1, StepShape, TakesCommits, UtterOwns, WriteAuthors DEF Log!LogNext

\* hub.js:7-13, hub-journal.js:27-51 (ImplementsSharedLog): with the hub's own
\* words, crashes and lost outcomes in it, what followers read is the one log
\* the uplink writes.
THEOREM FeedImplementsSharedLog == FeedSpec => ImplementsSharedLog
<1>1. FeedInit => Log!LogInit
  <2> SUFFICES ASSUME FeedInit PROVE Log!LogInit
    OBVIOUS
  <2>1. journal = <<>> /\ \A d \in Device : authored[d] = <<>>
    BY DEF FeedInit
  <2>2. OwnEntries = {} /\ JLog = <<>> /\ \A d \in Device : Boxed(d) = {}
    BY <2>1 DEF OwnEntries, OwnRows, JLog, Boxed
  <2>3. QED
    BY <2>2, AuthoredIs DEF Log!LogInit, JLog
<1>2. TypeOK /\ FeedKept /\ Counted /\ [FeedNext]_vars
        => Counted' /\ [Log!LogNext]_<<Authored, [g \in DOMAIN journal |-> Entry(g)]>>
  BY CountedStep, LogStep DEF JLog
<1>3. FeedSpec => Log!LogInit /\ [][Log!LogNext]_<<Authored, [g \in DOMAIN journal |-> Entry(g)]>>
  BY <1>1, <1>2, InitCounted, Invariance, PTL DEF FeedSpec
<1>4. QED
  BY <1>3, PTL DEF ImplementsSharedLog, Log!LogSpec

-----------------------------------------------------------------------------
(* What catching up is worth.                                              *)

\* hub-journal.js:4-8, replica.js:3-9, the safety half of MindsConverge: a
\* follower behind no finished row holds every record it is owed.
CaughtUpIsWhole ==
  \A d \in Device : CaughtUp(d) => Owed(d) \subseteq mind[d]

LEMMA CaughtUpHolds == TypeOK /\ FeedKept => CaughtUpIsWhole
<1> SUFFICES ASSUME TypeOK, FeedKept, NEW d \in Device, CaughtUp(d), NEW e \in Owed(d)
             PROVE  e \in mind[d]
  BY DEF CaughtUpIsWhole
<1>1. PICK g \in Finished \ (passedOpen[d] \cup refused[d]) : journal[g].event = e
  BY DEF Owed
<1>2. g \in 1 .. position[d]
  BY <1>1, Numbers DEF CaughtUp, Finished
<1>3. Covered(d, g)
  BY <1>2 DEF FeedKept, PullKept
<1>4. QED
  BY <1>1, <1>3 DEF Covered

\* Position and mind go together (CaughtUpIsWhole), for any fleet and however
\* many handlers fail: what lies behind a position is held, was open when passed,
\* or was refused.
THEOREM CaughtUpIsWholeCorrect == FeedSpec => []CaughtUpIsWhole
<1>1. QED
  BY CaughtUpHolds, Invariance, PTL

\* replica.js:11-13 (FollowersCatchUp, MindsConverge): a follower that drains
\* ends with all it is owed: of the two promises the first is enough.
THEOREM DrainingIsEnough == FeedSpec => (FollowersCatchUp => MindsConverge)
<1> SUFFICES ASSUME NEW d \in Device
             PROVE  FeedSpec => (FollowersCatchUp => ((<>[]Reads(d)) => <>[](Owed(d) \subseteq mind[d])))
  BY DEF MindsConverge
<1>1. FollowersCatchUp => ((<>[]Reads(d)) => <>[]CaughtUp(d))
  BY DEF FollowersCatchUp
<1>2. CaughtUpIsWhole => (CaughtUp(d) => Owed(d) \subseteq mind[d])
  BY DEF CaughtUpIsWhole
<1>3. QED
  BY <1>1, <1>2, CaughtUpIsWholeCorrect, PTL

=============================================================================
