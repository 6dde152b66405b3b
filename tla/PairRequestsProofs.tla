------------------------- MODULE PairRequestsProofs -------------------------
(***************************************************************************)
(* Safety of pairing, for any devices, addresses, limits and mishaps.      *)
(***************************************************************************)
EXTENDS PairRequests, SequenceTheorems, FiniteSetTheorems, TLAPS

-----------------------------------------------------------------------------
(* Type correctness.                                                       *)

Knocks(k) ==
  /\ k \in [Id -> Knocked \cup {None}]
  /\ \A i \in Id : k[i] # None /\ k[i].code => k[i].status = "approved"

LEMMA SweptKnocks == TypeOK => Knocks(Swept)
  BY DEF TypeOK, Swept, Knocks

LEMMA SweptOthers ==
  TypeOK => /\ SweptInvites \in [Id -> Invited \cup {None}]
            /\ \A a \in Asker : SweptReceived(a) \in [Id -> Nat \cup {None}]
  BY DEF TypeOK, SweptInvites, SweptReceived

LEMMA MintTyped ==
  ASSUME TypeOK, NEW i \in Id, NEW ts \in Nat, Mint(i, ts)
  PROVE  minted' \in [Id -> Seq([asked: Nat, at: Nat])]
<1>1. [asked |-> ts, at |-> now] \in [asked: Nat, at: Nat]
  BY SizeAssumption DEF TypeOK
<1>2. Append(minted[i], [asked |-> ts, at |-> now]) \in Seq([asked: Nat, at: Nat])
  BY <1>1 DEF TypeOK
<1>3. QED
  BY <1>2 DEF Mint, TypeOK

LEMMA MishapTyped == TypeOK /\ Mishap => mishaps' \in 0..MaxMishaps
  BY SizeAssumption DEF TypeOK, Mishap

LEMMA UnreachedTyped == TypeOK /\ Unreached => mishaps' \in 0..MaxMishaps
  BY MishapTyped DEF TypeOK, Unreached

LEMMA SetsTyped ==
  ASSUME NEW S, NEW f \in [Asker -> SUBSET S], NEW a \in Asker, NEW i
  PROVE  /\ [f EXCEPT ![a] = @ \ {i}] \in [Asker -> SUBSET S]
         /\ i \in S => [f EXCEPT ![a] = @ \cup {i}] \in [Asker -> SUBSET S]
  OBVIOUS

LEMMA InitTyped == Init => TypeOK
<1> SUFFICES ASSUME Init PROVE TypeOK
  OBVIOUS
<1>1. addr \in [Asker -> Address] /\ \A a, b \in Asker : addr[a] = addr[b] => a = b
  BY AddressAssumption DEF Init
<1>2. /\ now \in 0..MaxClock /\ mishaps \in 0..MaxMishaps /\ used \in 0..MaxIds
      /\ reachable \in BOOLEAN /\ following \in [Asker -> SUBSET (1..used)]
  BY SizeAssumption DEF Init
<1>3. minted \in [Id -> Seq([asked: Nat, at: Nat])]
  BY DEF Init
<1>4. /\ knocks \in [Id -> Knocked \cup {None}] /\ invites \in [Id -> Invited \cup {None}]
      /\ \A i \in Id : knocks[i] = None
      /\ started \in [Asker -> Nat \cup {None}]
      /\ received \in [Asker -> [Id -> Nat \cup {None}]]
      /\ joining \in [Asker -> [id: Id, left: 0..Hosts] \cup {None}]
      /\ holds \in [Asker -> SUBSET Id]
  BY DEF Init
<1>5. QED
  BY <1>1, <1>2, <1>3, <1>4 DEF TypeOK

LEMMA KnockTyped ==
  ASSUME TypeOK, NEW a \in Asker, NEW id \in Id, Knock(a, id)
  PROVE  TypeOK'
<1> DEFINE new == [from |-> addr[a], ts |-> now, status |-> "pending", code |-> FALSE]
<1>1. new \in Knocked
  BY SizeAssumption DEF TypeOK, Knocked
<1>2. Knocks(knocks')
  <2>1. knocks' = [Swept EXCEPT ![id] = new] /\ ~new.code
    BY DEF Knock
  <2>2. QED
    BY <2>1, <1>1, SweptKnocks DEF Knocks
<1>3. used' = id /\ id = used + 1 /\ used \in Nat /\ used' \in 0..MaxIds
  BY SizeAssumption DEF Knock, TypeOK, Id
<1>4. following' \in [Asker -> SUBSET (1..used')] /\ started' \in [Asker -> Nat \cup {None}]
  <2>1. following \in [Asker -> SUBSET (1..used')] /\ id \in 1..used' /\ now \in Nat
    BY <1>3, SizeAssumption DEF TypeOK
  <2>2. CASE following' = [following EXCEPT ![a] = @ \cup {id}] /\ started' = [started EXCEPT ![a] = now]
    BY <2>1, <2>2 DEF TypeOK
  <2>3. CASE UNCHANGED following /\ started' = [started EXCEPT ![a] = None]
    BY <2>1, <2>3 DEF TypeOK
  <2>4. QED
    BY <2>2, <2>3 DEF Knock
<1>5. mishaps' \in 0..MaxMishaps
  BY MishapTyped DEF Knock, TypeOK
<1>6. QED
  BY <1>2, <1>3, <1>4, <1>5 DEF Knock, TypeOK, Knocks

LEMMA AnswerTyped ==
  ASSUME TypeOK, NEW id \in Id, Approve(id) \/ Deny(id)
  PROVE  TypeOK'
<1> USE DEF askerVars
<1>1. CASE Approve(id)
  <2>1. knocks[id] \in Knocked /\ knocks[id].ts \in Nat
    BY <1>1 DEF Approve, Pending, TypeOK, Knocked
  <2>2. Knocks(knocks')
    BY <1>1, <2>1 DEF Approve, TypeOK, Knocked, Knocks
  <2>3. QED
    BY <1>1, <2>1, <2>2, MintTyped DEF Approve, TypeOK, Knocks
<1>2. CASE Deny(id)
  <2>1. knocks[id] \in Knocked /\ ~knocks[id].code
    BY <1>2 DEF Deny, Pending, TypeOK, Knocked
  <2>2. Knocks(knocks')
    BY <1>2, <2>1 DEF Deny, TypeOK, Knocked, Knocks
  <2>3. QED
    BY <1>2, <2>2 DEF Deny, TypeOK, Knocks
<1>3. QED
  BY <1>1, <1>2

LEMMA PollTyped ==
  ASSUME TypeOK, NEW a \in Asker, NEW id \in Id, Poll(a, id)
  PROVE  TypeOK'
<1>1. Knocks(knocks')
  <2>1. CASE GivesCode(id, addr[a])
    <3>1. Swept[id] \in Knocked
      BY <2>1, SweptKnocks DEF GivesCode, Status, Knocks
    <3>2. knocks' = [Swept EXCEPT ![id].code = FALSE]
      BY <2>1 DEF Poll
    <3>3. QED
      BY <3>1, <3>2, SweptKnocks DEF Knocks, Knocked
  <2>2. CASE ~GivesCode(id, addr[a])
    BY <2>2, SweptKnocks DEF Poll
  <2>3. QED
    BY <2>1, <2>2
<1>2. mishaps' \in 0..MaxMishaps
  BY MishapTyped DEF Poll, TypeOK
<1>3. /\ following' = following \/ following' = [following EXCEPT ![a] = @ \ {id}]
      /\ started' = started \/ started' = [started EXCEPT ![a] = None]
      /\ holds' = holds \/ holds' = [holds EXCEPT ![a] = @ \cup {id}]
      /\ used' = used
  BY DEF Poll
<1>4. following' \in [Asker -> SUBSET (1..used')] /\ holds' \in [Asker -> SUBSET Id]
  <2>1. following \in [Asker -> SUBSET (1..used)] /\ holds \in [Asker -> SUBSET Id] /\ id \in Id
    BY DEF TypeOK
  <2>2. following' \in [Asker -> SUBSET (1..used)]
    BY <1>3, <2>1, SetsTyped
  <2>3. holds' \in [Asker -> SUBSET Id]
    BY <1>3, <2>1, SetsTyped
  <2>4. QED
    BY <1>3, <2>2, <2>3
<1>5. started' \in [Asker -> Nat \cup {None}]
  BY <1>3 DEF TypeOK
<1>6. QED
  BY <1>1, <1>2, <1>4, <1>5 DEF Poll, TypeOK, Knocks

LEMMA InviteTyped ==
  ASSUME TypeOK, NEW a \in Asker, NEW id \in Id, Invite(a, id)
  PROVE  TypeOK'
<1>1. [ts |-> now, status |-> "open"] \in Invited /\ now \in Nat
  BY SizeAssumption DEF TypeOK, Invited
<1>2. invites' \in [Id -> Invited \cup {None}]
  BY <1>1, SweptOthers DEF Invite
<1>3. used' = id /\ id = used + 1 /\ used \in Nat /\ used' \in 0..MaxIds
  BY SizeAssumption DEF Invite, TypeOK, Id
<1>4. following' \in [Asker -> SUBSET (1..used')]
  BY <1>3 DEF Invite, TypeOK
<1>5. received' \in [Asker -> [Id -> Nat \cup {None}]]
  <2>1. CASE received' = received
    BY <2>1 DEF TypeOK
  <2>2. CASE received' # received
    <3>1. \E f \in [Id -> Nat \cup {None}] : received' = [received EXCEPT ![a] = f]
      BY <2>2, <1>1, SweptOthers DEF Invite
    <3>2. QED
      BY <3>1 DEF TypeOK
  <2>3. QED
    BY <2>1, <2>2
<1>6. mishaps' \in 0..MaxMishaps
  BY UnreachedTyped DEF Invite, TypeOK
<1>7. QED
  BY <1>2, <1>3, <1>4, <1>5, <1>6 DEF Invite, TypeOK

LEMMA TryNextTyped ==
  ASSUME TypeOK, NEW a \in Asker, TryNext(a)
  PROVE  TypeOK'
<1> DEFINE j == joining[a].id
<1>1. joining[a] \in [id: Id, left: 0..Hosts] /\ joining[a].left > 0 /\ j \in Id
  BY DEF TryNext, TypeOK
<1>2. joining' \in [Asker -> [id: Id, left: 0..Hosts] \cup {None}]
  <2>1. [joining[a] EXCEPT !.left = @ - 1] \in [id: Id, left: 0..Hosts]
    BY <1>1, SizeAssumption
  <2>2. \/ joining' = [joining EXCEPT ![a] = [joining[a] EXCEPT !.left = @ - 1]]
        \/ joining' = [joining EXCEPT ![a] = None]
    BY DEF TryNext
  <2>3. QED
    BY <2>1, <2>2 DEF TypeOK
<1>3. /\ invites' \in [Id -> Invited \cup {None}]
      /\ minted' \in [Id -> Seq([asked: Nat, at: Nat])]
  <2>1. CASE Redeemable(j) /\ invites' = [invites EXCEPT ![j].status = "redeemed"]
             /\ Mint(j, invites[j].ts)
    <3>1. invites[j] \in Invited /\ invites[j].ts \in Nat
      BY <1>1, <2>1 DEF Redeemable, TypeOK, Invited
    <3>2. [invites[j] EXCEPT !.status = "redeemed"] \in Invited
      BY <3>1 DEF Invited
    <3>3. QED
      BY <1>1, <2>1, <3>1, <3>2, MintTyped DEF TypeOK
  <2>2. CASE UNCHANGED <<invites, minted>>
    BY <2>2 DEF TypeOK
  <2>3. QED
    BY <2>1, <2>2 DEF TryNext
<1>4. holds' \in [Asker -> SUBSET Id]
  <2>1. holds' = holds \/ holds' = [holds EXCEPT ![a] = @ \cup {j}]
    BY DEF TryNext
  <2>2. holds \in [Asker -> SUBSET Id] /\ j \in Id
    BY <1>1 DEF TypeOK
  <2>3. [holds EXCEPT ![a] = @ \cup {j}] \in [Asker -> SUBSET Id]
    <3> HIDE DEF j
    <3> QED
      BY <2>2, SetsTyped
  <2>4. QED
    BY <2>1, <2>2, <2>3
<1>5. mishaps' \in 0..MaxMishaps
  BY MishapTyped, UnreachedTyped DEF TryNext, TypeOK
<1>6. QED
  BY <1>2, <1>3, <1>4, <1>5 DEF TryNext, TypeOK

LEMMA StepTyped == TypeOK /\ [Next]_vars => TypeOK'
<1> SUFFICES ASSUME TypeOK, [Next]_vars PROVE TypeOK'
  OBVIOUS
<1>1. CASE UNCHANGED vars
  BY <1>1 DEF vars, mindVars, askerVars, TypeOK
<1>2. CASE Tick \/ Outage \/ Restart \/ ListPending \/ InviteRefused
  <2>0. CASE Outage
    BY <2>0 DEF Outage, TypeOK, mindVars, askerVars
  <2>1. CASE Tick
    BY <2>1, SizeAssumption DEF Tick, TypeOK, mindVars, askerVars
  <2>2. CASE Restart
    BY <2>2, MishapTyped DEF Restart, TypeOK, askerVars
  <2>3. CASE ListPending
    BY <2>3, SweptKnocks DEF ListPending, TypeOK, Knocks, askerVars
  <2>4. CASE InviteRefused
    BY <2>4, SweptOthers DEF InviteRefused, TypeOK, askerVars
  <2>5. QED
    BY <1>2, <2>0, <2>1, <2>2, <2>3, <2>4
<1>3. ASSUME NEW id \in Id, Approve(id) \/ Deny(id) PROVE TypeOK'
  BY <1>3, AnswerTyped
<1>4. ASSUME NEW a \in Asker, \/ KnockRefused(a) \/ KnockUnheard(a)
                               \/ ListInvites(a) \/ TryNext(a) \/ JoinFailed(a)
      PROVE  TypeOK'
  <2>0. CASE KnockUnheard(a)
    BY <2>0 DEF KnockUnheard, TypeOK, mindVars
  <2>1. CASE KnockRefused(a)
    BY <2>1, SweptKnocks DEF KnockRefused, TypeOK, Knocks
  <2>2. CASE ListInvites(a)
    BY <2>2, SweptOthers DEF ListInvites, TypeOK, mindVars
  <2>3. CASE TryNext(a)
    BY <2>3, TryNextTyped
  <2>4. CASE JoinFailed(a)
    BY <2>4 DEF JoinFailed, TypeOK, mindVars
  <2>5. QED
    BY <1>4, <2>0, <2>1, <2>2, <2>3, <2>4
<1>5. ASSUME NEW a \in Asker, NEW x \in Address, Roam(a, x) PROVE TypeOK'
  BY <1>5, MishapTyped DEF Roam, TypeOK, mindVars, askerVars
<1>6. ASSUME NEW a \in Asker, NEW id \in Id,
             Knock(a, id) \/ Poll(a, id) \/ TimeOut(a, id) \/ Invite(a, id) \/ Join(a, id)
      PROVE  TypeOK'
  <2>1. CASE TimeOut(a, id)
    BY <2>1 DEF TimeOut, TypeOK, mindVars
  <2>2. CASE Join(a, id)
    <3>1. [id |-> id, left |-> Hosts] \in [id: Id, left: 0..Hosts]
      BY SizeAssumption
    <3>2. QED
      BY <2>2, <3>1 DEF Join, TypeOK, mindVars
  <2>3. QED
    BY <1>6, <2>1, <2>2, KnockTyped, PollTyped, InviteTyped
<1>7. QED
  BY <1>1, <1>2, <1>3, <1>4, <1>5, <1>6 DEF Next

\* The stores, the poll loops and the joins keep to their types, and a code
\* waits only in an approved request (TypeOK), for any devices and limits.
THEOREM TypeCorrect == Spec => []TypeOK
<1>1. QED
  BY InitTyped, StepTyped, PTL DEF Spec

-----------------------------------------------------------------------------
(* The steps that change what the stores promise; every other step only    *)
(* forgets entries.                                                        *)

Forgets ==
  /\ now' \in {now, now + 1}
  /\ UNCHANGED <<used, minted, holds>>
  /\ \A i \in Id : knocks'[i] \in {knocks[i], None} /\ invites'[i] \in {invites[i], None}

HandsOver(a, id) ==
  /\ GivesCode(id, addr[a])
  /\ knocks' = [Swept EXCEPT ![id].code = FALSE]
  /\ UNCHANGED <<now, used, invites, minted>>
  /\ holds' = holds \/ holds' = [holds EXCEPT ![a] = @ \cup {id}]

Redeems(a, id) ==
  /\ Redeemable(id)
  /\ invites' = [invites EXCEPT ![id].status = "redeemed"]
  /\ Mint(id, invites[id].ts)
  /\ UNCHANGED <<now, used, knocks>>
  /\ holds' = holds \/ holds' = [holds EXCEPT ![a] = @ \cup {id}]

LEMMA SweepForgets ==
  \A i \in Id : Swept[i] \in {knocks[i], None} /\ SweptInvites[i] \in {invites[i], None}
  BY DEF Swept, SweptInvites

LEMMA PollKinds ==
  ASSUME NEW a \in Asker, NEW id \in Id, Poll(a, id)
  PROVE  Forgets \/ HandsOver(a, id)
<1>1. CASE GivesCode(id, addr[a])
  BY <1>1 DEF Poll, HandsOver
<1>2. CASE ~GivesCode(id, addr[a])
  BY <1>2, SweepForgets DEF Poll, Forgets
<1>3. QED
  BY <1>1, <1>2

LEMMA TryNextKinds ==
  ASSUME TypeOK, NEW a \in Asker, TryNext(a)
  PROVE  Forgets \/ \E id \in Id : Redeems(a, id)
<1> DEFINE j == joining[a].id
<1>1. j \in Id
  BY DEF TryNext, TypeOK
<1>2. UNCHANGED <<invites, minted, holds>> => Forgets
  BY DEF TryNext, Forgets
<1>3. ~UNCHANGED <<invites, minted, holds>> => Redeems(a, j)
  BY DEF TryNext, Redeems
<1>4. QED
  BY <1>1, <1>2, <1>3

LEMMA StepKinds ==
  ASSUME TypeOK, [Next]_vars
  PROVE  \/ Forgets
         \/ \E id \in Id : Approve(id) \/ Deny(id)
         \/ \E a \in Asker, id \in Id :
              Knock(a, id) \/ HandsOver(a, id) \/ Invite(a, id) \/ Redeems(a, id)
<1> USE DEF mindVars, askerVars
<1>1. CASE UNCHANGED vars
  BY <1>1 DEF vars, Forgets
<1>2. CASE Tick \/ Outage \/ Restart \/ ListPending \/ InviteRefused
  BY <1>2, SweepForgets DEF Tick, Outage, Restart, ListPending, InviteRefused, Forgets
<1>3. ASSUME NEW a \in Asker,
             KnockRefused(a) \/ KnockUnheard(a) \/ ListInvites(a) \/ JoinFailed(a)
      PROVE  Forgets
  BY <1>3, SweepForgets DEF KnockRefused, KnockUnheard, ListInvites, JoinFailed, Forgets
<1>4. ASSUME NEW a \in Asker, NEW x \in Address, Roam(a, x) PROVE Forgets
  BY <1>4 DEF Roam, Forgets
<1>5. ASSUME NEW a \in Asker, NEW id \in Id, TimeOut(a, id) \/ Join(a, id) PROVE Forgets
  BY <1>5 DEF TimeOut, Join, Forgets
<1>6. QED
  BY <1>1, <1>2, <1>3, <1>4, <1>5, PollKinds, TryNextKinds DEF Next

-----------------------------------------------------------------------------
(* One click, one credential.                                              *)

\* An id is a knock's or an invite's, never both; nothing was minted for it
\* before it is answered, and a code in the store is the only one and unheard.
IdOnce(i) ==
  /\ i > used => knocks[i] = None /\ invites[i] = None /\ minted[i] = <<>>
  /\ knocks[i] = None \/ invites[i] = None
  /\ knocks[i] # None /\ knocks[i].status = "pending" => minted[i] = <<>>
  /\ invites[i] # None /\ invites[i].status = "open" => minted[i] = <<>>
  /\ knocks[i] # None /\ knocks[i].code =>
       Len(minted[i]) = 1 /\ \A a \in Asker : i \notin holds[a]
  /\ \A a \in Asker : i \in holds[a] => Len(minted[i]) = 1
  /\ Len(minted[i]) <= 1

Once == \A i \in Id : IdOnce(i)

LEMMA InitOnce == Init => Once
  BY DEF Init, Once, IdOnce

\* Minting for an id nothing was minted for leaves exactly one credential.
LEMMA MintFirst ==
  ASSUME TypeOK, NEW id \in Id, NEW ts, Mint(id, ts), minted[id] = <<>>
  PROVE  Len(minted'[id]) = 1 /\ \A i \in Id : i # id => minted'[i] = minted[i]
  BY DEF Mint, TypeOK

LEMMA AnswerOnce ==
  ASSUME TypeOK, Once, NEW id \in Id, Approve(id) \/ Deny(id)
  PROVE  Once'
<1> SUFFICES ASSUME NEW i \in Id PROVE IdOnce(i)'
  BY DEF Once
<1>1. IdOnce(i) /\ IdOnce(id) /\ id \in Pending(knocks) /\ knocks[id] \in Knocked
  BY DEF Once, Approve, Deny, Pending, TypeOK
<1>2. minted[id] = <<>>
  BY <1>1 DEF IdOnce, Pending
<1>3. \A a \in Asker : id \notin holds[a]
  BY <1>1, <1>2 DEF IdOnce
<1>4. CASE Approve(id)
  <2>1. Len(minted'[id]) = 1 /\ \A n \in Id : n # id => minted'[n] = minted[n]
    BY <1>2, <1>4, MintFirst DEF Approve
  <2>2. knocks'[id].status = "approved"
    BY <1>1, <1>4 DEF Approve, Knocked, TypeOK
  <2>3. invites[id] = None /\ ~(id > used)
    BY <1>1 DEF IdOnce, Pending, TypeOK, Id
  <2>4. CASE i = id
    <3>1. UNCHANGED <<used, invites, holds>>
      BY <1>4 DEF Approve, askerVars
    <3>2. knocks'[i].status # "pending" /\ invites'[i] = None /\ ~(i > used')
          /\ Len(minted'[i]) = 1 /\ \A a \in Asker : i \notin holds'[a]
      BY <1>3, <2>1, <2>2, <2>3, <2>4, <3>1
    <3>3. QED
      BY <3>2 DEF IdOnce
  <2>5. CASE i # id
    BY <1>1, <1>4, <2>1, <2>5 DEF Approve, IdOnce, askerVars, TypeOK
  <2>6. QED
    BY <2>4, <2>5
<1>5. CASE Deny(id)
  <2>1. ~knocks[id].code
    BY <1>1 DEF Pending, TypeOK
  <2>2. QED
    BY <1>1, <1>2, <1>5, <2>1 DEF Deny, IdOnce, askerVars, TypeOK, Knocked, Pending
<1>6. QED
  BY <1>4, <1>5

LEMMA KnockOnce ==
  ASSUME TypeOK, Once, NEW a \in Asker, NEW id \in Id, Knock(a, id)
  PROVE  Once'
<1> SUFFICES ASSUME NEW i \in Id PROVE IdOnce(i)'
  BY DEF Once
<1>1. IdOnce(i) /\ used' = id /\ id = used + 1 /\ used \in Nat /\ i \in Nat
  BY SizeAssumption DEF Once, Knock, TypeOK, Id
<1>2. UNCHANGED <<invites, minted, holds>>
  BY DEF Knock
<1>3. CASE i = id
  <2>1. knocks'[i].status = "pending" /\ ~knocks'[i].code
    BY <1>3, SweptKnocks DEF Knock, Knocks
  <2>2. QED
    BY <1>1, <1>2, <1>3, <2>1 DEF IdOnce
<1>4. CASE i # id
  <2>1. knocks'[i] \in {knocks[i], None}
    BY <1>4, SweepForgets, SweptKnocks DEF Knock, Knocks
  <2>2. QED
    BY <1>1, <1>2, <1>4, <2>1 DEF IdOnce
<1>5. QED
  BY <1>3, <1>4

LEMMA InviteOnce ==
  ASSUME TypeOK, Once, NEW a \in Asker, NEW id \in Id, Invite(a, id)
  PROVE  Once'
<1> SUFFICES ASSUME NEW i \in Id PROVE IdOnce(i)'
  BY DEF Once
<1>1. IdOnce(i) /\ used' = id /\ id = used + 1 /\ used \in Nat /\ i \in Nat
  BY SizeAssumption DEF Once, Invite, TypeOK, Id
<1>2. UNCHANGED <<knocks, minted, holds>>
  BY DEF Invite
<1>3. CASE i = id
  BY <1>1, <1>2, <1>3 DEF IdOnce
<1>4. CASE i # id
  <2>1. invites'[i] \in {invites[i], None}
    BY <1>4, SweepForgets, SweptOthers DEF Invite
  <2>2. QED
    BY <1>1, <1>2, <1>4, <2>1 DEF IdOnce
<1>5. QED
  BY <1>3, <1>4

LEMMA HandOnce ==
  ASSUME TypeOK, Once, NEW a \in Asker, NEW id \in Id, HandsOver(a, id)
  PROVE  Once'
<1> SUFFICES ASSUME NEW i \in Id PROVE IdOnce(i)'
  BY DEF Once
<1>1. IdOnce(i) /\ UNCHANGED <<used, invites, minted>>
  BY DEF Once, HandsOver
<1>2. CASE i = id
  <2>1. Swept[id] = knocks[id] /\ knocks[id] # None /\ knocks[id].code /\ knocks[id] \in Knocked
    BY SweepForgets DEF HandsOver, GivesCode, Status, TypeOK
  <2>2. knocks[id].status = "approved"
    BY <2>1 DEF TypeOK
  <2>3. Len(minted[id]) = 1 /\ ~(i > used) /\ invites[i] = None
    BY <1>1, <1>2, <2>1 DEF IdOnce, TypeOK, Id
  <2>4. knocks'[i] = [knocks[i] EXCEPT !.code = FALSE]
    BY <1>2, <2>1, SweptKnocks DEF HandsOver, Knocks
  <2>5. knocks'[i].status = "approved" /\ ~knocks'[i].code
    BY <1>2, <2>1, <2>2, <2>4 DEF Knocked
  <2>6. QED
    BY <1>1, <1>2, <2>3, <2>5 DEF IdOnce
<1>3. CASE i # id
  <2>1. knocks'[i] \in {knocks[i], None}
    BY <1>3, SweepForgets, SweptKnocks DEF HandsOver, Knocks
  <2>2. \A b \in Asker : i \in holds'[b] => i \in holds[b]
    <3>1. holds \in [Asker -> SUBSET Id]
      BY DEF TypeOK
    <3>2. holds' = holds \/ holds' = [holds EXCEPT ![a] = @ \cup {id}]
      BY DEF HandsOver
    <3> QED
      BY <1>3, <3>1, <3>2
  <2>3. QED
    BY <1>1, <2>1, <2>2 DEF IdOnce
<1>4. QED
  BY <1>2, <1>3

LEMMA RedeemOnce ==
  ASSUME TypeOK, Once, NEW a \in Asker, NEW id \in Id, Redeems(a, id)
  PROVE  Once'
<1> SUFFICES ASSUME NEW i \in Id PROVE IdOnce(i)'
  BY DEF Once
<1>1. IdOnce(i) /\ IdOnce(id) /\ UNCHANGED <<used, knocks>>
  BY DEF Once, Redeems
<1>2. invites[id] # None /\ invites[id] \in Invited /\ minted[id] = <<>> /\ knocks[id] = None
  BY <1>1 DEF Redeems, Redeemable, TypeOK, IdOnce
<1>3. Len(minted'[id]) = 1 /\ \A n \in Id : n # id => minted'[n] = minted[n]
  BY <1>2, MintFirst DEF Redeems
<1>4. CASE i = id
  <2>1. invites'[id].status = "redeemed" /\ ~(id > used)
    BY <1>1, <1>2 DEF Redeems, Invited, TypeOK, IdOnce, Id
  <2>2. QED
    BY <1>1, <1>2, <1>3, <1>4, <2>1 DEF IdOnce
<1>5. CASE i # id
  <2>1. invites'[i] = invites[i] /\ minted'[i] = minted[i]
    BY <1>3, <1>5 DEF Redeems, TypeOK
  <2>2. \A b \in Asker : i \in holds'[b] => i \in holds[b]
    BY <1>5 DEF Redeems, TypeOK
  <2>3. QED
    BY <1>1, <2>1, <2>2 DEF IdOnce
<1>6. QED
  BY <1>4, <1>5

LEMMA StepOnce == TypeOK /\ Once /\ [Next]_vars => Once'
<1> SUFFICES ASSUME TypeOK, Once, [Next]_vars PROVE Once'
  OBVIOUS
<1>1. CASE Forgets
  BY <1>1 DEF Forgets, Once, IdOnce
<1>2. QED
  BY <1>1, StepKinds, AnswerOnce, KnockOnce, InviteOnce, HandOnce, RedeemOnce

\* pair-requests.js:6-7, 80 (MintedOnce): no id is minted for twice and a code
\* still in the store has reached nobody, through any losses and restarts.
THEOREM OneCredentialPerClick == Spec => []MintedOnce
<1>1. Once => MintedOnce
  BY DEF Once, IdOnce, MintedOnce
<1>2. QED
  BY <1>1, InitTyped, StepTyped, InitOnce, StepOnce, PTL DEF Spec

-----------------------------------------------------------------------------
(* The caps.                                                               *)

LEMMA Counted ==
  ASSUME NEW T \in SUBSET Id
  PROVE  /\ Cardinality(T) \in Nat
         /\ \A S \in SUBSET T : Cardinality(S) \in Nat /\ Cardinality(S) <= Cardinality(T)
<1>1. IsFiniteSet(Id)
  BY SizeAssumption, FS_Interval DEF Id
<1>2. IsFiniteSet(T)
  BY <1>1, FS_Subset
<1>3. QED
  BY <1>2, FS_Subset, FS_CardinalityType

LEMMA CountedPlusOne ==
  ASSUME NEW T \in SUBSET Id, NEW i \in Id, NEW S, S \subseteq T \cup {i},
         NEW n \in Nat, ~(Cardinality(T) >= n)
  PROVE  Cardinality(S) <= n
<1>1. IsFiniteSet(T)
  <2>1. IsFiniteSet(Id)
    BY SizeAssumption, FS_Interval DEF Id
  <2>2. QED
    BY <2>1, FS_Subset
<1>2. Cardinality(T) \in Nat
  BY <1>1, FS_CardinalityType
<1>3. Cardinality(T \cup {i}) \in {Cardinality(T), Cardinality(T) + 1}
  BY <1>1, FS_AddElement
<1>4. T \cup {i} \in SUBSET Id /\ S \in SUBSET (T \cup {i})
  OBVIOUS
<1>5. Cardinality(S) \in Nat /\ Cardinality(S) <= Cardinality(T \cup {i})
  BY <1>4, Counted
<1>6. QED
  BY <1>2, <1>3, <1>5

Open == {i \in Id : Redeemable(i)}

\* Fewer entries, fewer counted.
LEMMA FewerBounded ==
  ASSUME PendingBounded,
         Pending(knocks') \subseteq Pending(knocks),
         \A x \in Address : From(knocks', x) \subseteq From(knocks, x),
         Open' \subseteq Open
  PROVE  PendingBounded'
<1>1. /\ Pending(knocks) \in SUBSET Id /\ Open \in SUBSET Id
      /\ \A x \in Address : From(knocks, x) \in SUBSET Id
  BY DEF Pending, From, Open
<1>2. Cardinality(Pending(knocks)) <= MaxPending /\ Cardinality(Open) <= MaxPending
  BY DEF PendingBounded, Open
<1>3. Cardinality(Pending(knocks')) <= MaxPending
  <2>1. Cardinality(Pending(knocks)) \in Nat /\ Cardinality(Pending(knocks')) \in Nat
        /\ Cardinality(Pending(knocks')) <= Cardinality(Pending(knocks))
    BY <1>1, Counted
  <2>2. QED
    BY <1>2, <2>1, SizeAssumption
<1>4. Cardinality(Open') <= MaxPending
  <2>1. Cardinality(Open) \in Nat /\ Cardinality(Open') \in Nat
        /\ Cardinality(Open') <= Cardinality(Open)
    BY <1>1, Counted
  <2>2. QED
    BY <1>2, <2>1, SizeAssumption
<1>5. ASSUME NEW x \in Address PROVE Cardinality(From(knocks', x)) <= MaxPerAddress
  <2>1. Cardinality(From(knocks, x)) \in Nat /\ Cardinality(From(knocks', x)) \in Nat
        /\ Cardinality(From(knocks', x)) <= Cardinality(From(knocks, x))
    BY <1>1, Counted
  <2>2. Cardinality(From(knocks, x)) <= MaxPerAddress
    BY DEF PendingBounded
  <2>3. QED
    BY <2>1, <2>2, SizeAssumption
<1>6. QED
  BY <1>3, <1>4, <1>5 DEF PendingBounded, Open

LEMMA AgeingCloses ==
  ASSUME TypeOK, now' \in {now, now + 1},
         \A i \in Id : invites'[i] \in {invites[i], None}
  PROVE  Open' \subseteq Open
<1> SUFFICES ASSUME NEW i \in Id, Redeemable(i)' PROVE Redeemable(i)
  BY DEF Open
<1>1. invites'[i] = invites[i] /\ invites[i] \in Invited
  <2>1. invites'[i] # None
    BY DEF Redeemable
  <2>2. QED
    BY <2>1 DEF TypeOK
<1>2. invites[i].ts \in Nat /\ now \in Nat /\ Ttl \in Nat
  BY <1>1, SizeAssumption DEF Invited, TypeOK
<1>3. QED
  BY <1>1, <1>2 DEF Redeemable, Old

LEMMA SweptFewer ==
  /\ Pending(Swept) \subseteq Pending(knocks)
  /\ \A x \in Address : From(Swept, x) \subseteq From(knocks, x)
  BY SweepForgets DEF Pending, From

LEMMA KnockBounded ==
  ASSUME TypeOK, PendingBounded, NEW a \in Asker, NEW id \in Id, Knock(a, id)
  PROVE  PendingBounded'
<1> DEFINE new == [from |-> addr[a], ts |-> now, status |-> "pending", code |-> FALSE]
<1>1. knocks' = [Swept EXCEPT ![id] = new] /\ ~TooMany(Swept, addr[a]) /\ UNCHANGED <<now, invites>>
  BY DEF Knock
<1>2. \A i \in Id : i # id => knocks'[i] = Swept[i]
  BY <1>1, SweptKnocks DEF Knocks
<1>3. Cardinality(Pending(knocks')) <= MaxPending
  <2>1. Pending(knocks') \subseteq Pending(Swept) \cup {id}
    BY <1>2 DEF Pending
  <2>2. ~(Cardinality(Pending(Swept)) >= MaxPending) /\ Pending(Swept) \subseteq Id
    BY <1>1 DEF TooMany, Pending
  <2>3. QED
    BY <2>1, <2>2, CountedPlusOne, SizeAssumption
<1>4. ASSUME NEW x \in Address PROVE Cardinality(From(knocks', x)) <= MaxPerAddress
  <2>1. CASE x = addr[a]
    <3>1. From(knocks', x) \subseteq From(Swept, x) \cup {id}
      BY <1>2 DEF From, Pending
    <3>2. ~(Cardinality(From(Swept, x)) >= MaxPerAddress) /\ From(Swept, x) \subseteq Id
      BY <1>1, <2>1 DEF TooMany, From, Pending
    <3>3. QED
      BY <3>1, <3>2, CountedPlusOne, SizeAssumption
  <2>2. CASE x # addr[a]
    <3>1. From(knocks', x) \subseteq From(Swept, x)
      BY <1>1, <1>2, <2>2, SweptKnocks DEF From, Pending, Knocks
    <3>2. From(knocks', x) \subseteq From(knocks, x) /\ From(knocks, x) \subseteq Id
      BY <3>1, SweptFewer DEF From, Pending
    <3>3. QED
      BY <3>2, Counted, SizeAssumption DEF PendingBounded
  <2>3. QED
    BY <2>1, <2>2
<1>5. Cardinality({i \in Id : Redeemable(i)})' <= MaxPending
  BY <1>1 DEF PendingBounded, Redeemable, Old
<1>6. QED
  BY <1>3, <1>4, <1>5 DEF PendingBounded

LEMMA InviteBounded ==
  ASSUME TypeOK, PendingBounded, NEW a \in Asker, NEW id \in Id, Invite(a, id)
  PROVE  PendingBounded'
<1>1. Open' \subseteq Present(SweptInvites) \cup {id}
  <2>1. ASSUME NEW i \in Id, Redeemable(i)', i # id PROVE i \in Present(SweptInvites)
    <3>1. invites'[i] = SweptInvites[i]
      BY <2>1, SweptOthers DEF Invite
    <3>2. QED
      BY <2>1, <3>1 DEF Redeemable, Present
  <2>2. QED
    BY <2>1 DEF Open
<1>2. ~(Cardinality(Present(SweptInvites)) >= MaxPending) /\ Present(SweptInvites) \subseteq Id
  <2>1. Present(SweptInvites) \subseteq Id
    BY DEF Present
  <2>2. Cardinality(Present(SweptInvites)) \in Nat /\ Cardinality(Present(SweptInvites)) < MaxPending
    BY <2>1, Counted DEF Invite
  <2>3. QED
    BY <2>1, <2>2, SizeAssumption
<1>3. Cardinality(Open') <= MaxPending
  BY <1>1, <1>2, CountedPlusOne, SizeAssumption
<1>4. QED
  BY <1>3 DEF PendingBounded, Open, Invite

LEMMA StepBounded == TypeOK /\ PendingBounded /\ [Next]_vars => PendingBounded'
<1> SUFFICES ASSUME TypeOK, PendingBounded, [Next]_vars PROVE PendingBounded'
  OBVIOUS
<1>1. CASE Forgets
  <2>1. Open' \subseteq Open
    BY <1>1, AgeingCloses DEF Forgets
  <2>2. Pending(knocks') \subseteq Pending(knocks)
        /\ \A x \in Address : From(knocks', x) \subseteq From(knocks, x)
    BY <1>1 DEF Forgets, Pending, From
  <2>3. QED
    BY <2>1, <2>2, FewerBounded
<1>2. ASSUME NEW id \in Id, Approve(id) \/ Deny(id) PROVE PendingBounded'
  <2>1. \A i \in Id : i # id => knocks'[i] = knocks[i]
    BY <1>2 DEF Approve, Deny, TypeOK
  <2>2. knocks'[id].status # "pending"
    BY <1>2 DEF Approve, Deny, Pending, TypeOK, Knocked
  <2>3. Pending(knocks') \subseteq Pending(knocks)
        /\ \A x \in Address : From(knocks', x) \subseteq From(knocks, x)
    BY <2>1, <2>2 DEF Pending, From
  <2>4. Open' \subseteq Open
    BY <1>2 DEF Approve, Deny, Open, Redeemable, Old
  <2>5. QED
    BY <2>3, <2>4, FewerBounded
<1>3. ASSUME NEW a \in Asker, NEW id \in Id, HandsOver(a, id) PROVE PendingBounded'
  <2>1. \A i \in Id : i # id => knocks'[i] = Swept[i]
    BY <1>3, SweptKnocks DEF HandsOver, Knocks
  <2>2. knocks'[id].status # "pending"
    <3>1. Swept[id] \in Knocked /\ Swept[id].status = "approved"
      BY <1>3, SweptKnocks DEF HandsOver, GivesCode, Status, Knocks
    <3>2. knocks'[id] = [Swept[id] EXCEPT !.code = FALSE]
      BY <1>3, SweptKnocks DEF HandsOver, Knocks
    <3>3. QED
      BY <3>1, <3>2 DEF Knocked
  <2>3. Pending(knocks') \subseteq Pending(Swept)
        /\ \A x \in Address : From(knocks', x) \subseteq From(Swept, x)
    BY <2>1, <2>2 DEF Pending, From
  <2>4. Open' \subseteq Open
    BY <1>3 DEF HandsOver, Open, Redeemable, Old
  <2>5. QED
    BY <2>3, <2>4, SweptFewer, FewerBounded
<1>4. ASSUME NEW a \in Asker, NEW id \in Id, Redeems(a, id) PROVE PendingBounded'
  <2>1. Open' \subseteq Open
    <3>1. invites[id] \in Invited
      BY <1>4 DEF Redeems, Redeemable, TypeOK
    <3>2. invites'[id].status # "open" /\ \A i \in Id : i # id => invites'[i] = invites[i]
      BY <1>4, <3>1 DEF Redeems, TypeOK, Invited
    <3>3. QED
      BY <1>4, <3>2 DEF Redeems, Open, Redeemable, Old
  <2>2. QED
    BY <1>4, <2>1, FewerBounded DEF Redeems
<1>5. QED
  BY <1>1, <1>2, <1>3, <1>4, StepKinds, KnockBounded, InviteBounded

LEMMA InitBounded == Init => PendingBounded
<1> SUFFICES ASSUME Init PROVE PendingBounded
  OBVIOUS
<1>1. Pending(knocks) = {} /\ Open = {} /\ \A x \in Address : From(knocks, x) = {}
  BY DEF Init, Pending, Open, Redeemable, From
<1>2. Cardinality({}) = 0
  BY FS_EmptySet
<1>3. QED
  BY <1>1, <1>2, SizeAssumption DEF PendingBounded, Open

\* pair-requests.js:13-15, 28-32 (PendingBounded): the operator's list and the
\* list of open invites stay under their caps, whoever knocks and however often.
THEOREM ListsStayShort == Spec => []PendingBounded
<1>1. QED
  BY InitTyped, StepTyped, InitBounded, StepBounded, PTL DEF Spec

-----------------------------------------------------------------------------
(* Nothing is mislaid while nothing goes wrong.                            *)

\* Where the poll loops and the credentials of one id stand.
IdKept(i) ==
  /\ knocks[i] # None => knocks[i].ts <= now
  /\ knocks[i] # None /\ minted[i] # <<>> => minted[i][1].asked = knocks[i].ts
  /\ \A a \in Asker : i \in following[a] /\ knocks[i] # None =>
       /\ knocks[i].from = addr[a]
       /\ started[a] # None => knocks[i].ts <= started[a]
  /\ knocks[i] # None /\ knocks[i].status = "pending" =>
       Old(knocks[i].ts) \/ \E a \in Asker : i \in following[a]
  /\ minted[i] # <<>> =>
       \/ \E a \in Asker : i \in holds[a]
       \/ Old(minted[i][1].asked)
       \/ knocks[i] # None /\ knocks[i].code /\ \E a \in Asker : i \in following[a]

Kept == mishaps = 0 => \A i \in Id : IdKept(i)

\* Steps that change no loop, no credential and no address, and may sweep.
Idles ==
  /\ now' \in {now, now + 1}
  /\ UNCHANGED <<addr, minted, following, holds>>
  /\ \A a \in Asker : started'[a] \in {started[a], None}
  /\ knocks' \in {knocks, Swept}

LEMMA OldStays ==
  ASSUME TypeOK, NEW ts \in Nat, Old(ts), now' \in {now, now + 1}
  PROVE  now' - ts > Ttl
<1>1. now \in Nat /\ Ttl \in Nat
  BY SizeAssumption DEF TypeOK
<1>2. now - ts > Ttl
  BY DEF Old
<1>3. now + 1 - ts > Ttl
  BY <1>1, <1>2
<1>4. CASE now' = now
  BY <1>2, <1>4
<1>5. CASE now' = now + 1
  BY <1>3, <1>5
<1>6. QED
  BY <1>4, <1>5

LEMMA Dated ==
  ASSUME TypeOK, NEW i \in Id
  PROVE  /\ now \in Nat
         /\ knocks[i] # None => knocks[i] \in Knocked /\ knocks[i].ts \in Nat
         /\ minted[i] # <<>> => minted[i][1].asked \in Nat
<1>1. now \in Nat /\ minted[i] \in Seq([asked: Nat, at: Nat])
  BY SizeAssumption DEF TypeOK
<1>2. knocks[i] # None => knocks[i] \in Knocked /\ knocks[i].ts \in Nat
  BY DEF TypeOK, Knocked
<1>3. ASSUME minted[i] # <<>> PROVE minted[i][1].asked \in Nat
  <2>1. Len(minted[i]) \in Nat /\ Len(minted[i]) # 0
    BY <1>1, <1>3
  <2>2. 1 \in 1..Len(minted[i])
    BY <2>1
  <2>3. minted[i][1] \in [asked: Nat, at: Nat]
    BY <1>1, <2>2, ElementOfSeq
  <2>4. QED
    BY <2>3
<1>4. QED
  BY <1>1, <1>2, <1>3

\* A swept knock was old.
LEMMA SweptOld ==
  ASSUME NEW i \in Id
  PROVE  Swept[i] = knocks[i] \/ (Swept[i] = None /\ knocks[i] # None /\ Old(knocks[i].ts))
  BY DEF Swept

LEMMA IdlesKept ==
  ASSUME TypeOK, NEW i \in Id, IdKept(i), Idles
  PROVE  IdKept(i)'
<1>1. /\ now \in Nat /\ now' \in Nat /\ now <= now'
      /\ knocks'[i] = knocks[i] \/ (knocks'[i] = None /\ knocks[i] # None /\ Old(knocks[i].ts))
  BY Dated, SweptOld DEF Idles
<1>2. knocks'[i] # None => knocks'[i].ts <= now'
  BY <1>1, Dated DEF IdKept
<1>3. knocks'[i] # None /\ minted'[i] # <<>> => minted'[i][1].asked = knocks'[i].ts
  BY <1>1 DEF IdKept, Idles
<1>4. ASSUME NEW a \in Asker, i \in following'[a], knocks'[i] # None
      PROVE  knocks'[i].from = addr'[a] /\ (started'[a] # None => knocks'[i].ts <= started'[a])
  BY <1>1, <1>4 DEF IdKept, Idles
<1>5. ASSUME knocks'[i] # None, knocks'[i].status = "pending"
      PROVE  now' - knocks'[i].ts > Ttl \/ \E a \in Asker : i \in following'[a]
  <2>1. knocks'[i] = knocks[i] /\ knocks[i].ts \in Nat
    BY <1>1, <1>5, Dated
  <2>2. Old(knocks[i].ts) \/ \E a \in Asker : i \in following[a]
    BY <1>5, <2>1 DEF IdKept
  <2>3. QED
    BY <2>1, <2>2, OldStays DEF Idles
<1>6. ASSUME minted'[i] # <<>>
      PROVE  \/ \E a \in Asker : i \in holds'[a]
             \/ now' - minted'[i][1].asked > Ttl
             \/ knocks'[i] # None /\ knocks'[i].code /\ \E a \in Asker : i \in following'[a]
  <2>1. minted[i] # <<>> /\ minted' = minted /\ minted[i][1].asked \in Nat
    BY <1>6, Dated DEF Idles
  <2>2. CASE Old(minted[i][1].asked)
    BY <2>1, <2>2, OldStays DEF Idles
  <2>3. CASE \E a \in Asker : i \in holds[a]
    BY <2>3 DEF Idles
  <2>4. CASE knocks[i] # None /\ knocks[i].code /\ \E a \in Asker : i \in following[a]
    <3>1. CASE knocks'[i] = knocks[i]
      BY <2>4, <3>1 DEF Idles
    <3>2. CASE Old(knocks[i].ts)
      BY <2>1, <2>2, <2>4, <3>2 DEF IdKept
    <3>3. QED
      BY <1>1, <3>1, <3>2
  <2>5. QED
    BY <2>1, <2>2, <2>3, <2>4 DEF IdKept
<1>7. QED
  BY <1>2, <1>3, <1>4, <1>5, <1>6 DEF IdKept, Old

LEMMA AnswerKept ==
  ASSUME TypeOK, Once, NEW i \in Id, IdKept(i), NEW id \in Id, Approve(id) \/ Deny(id)
  PROVE  IdKept(i)'
<1>1. UNCHANGED <<now, addr, following, started, holds>>
  BY DEF Approve, Deny, askerVars
<1>2. CASE i = id
  <2>1. knocks[i] \in Knocked /\ knocks[i] # None /\ knocks[i].status = "pending"
    BY <1>2 DEF Approve, Deny, Pending, TypeOK
  <2>2. minted[i] = <<>>
    BY <2>1 DEF Once, IdOnce
  <2>3. /\ knocks'[i] # None => knocks'[i].ts = knocks[i].ts /\ knocks'[i].from = knocks[i].from
        /\ knocks'[i].status # "pending"
    BY <1>2, <2>1 DEF Approve, Deny, TypeOK, Knocked
  <2>4. CASE Approve(id)
    <3>1. /\ knocks'[i] = [knocks[i] EXCEPT !.status = "approved", !.code = TRUE]
          /\ minted'[i] = <<[asked |-> knocks[i].ts, at |-> now]>>
      BY <1>2, <2>2, <2>4 DEF Approve, Mint, TypeOK
    <3>2. minted'[i][1].asked = knocks[i].ts /\ knocks'[i].code
      BY <2>1, <3>1 DEF Knocked
    <3>3. knocks'[i] # None
      BY <2>1, <3>1, NoneAssumption DEF Knocked
    <3>4. QED
      BY <1>1, <2>1, <2>3, <3>2, <3>3 DEF IdKept, Old
  <2>5. CASE Deny(id)
    <3>1. minted'[i] = <<>>
      BY <2>2, <2>5 DEF Deny
    <3>2. QED
      BY <1>1, <2>1, <2>3, <3>1 DEF IdKept, Old
  <2>6. QED
    BY <2>4, <2>5
<1>3. CASE i # id
  <2>1. knocks'[i] = knocks[i] /\ minted'[i] = minted[i]
    BY <1>3 DEF Approve, Deny, Mint, TypeOK
  <2>2. QED
    BY <1>1, <2>1 DEF IdKept, Old
<1>4. QED
  BY <1>2, <1>3

LEMMA KnockKept ==
  ASSUME TypeOK, Once, NEW i \in Id, IdKept(i), NEW a \in Asker, NEW id \in Id,
         Knock(a, id), ~Mishap
  PROVE  IdKept(i)'
<1>1. /\ UNCHANGED <<now, addr, minted, holds>>
      /\ following' = [following EXCEPT ![a] = @ \cup {id}]
      /\ started' = [started EXCEPT ![a] = now]
      /\ id = used + 1
  BY DEF Knock
<1>2. following \in [Asker -> SUBSET (1..used)] /\ started \in [Asker -> Nat \cup {None}]
      /\ used \in Nat /\ now \in Nat
  BY SizeAssumption DEF TypeOK
<1>3. CASE i = id
  <2>1. knocks'[i] = [from |-> addr[a], ts |-> now, status |-> "pending", code |-> FALSE]
    BY <1>3, SweptKnocks DEF Knock, Knocks
  <2>2. minted[i] = <<>>
    <3>1. i > used
      BY <1>1, <1>2, <1>3
    <3>2. QED
      BY <3>1 DEF Once, IdOnce
  <2>3. \A b \in Asker : i \in following'[b] => b = a
    <3>1. i \notin 1..used
      BY <1>1, <1>2, <1>3
    <3>2. \A b \in Asker : i \notin following[b]
      BY <1>2, <3>1
    <3>3. QED
      BY <1>1, <1>2, <3>2
  <2>4. i \in following'[a] /\ started'[a] = now
    BY <1>1, <1>2, <1>3
  <2>5. QED
    BY <1>1, <1>2, <2>1, <2>2, <2>3, <2>4 DEF IdKept
<1>4. CASE i # id
  <2>1. knocks'[i] = Swept[i]
    BY <1>4, SweptKnocks DEF Knock, Knocks
  <2>2. \A b \in Asker : i \in following'[b] <=> i \in following[b]
    BY <1>1, <1>2, <1>4
  <2>3. knocks'[i] = knocks[i] \/ (knocks'[i] = None /\ knocks[i] # None /\ Old(knocks[i].ts))
    BY <2>1, SweptOld
  <2>4. ASSUME NEW b \in Asker, i \in following'[b], knocks'[i] # None
        PROVE  /\ knocks'[i].from = addr'[b]
               /\ started'[b] # None => knocks'[i].ts <= started'[b]
    <3>1. started'[b] \in {started[b], now}
      BY <1>1, <1>2
    <3>2. QED
      BY <1>1, <2>2, <2>3, <2>4, <3>1 DEF IdKept
  <2>5. QED
    BY <1>1, <2>2, <2>3, <2>4 DEF IdKept, Old
<1>5. QED
  BY <1>3, <1>4

\* A loop that ends leaves behind nothing but what it took or what is old.
LEMMA LeaveKept ==
  ASSUME TypeOK, NEW i \in Id, IdKept(i), NEW a \in Asker, NEW id \in Id,
         now' = now, UNCHANGED <<addr, minted>>,
         following' = [following EXCEPT ![a] = @ \ {id}],
         started' = [started EXCEPT ![a] = None],
         \A b \in Asker : holds[b] \subseteq holds'[b],
         knocks'[i] \in {knocks[i], Swept[i], None},
         knocks'[i] = None /\ knocks[i] # None => Old(knocks[i].ts),
         i = id /\ knocks[i] # None /\ (knocks[i].status = "pending" \/ knocks[i].code) =>
           Old(knocks[i].ts)
  PROVE  IdKept(i)'
<1>1. following \in [Asker -> SUBSET (1..used)] /\ started \in [Asker -> Nat \cup {None}]
  BY DEF TypeOK
<1>2. \A b \in Asker : /\ started'[b] \in {started[b], None}
                       /\ i \in following'[b] => i \in following[b]
                       /\ i # id => (i \in following[b] => i \in following'[b])
  BY <1>1
<1>3. knocks'[i] = knocks[i] \/ (knocks'[i] = None /\ (knocks[i] # None => Old(knocks[i].ts)))
  BY SweptOld
<1>4. (\E b \in Asker : i \in holds[b]) => \E b \in Asker : i \in holds'[b]
  OBVIOUS
<1>5. knocks[i] # None /\ minted[i] # <<>> => minted[i][1].asked = knocks[i].ts
  BY DEF IdKept
<1>6. QED
  BY <1>2, <1>3, <1>4, <1>5 DEF IdKept, Old

LEMMA PollKept ==
  ASSUME TypeOK, Once, NEW i \in Id, IdKept(i), NEW a \in Asker, NEW id \in Id,
         Poll(a, id), ~Mishap
  PROVE  IdKept(i)'
<1>1. now' = now /\ UNCHANGED <<addr, minted>> /\ id \in following[a]
  BY DEF Poll
<1>2. CASE GivesCode(id, addr[a])
  <2>1. /\ knocks' = [Swept EXCEPT ![id].code = FALSE]
        /\ following' = [following EXCEPT ![a] = @ \ {id}]
        /\ started' = [started EXCEPT ![a] = None]
        /\ holds' = [holds EXCEPT ![a] = @ \cup {id}]
    BY <1>2 DEF Poll
  <2>2. \A b \in Asker : holds[b] \subseteq holds'[b]
    BY <2>1 DEF TypeOK
  <2>3. CASE i # id
    <3>1. knocks'[i] = Swept[i]
      BY <2>1, <2>3, SweptKnocks DEF Knocks
    <3>2. QED
      BY <1>1, <2>1, <2>2, <2>3, <3>1, SweptOld, LeaveKept
  <2>4. CASE i = id
    <3>1. Swept[i] = knocks[i] /\ knocks[i] # None /\ knocks[i].status = "approved"
          /\ knocks[i] \in Knocked
      BY <1>2, <2>4, SweepForgets DEF GivesCode, Status, TypeOK
    <3>2. knocks'[i] = [knocks[i] EXCEPT !.code = FALSE]
      BY <2>1, <2>4, <3>1, SweptKnocks DEF Knocks
    <3>3. /\ knocks'[i].ts = knocks[i].ts /\ knocks'[i].from = knocks[i].from
          /\ knocks'[i].status = "approved"
      BY <3>1, <3>2 DEF Knocked
    <3>4. i \in holds'[a]
      BY <2>1, <2>4 DEF TypeOK
    <3>5. \A b \in Asker : /\ started'[b] \in {started[b], None}
                           /\ i \in following'[b] => i \in following[b]
      BY <2>1 DEF TypeOK
    <3>6. QED
      BY <1>1, <3>1, <3>3, <3>4, <3>5 DEF IdKept
  <2>5. QED
    BY <2>3, <2>4
<1>3. CASE ~GivesCode(id, addr[a]) /\ Status(id, addr[a]) \in {"denied", "unknown"}
  <2>1. /\ knocks' = Swept
        /\ following' = [following EXCEPT ![a] = @ \ {id}]
        /\ started' = [started EXCEPT ![a] = None]
        /\ holds' = holds
    BY <1>3 DEF Poll
  <2>2. ASSUME i = id, knocks[i] # None, knocks[i].status = "pending" \/ knocks[i].code
        PROVE  Old(knocks[i].ts)
    <3>1. knocks[i].from = addr[a]
      BY <1>1, <2>2 DEF IdKept
    <3>2. knocks[i].status # "denied"
      BY <2>2 DEF TypeOK
    <3>3. Swept[i] # knocks[i]
      BY <1>3, <2>2, <3>1, <3>2 DEF Status, TypeOK, Knocked
    <3>4. QED
      BY <3>3, SweptOld
  <2>3. knocks'[i] = None /\ knocks[i] # None => Old(knocks[i].ts)
    BY <2>1, SweptOld
  <2>4. QED
    BY <1>1, <2>1, <2>2, <2>3, LeaveKept
<1>4. CASE ~GivesCode(id, addr[a]) /\ Status(id, addr[a]) \notin {"denied", "unknown"}
  <2>1. Idles
    BY <1>4 DEF Poll, Idles
  <2>2. QED
    BY <2>1, IdlesKept
<1>5. QED
  BY <1>2, <1>3, <1>4

LEMMA TimeOutKept ==
  ASSUME TypeOK, NEW i \in Id, IdKept(i), NEW a \in Asker, NEW id \in Id, TimeOut(a, id)
  PROVE  IdKept(i)'
<1>1. /\ now' = now /\ UNCHANGED <<addr, minted, knocks, holds>>
      /\ following' = [following EXCEPT ![a] = @ \ {id}]
      /\ started' = [started EXCEPT ![a] = None]
  BY DEF TimeOut, mindVars
<1>2. ASSUME i = id, knocks[i] # None PROVE Old(knocks[i].ts)
  <2>1. started[a] # None /\ started[a] \in Nat /\ now - started[a] > Ttl
    BY DEF TimeOut, TimedOut, Old, TypeOK
  <2>2. knocks[i].ts <= started[a]
    BY <1>2, <2>1 DEF TimeOut, IdKept
  <2>3. QED
    BY <1>2, <2>1, <2>2, Dated, SizeAssumption DEF Old
<1>3. QED
  BY <1>1, <1>2, LeaveKept

LEMMA RedeemKept ==
  ASSUME TypeOK, Once, NEW i \in Id, IdKept(i), NEW a \in Asker, TryNext(a), ~Mishap
  PROVE  IdKept(i)'
<1> DEFINE j == joining[a].id
<1>1. UNCHANGED <<now, addr, knocks, following, started>> /\ j \in Id
  BY DEF TryNext, TypeOK
<1>2. CASE Redeemable(j) /\ ~UNCHANGED <<invites, minted, holds>>
  <2>1. Mint(j, invites[j].ts) /\ holds' = [holds EXCEPT ![a] = @ \cup {j}]
    BY <1>2 DEF TryNext
  <2>2. CASE i = j
    <3>1. knocks[i] = None /\ i \in holds'[a]
      BY <1>1, <1>2, <2>1, <2>2 DEF Redeemable, Once, IdOnce, TypeOK
    <3>2. QED
      BY <1>1, <3>1 DEF IdKept
  <2>3. CASE i # j
    <3>1. minted'[i] = minted[i]
      BY <2>1, <2>3 DEF Mint, TypeOK
    <3>2. \A b \in Asker : i \in holds[b] => i \in holds'[b]
      BY <2>1 DEF TypeOK
    <3>3. QED
      BY <1>1, <3>1, <3>2 DEF IdKept, Old
  <2>4. QED
    BY <2>2, <2>3
<1>3. CASE UNCHANGED <<invites, minted, holds>>
  <2>1. Idles
    BY <1>1, <1>3 DEF TryNext, Idles
  <2>2. QED
    BY <2>1, IdlesKept
<1>4. ~Redeemable(j) => UNCHANGED <<invites, minted, holds>>
  BY DEF TryNext
<1>5. QED
  BY <1>2, <1>3, <1>4

LEMMA StepKept == TypeOK /\ Once /\ Kept /\ [Next]_vars => Kept'
<1> SUFFICES ASSUME TypeOK, Once, Kept, [Next]_vars, mishaps' = 0, NEW i \in Id
             PROVE  IdKept(i)'
  BY DEF Kept
<1>1. ~Mishap
  BY DEF Mishap, TypeOK
<1>2. mishaps = 0 \/ mishaps' = mishaps + 1
  <2>1. mishaps' = mishaps \/ mishaps' = mishaps + 1
    BY DEF Next, vars, mindVars, askerVars, Tick, Outage, Restart, ListPending, InviteRefused,
           Approve, Deny, KnockRefused, KnockUnheard, ListInvites, TryNext, JoinFailed, Roam,
           Knock, Poll, TimeOut, Invite, Join, Mishap, Unreached
  <2>2. QED
    BY <2>1
<1>3. IdKept(i)
  BY <1>2 DEF Kept, TypeOK
<1> USE DEF mindVars, askerVars
<1>4. CASE UNCHANGED vars \/ Tick \/ Outage \/ ListPending \/ InviteRefused
  <2>1. Idles
    BY <1>4 DEF Idles, vars, Tick, Outage, ListPending, InviteRefused
  <2>2. QED
    BY <1>3, <2>1, IdlesKept
<1>5. ASSUME NEW a \in Asker,
             KnockRefused(a) \/ KnockUnheard(a) \/ ListInvites(a) \/ JoinFailed(a)
      PROVE  IdKept(i)'
  <2>1. Idles
    BY <1>5 DEF Idles, KnockRefused, KnockUnheard, ListInvites, JoinFailed, TypeOK
  <2>2. QED
    BY <1>3, <2>1, IdlesKept
<1>6. ASSUME NEW a \in Asker, NEW id \in Id, Invite(a, id) \/ Join(a, id) PROVE IdKept(i)'
  <2>1. Idles
    BY <1>6 DEF Idles, Invite, Join
  <2>2. QED
    BY <1>3, <2>1, IdlesKept
<1>7. ~Restart /\ \A a \in Asker, x \in Address : ~Roam(a, x)
  BY <1>1 DEF Restart, Roam
<1>8. QED
  BY <1>1, <1>3, <1>4, <1>5, <1>6, <1>7, AnswerKept, KnockKept, PollKept, TimeOutKept,
     RedeemKept DEF Next

LEMMA InitKept == Init => Kept
  BY DEF Init, Kept, IdKept

\* pair-requests.js:46-47, server.js:2742-2766 (NothingMislaid): with no answer
\* lost, no address changed and no restart, a minted credential has reached its
\* device, or waits for a device that still polls, or its knock is too old.
THEOREM CredentialsArrive == Spec => []NothingMislaid
<1>1. Kept => NothingMislaid
  BY DEF Kept, IdKept, NothingMislaid
<1>2. QED
  BY <1>1, InitTyped, StepTyped, InitOnce, StepOnce, InitKept, StepKept, PTL DEF Spec

-----------------------------------------------------------------------------
(* Whose credential it is.                                                 *)

\* The ids an asker has anything to do with.
Speaks(a) ==
  following[a] \cup holds[a]
    \cup {i \in Id : received[a][i] # None}
    \cup {i \in Id : joining[a] # None /\ joining[a].id = i}

EachItsOwn ==
  /\ \A a \in Asker : Speaks(a) \subseteq 1 .. used
  /\ \A a, b \in Asker : Speaks(a) \cap Speaks(b) # {} => a = b

\* A step gives nobody an id to speak of, or it gives one asker the next id.
NoneNew == used' = used /\ \A b \in Asker : Speaks(b)' \subseteq Speaks(b)
OneNew(a) ==
  /\ used' = used + 1
  /\ Speaks(a)' \subseteq Speaks(a) \cup {used + 1}
  /\ \A b \in Asker : b # a => Speaks(b)' \subseteq Speaks(b)

LEMMA SpeaksStep ==
  ASSUME TypeOK, [Next]_vars
  PROVE  NoneNew \/ \E a \in Asker : OneNew(a)
<1> USE DEF mindVars, askerVars
<1>0. ASSUME UNCHANGED <<used, following, holds, received, joining>> PROVE NoneNew
  BY <1>0 DEF NoneNew, Speaks
<1>1. CASE UNCHANGED vars \/ Tick \/ Outage \/ Restart \/ ListPending \/ InviteRefused
  BY <1>0, <1>1 DEF vars, Tick, Outage, Restart, ListPending, InviteRefused
<1>2. CASE (\E i \in Id : Approve(i) \/ Deny(i))
           \/ (\E a \in Asker : KnockRefused(a) \/ KnockUnheard(a))
           \/ (\E a \in Asker, x \in Address : Roam(a, x))
  BY <1>0, <1>2 DEF Approve, Deny, KnockRefused, KnockUnheard, Roam
<1>3. ASSUME NEW a \in Asker, ListInvites(a) PROVE NoneNew
  <2>1. \A b \in Asker, i \in Id : received'[b][i] # None => received[b][i] # None
    BY <1>3 DEF ListInvites, SweptReceived, TypeOK
  <2>2. QED
    BY <1>3, <2>1 DEF ListInvites, NoneNew, Speaks
<1>4. ASSUME NEW a \in Asker, TryNext(a) PROVE NoneNew
  <2>1. joining[a] # None /\ joining[a].id \in Id
    BY <1>4 DEF TryNext, TypeOK
  <2>2. /\ holds'[a] \subseteq holds[a] \cup {joining[a].id}
        /\ \A b \in Asker : b # a => holds'[b] = holds[b]
    BY <1>4 DEF TryNext, TypeOK
  <2>3. /\ joining'[a] # None => joining'[a].id = joining[a].id
        /\ \A b \in Asker : b # a => joining'[b] = joining[b]
    BY <1>4, <2>1 DEF TryNext, TypeOK
  <2>4. UNCHANGED <<used, following, received>>
    BY <1>4 DEF TryNext
  <2>5. QED
    BY <2>1, <2>2, <2>3, <2>4 DEF NoneNew, Speaks
<1>5. ASSUME NEW a \in Asker, JoinFailed(a) PROVE NoneNew
  <2>1. \A b \in Asker : joining'[b] \in {joining[b], None}
    BY <1>5 DEF JoinFailed, TypeOK
  <2>2. QED
    BY <1>5, <2>1 DEF JoinFailed, NoneNew, Speaks
<1>6. ASSUME NEW a \in Asker, NEW id \in Id, Knock(a, id) PROVE OneNew(a)
  <2>1. /\ following'[a] \subseteq following[a] \cup {used + 1}
        /\ \A b \in Asker : b # a => following'[b] = following[b]
    BY <1>6 DEF Knock, TypeOK
  <2>2. used' = used + 1 /\ UNCHANGED <<holds, received, joining>>
    BY <1>6 DEF Knock
  <2>3. QED
    BY <2>1, <2>2 DEF OneNew, Speaks
<1>7. ASSUME NEW a \in Asker, NEW id \in Id, Poll(a, id) \/ TimeOut(a, id) PROVE NoneNew
  <2>1. /\ following'[a] \subseteq following[a]
        /\ \A b \in Asker : b # a => following'[b] = following[b]
    BY <1>7 DEF Poll, TimeOut, TypeOK
  <2>2. /\ holds'[a] \subseteq holds[a] \cup {id}
        /\ \A b \in Asker : b # a => holds'[b] = holds[b]
    BY <1>7 DEF Poll, TimeOut, TypeOK
  <2>3. id \in following[a] /\ UNCHANGED <<used, received, joining>>
    BY <1>7 DEF Poll, TimeOut
  <2>4. QED
    BY <2>1, <2>2, <2>3 DEF NoneNew, Speaks
<1>8. ASSUME NEW a \in Asker, NEW id \in Id, Invite(a, id) PROVE OneNew(a)
  <2>1. id = used + 1 /\ used' = id /\ UNCHANGED <<following, holds, joining>>
    BY <1>8 DEF Invite
  <2>2. \A b \in Asker, i \in Id :
          received'[b][i] # None => received[b][i] # None \/ (b = a /\ i = id)
    <3>1. \/ received' = received
          \/ received' = [received EXCEPT ![a] = SweptReceived(a)]
          \/ received' = [received EXCEPT ![a] = [SweptReceived(a) EXCEPT ![id] = now]]
      BY <1>8 DEF Invite
    <3>2. \A i \in Id : SweptReceived(a)[i] # None => received[a][i] # None
      BY DEF SweptReceived
    <3>3. \A i \in Id : i # id => [SweptReceived(a) EXCEPT ![id] = now][i] = SweptReceived(a)[i]
      BY DEF SweptReceived
    <3>4. QED
      BY <3>1, <3>2, <3>3 DEF TypeOK
  <2>3. QED
    BY <2>1, <2>2 DEF OneNew, Speaks
<1>9. ASSUME NEW a \in Asker, NEW id \in Id, Join(a, id) PROVE NoneNew
  <2>1. /\ received[a][id] # None
        /\ received' = [received EXCEPT ![a][id] = None]
        /\ joining' = [joining EXCEPT ![a] = [id |-> id, left |-> Hosts]]
        /\ UNCHANGED <<used, following, holds>>
    BY <1>9 DEF Join
  <2>2. \A b \in Asker, i \in Id : received'[b][i] # None => received[b][i] # None
    BY <2>1 DEF TypeOK
  <2>3. /\ joining'[a].id = id
        /\ \A b \in Asker : b # a => joining'[b] = joining[b]
    BY <2>1 DEF TypeOK
  <2>4. QED
    BY <2>1, <2>2, <2>3 DEF NoneNew, Speaks
<1>10. QED
  BY <1>1, <1>2, <1>3, <1>4, <1>5, <1>6, <1>7, <1>8, <1>9 DEF Next

LEMMA OwnStep == TypeOK /\ EachItsOwn /\ [Next]_vars => EachItsOwn'
<1> SUFFICES ASSUME TypeOK, EachItsOwn, [Next]_vars PROVE EachItsOwn'
  OBVIOUS
<1>0. used \in Nat
  BY SizeAssumption DEF TypeOK
<1>1. CASE NoneNew
  BY <1>1 DEF NoneNew, EachItsOwn
<1>2. ASSUME NEW a \in Asker, OneNew(a) PROVE EachItsOwn'
  <2>1. used + 1 \notin 1 .. used /\ 1 .. used \subseteq 1 .. used + 1 /\ used + 1 \in 1 .. used + 1
    BY <1>0
  <2>2. \A b \in Asker : Speaks(b)' \subseteq Speaks(b) \cup (IF b = a THEN {used + 1} ELSE {})
    BY <1>2 DEF OneNew
  <2>3. \A b \in Asker : used + 1 \notin Speaks(b)
    BY <2>1 DEF EachItsOwn
  <2>4. (\A b \in Asker : Speaks(b) \subseteq 1 .. used)'
    BY <1>2, <2>1, <2>2 DEF OneNew, EachItsOwn
  <2>5. ASSUME NEW b \in Asker, NEW c \in Asker, NEW i, i \in Speaks(b)', i \in Speaks(c)'
        PROVE  b = c
    <3>1. CASE i = used + 1
      BY <2>2, <2>3, <2>5, <3>1
    <3>2. CASE i # used + 1
      <4>1. i \in Speaks(b) /\ i \in Speaks(c)
        BY <2>2, <2>5, <3>2
      <4>2. QED
        BY <4>1 DEF EachItsOwn
    <3>3. QED
      BY <3>1, <3>2
  <2>6. QED
    BY <2>4, <2>5 DEF EachItsOwn
<1>3. QED
  BY <1>1, <1>2, SpeaksStep

\* server.js:2742-2766, 2830-2846: with any number of devices, addresses that
\* change hands and answers that are lost, a credential reaches one device at
\* most, and the one that knocked for it or was invited.
OneHolder ==
  \A a, b \in Asker, i \in Id :
    i \in holds[a] /\ i \in Speaks(b) => a = b

\* A credential is for one device only (OneHolder), for any fleet and limits.
THEOREM OneHolderCorrect == Spec => []OneHolder
<1>1. Init => EachItsOwn
  <2> SUFFICES ASSUME Init PROVE EachItsOwn
    OBVIOUS
  <2>1. \A a \in Asker : /\ following[a] = {} /\ holds[a] = {} /\ joining[a] = None
                         /\ \A i \in Id : received[a][i] = None
    BY DEF Init
  <2>2. \A a \in Asker : Speaks(a) = {}
    BY <2>1 DEF Speaks
  <2>3. QED
    BY <2>2 DEF EachItsOwn
<1>2. EachItsOwn => OneHolder
  BY DEF EachItsOwn, OneHolder, Speaks
<1>3. QED
  BY <1>1, <1>2, OwnStep, TypeCorrect, PTL DEF Spec

=============================================================================
