---------------------------- MODULE PairRequests ----------------------------
(***************************************************************************)
(* How a device comes to follow a mind (shared-core/sync/pair-requests.js  *)
(* and the follow and invite routes of proxy/server.js).  A device knocks  *)
(* and polls until the mind's operator answers; or the mind's operator     *)
(* invites and the device's operator joins.  Either way a human click      *)
(* mints one device credential, handed over once.                          *)
(*                                                                         *)
(* Abstracted: a code is known by the request or invite it was cut for.    *)
(* Time is counted in ticks; Ttl stands for REQUEST_TTL_MS and for the ten *)
(* minutes the follower polls.  connectWithCode is taken to succeed.       *)
(***************************************************************************)
EXTENDS Naturals, FiniteSets, Sequences

CONSTANTS
  Asker,          \* devices looking for a mind
  Address,        \* network addresses
  None,
  Hosts,          \* how many addresses of the mind an invite lists
  Ttl,            \* REQUEST_TTL_MS
  MaxPending,     \* MAX_PENDING
  MaxPerAddress,  \* MAX_PENDING_PER_IP
  MaxIds,         \* bound: requests and invites
  MaxClock,       \* bound: ticks
  MaxMishaps      \* bound: answers lost on the way, dead hosts, new addresses, restarts

ASSUME SizeAssumption ==
  /\ Hosts \in Nat /\ MaxIds \in Nat /\ Ttl \in Nat /\ MaxClock \in Nat /\ MaxMishaps \in Nat
  /\ MaxPending \in Nat /\ MaxPerAddress \in Nat

\* There is an address for each device.
ASSUME AddressAssumption ==
  \E f \in [Asker -> Address] : \A a, b \in Asker : f[a] = f[b] => a = b

VARIABLES
  now,
  addr,       \* the address each asker has now
  used,       \* ids handed out, 1 to used; uuidv7: in order, none twice
  knocks,     \* _requests of the mind
  invites,    \* _invites of the mind
  minted,     \* per id, the credentials minted for it: when asked, when minted
  following,  \* per asker, the requests its poll loops ask about
  started,    \* per asker, _syncFollow.started; None when the slot has none
  received,   \* per asker, _receivedInvites: when each arrived
  joining,    \* per asker, the invite it is redeeming and the hosts left to try
  holds,      \* per asker, the ids whose code reached it
  reachable,  \* can the asker's machine and the mind reach each other now
  mishaps

Id == 1 .. MaxIds
mindVars == <<knocks, invites, minted>>
askerVars == <<following, started, received, joining, holds>>
vars == <<now, addr, used, mindVars, askerVars, reachable, mishaps>>

Knocked == [from: Address, ts: Nat, status: {"pending", "approved", "denied"}, code: BOOLEAN]
Invited == [ts: Nat, status: {"open", "redeemed"}]

ASSUME NoneAssumption == None \notin Knocked

\* Types; a code waits only in an approved request.
TypeOK ==
  /\ now \in 0 .. MaxClock /\ mishaps \in 0 .. MaxMishaps /\ reachable \in BOOLEAN
  /\ addr \in [Asker -> Address]
  /\ used \in 0 .. MaxIds
  /\ knocks \in [Id -> Knocked \cup {None}]
  /\ \A i \in Id : knocks[i] # None /\ knocks[i].code => knocks[i].status = "approved"
  /\ invites \in [Id -> Invited \cup {None}]
  /\ minted \in [Id -> Seq([asked: Nat, at: Nat])]
  /\ following \in [Asker -> SUBSET (1 .. used)]
  /\ started \in [Asker -> Nat \cup {None}]
  /\ received \in [Asker -> [Id -> Nat \cup {None}]]
  /\ joining \in [Asker -> [id: Id, left: 0 .. Hosts] \cup {None}]
  /\ holds \in [Asker -> SUBSET Id]

Init ==
  /\ now = 0 /\ mishaps = 0 /\ used = 0 /\ reachable = TRUE
  /\ addr = CHOOSE f \in [Asker -> Address] : \A a, b \in Asker : f[a] = f[b] => a = b
  /\ knocks = [i \in Id |-> None]
  /\ invites = [i \in Id |-> None]
  /\ minted = [i \in Id |-> <<>>]
  /\ following = [a \in Asker |-> {}]
  /\ started = [a \in Asker |-> None]
  /\ received = [a \in Asker |-> [i \in Id |-> None]]
  /\ joining = [a \in Asker |-> None]
  /\ holds = [a \in Asker |-> {}]

Mishap == mishaps < MaxMishaps /\ mishaps' = mishaps + 1

\* One address does not answer, or the whole machine is out of reach.
Unreached == Mishap \/ (~reachable /\ UNCHANGED mishaps)

Old(ts) == now - ts > Ttl

\* Mutant: nothing is ever swept.
SweptNever == knocks

\* _sweep, at the head of create, listPending and statusFor.
Swept == [i \in Id |-> IF knocks[i] # None /\ Old(knocks[i].ts) THEN None ELSE knocks[i]]
SweptInvites == [i \in Id |-> IF invites[i] # None /\ Old(invites[i].ts) THEN None ELSE invites[i]]
SweptReceived(a) ==
  [i \in Id |-> IF received[a][i] # None /\ Old(received[a][i]) THEN None ELSE received[a][i]]

Pending(k) == {i \in Id : k[i] # None /\ k[i].status = "pending"}
From(k, x) == {i \in Pending(k) : k[i].from = x}
Present(s) == {i \in Id : s[i] # None}

Mint(id, ts) == minted' = [minted EXCEPT ![id] = Append(@, [asked |-> ts, at |-> now])]

-----------------------------------------------------------------------------
(* The world.                                                              *)

Tick ==
  /\ now < MaxClock
  /\ now' = now + 1
  /\ UNCHANGED <<addr, used, mindVars, askerVars, reachable, mishaps>>

\* The mind's machine sleeps, leaves the network, or is back; as often as it likes.
Outage ==
  /\ reachable' = ~reachable
  /\ UNCHANGED <<now, addr, used, mindVars, askerVars, mishaps>>

\* A device comes back with another address.
Roam(a, x) ==
  /\ Mishap
  /\ \A b \in Asker : addr[b] # x
  /\ addr' = [addr EXCEPT ![a] = x]
  /\ UNCHANGED <<now, used, mindVars, askerVars, reachable>>

\* The mind's process restarts: requests and invites are in memory only.
Restart ==
  /\ Mishap
  /\ knocks' = [i \in Id |-> None]
  /\ invites' = [i \in Id |-> None]
  /\ UNCHANGED <<now, addr, used, minted, askerVars, reachable>>

-----------------------------------------------------------------------------
(* The device knocks.                                                      *)

\* Mutant: the per-address count is forgotten.
TooManyInAll(k, x) == Cardinality(Pending(k)) >= MaxPending

TooMany(k, x) == Cardinality(Pending(k)) >= MaxPending \/ Cardinality(From(k, x)) >= MaxPerAddress

\* follow and create: the knock is noted and its id comes back, or is lost and
\* follow reports failure; the slot _syncFollow now speaks of this knock.
Knock(a, id) ==
  /\ reachable
  /\ id = used + 1
  /\ now + Ttl < MaxClock
  /\ ~TooMany(Swept, addr[a])
  /\ used' = id
  /\ knocks' = [Swept EXCEPT ![id] =
       [from |-> addr[a], ts |-> now, status |-> "pending", code |-> FALSE]]
  /\ \/ /\ following' = [following EXCEPT ![a] = @ \cup {id}]
        /\ started' = [started EXCEPT ![a] = now]
        /\ UNCHANGED mishaps
     \/ /\ Mishap
        /\ started' = [started EXCEPT ![a] = None]
        /\ UNCHANGED following
  /\ UNCHANGED <<now, addr, invites, minted, received, joining, holds, reachable>>

KnockRefused(a) ==
  /\ reachable
  /\ TooMany(Swept, addr[a])
  /\ knocks' = Swept
  /\ started' = [started EXCEPT ![a] = None]
  /\ UNCHANGED <<now, addr, used, invites, minted, following, received, joining, holds,
                 reachable, mishaps>>

\* No answer: the slot says "failed", and without a start, to every loop there is.
KnockUnheard(a) ==
  /\ ~reachable
  /\ started' = [started EXCEPT ![a] = None]
  /\ UNCHANGED <<now, addr, used, mindVars, following, received, joining, holds, reachable, mishaps>>

\* The mind's operator looks at the list and answers.
ListPending ==
  /\ knocks' = Swept
  /\ UNCHANGED <<now, addr, used, invites, minted, askerVars, reachable, mishaps>>

\* Mutant: any status but "denied" may be approved.
ApproveAgain(id) ==
  /\ knocks[id] # None /\ knocks[id].status # "denied"
  /\ Mint(id, knocks[id].ts)
  /\ knocks' = [knocks EXCEPT ![id].status = "approved", ![id].code = TRUE]
  /\ UNCHANGED <<now, addr, used, invites, askerVars, reachable, mishaps>>

Approve(id) ==
  /\ id \in Pending(knocks)
  /\ Mint(id, knocks[id].ts)
  /\ knocks' = [knocks EXCEPT ![id].status = "approved", ![id].code = TRUE]
  /\ UNCHANGED <<now, addr, used, invites, askerVars, reachable, mishaps>>

\* Mutant: an approved request may still be denied.
DenyAny(id) ==
  /\ knocks[id] # None
  /\ knocks' = [knocks EXCEPT ![id].status = "denied"]
  /\ UNCHANGED <<now, addr, used, invites, minted, askerVars, reachable, mishaps>>

Deny(id) ==
  /\ id \in Pending(knocks)
  /\ knocks' = [knocks EXCEPT ![id].status = "denied"]
  /\ UNCHANGED <<now, addr, used, invites, minted, askerVars, reachable, mishaps>>

\* What statusFor tells the address x about id.
Status(id, x) ==
  IF Swept[id] = None \/ Swept[id].from # x THEN "unknown" ELSE Swept[id].status
GivesCode(id, x) == Status(id, x) = "approved" /\ Swept[id].code

\* Mutant: a slot without a start counts as timed out.
TimedOutOrBlank(a) == started[a] # None => Old(started[a])

TimedOut(a) == started[a] # None /\ Old(started[a])

\* One poll: the code leaves the store with the answer, heard or not; "denied"
\* and "unknown" end the loop, anything else leaves it running, and so does a
\* mind that is not reached.
Poll(a, id) ==
  /\ id \in following[a]
  /\ ~TimedOut(a)
  /\ reachable
  /\ knocks' = IF GivesCode(id, addr[a]) THEN [Swept EXCEPT ![id].code = FALSE] ELSE Swept
  /\ \/ /\ Mishap
        /\ UNCHANGED <<following, started, holds>>
     \/ /\ GivesCode(id, addr[a]) \/ Status(id, addr[a]) \in {"denied", "unknown"}
        /\ following' = [following EXCEPT ![a] = @ \ {id}]
        /\ started' = [started EXCEPT ![a] = None]
        /\ holds' = IF GivesCode(id, addr[a]) THEN [holds EXCEPT ![a] = @ \cup {id}] ELSE holds
        /\ UNCHANGED mishaps
     \/ /\ ~GivesCode(id, addr[a])
        /\ Status(id, addr[a]) \in {"pending", "approved"}
        /\ UNCHANGED <<following, started, holds, mishaps>>
  /\ UNCHANGED <<now, addr, used, invites, minted, received, joining, reachable>>

\* The loop looks at the slot, whichever knock that speaks of by now.
TimeOut(a, id) ==
  /\ id \in following[a]
  /\ TimedOut(a)
  /\ following' = [following EXCEPT ![a] = @ \ {id}]
  /\ started' = [started EXCEPT ![a] = None]
  /\ UNCHANGED <<now, addr, used, mindVars, received, joining, holds, reachable, mishaps>>

-----------------------------------------------------------------------------
(* The mind invites.                                                       *)

\* createInvite and the device's noteInvite, which may not be reached.
Invite(a, id) ==
  /\ id = used + 1
  /\ Cardinality(Present(SweptInvites)) < MaxPending
  /\ used' = id
  /\ invites' = [SweptInvites EXCEPT ![id] = [ts |-> now, status |-> "open"]]
  /\ \/ /\ reachable
        /\ received' = [received EXCEPT ![a] =
             IF Cardinality(Present(SweptReceived(a))) < MaxPending
             THEN [SweptReceived(a) EXCEPT ![id] = now] ELSE SweptReceived(a)]
        /\ UNCHANGED mishaps
     \/ Unreached /\ UNCHANGED received
  /\ UNCHANGED <<now, addr, knocks, minted, following, started, joining, holds, reachable>>

InviteRefused ==
  /\ Cardinality(Present(SweptInvites)) >= MaxPending
  /\ invites' = SweptInvites
  /\ UNCHANGED <<now, addr, used, knocks, minted, askerVars, reachable, mishaps>>

ListInvites(a) ==
  /\ received' = [received EXCEPT ![a] = SweptReceived(a)]
  /\ UNCHANGED <<now, addr, used, mindVars, following, started, joining, holds, reachable, mishaps>>

\* The device's operator clicks Join: the invite is taken, whatever its age.
Join(a, id) ==
  /\ received[a][id] # None
  /\ joining[a] = None
  /\ received' = [received EXCEPT ![a][id] = None]
  /\ joining' = [joining EXCEPT ![a] = [id |-> id, left |-> Hosts]]
  /\ UNCHANGED <<now, addr, used, mindVars, following, started, holds, reachable, mishaps>>

Redeemable(id) == invites[id] # None /\ invites[id].status = "open" /\ ~Old(invites[id].ts)

\* tryNext: the next host of the list is not reached, or redeemInvite mints and
\* the code arrives or is lost on the way, or the invite is no longer good.
TryNext(a) ==
  /\ joining[a] # None
  /\ joining[a].left > 0
  /\ LET id == joining[a].id IN
     \/ /\ Unreached
        /\ joining' = [joining EXCEPT ![a].left = @ - 1]
        /\ UNCHANGED <<invites, minted, holds>>
     \/ /\ reachable /\ Redeemable(id)
        /\ invites' = [invites EXCEPT ![id].status = "redeemed"]
        /\ Mint(id, invites[id].ts)
        /\ \/ /\ joining' = [joining EXCEPT ![a] = None]
              /\ holds' = [holds EXCEPT ![a] = @ \cup {id}]
              /\ UNCHANGED mishaps
           \/ /\ Mishap
              /\ joining' = [joining EXCEPT ![a].left = @ - 1]
              /\ UNCHANGED holds
     \/ /\ reachable /\ ~Redeemable(id)
        /\ joining' = [joining EXCEPT ![a].left = @ - 1]
        /\ UNCHANGED <<invites, minted, holds, mishaps>>
  /\ UNCHANGED <<now, addr, used, knocks, following, started, received, reachable>>

\* mind_unreachable: no host is left; the invite stays taken.
JoinFailed(a) ==
  /\ joining[a] # None
  /\ joining[a].left = 0
  /\ joining' = [joining EXCEPT ![a] = None]
  /\ UNCHANGED <<now, addr, used, mindVars, following, started, received, holds, reachable, mishaps>>

-----------------------------------------------------------------------------

Next ==
  \/ Tick \/ Outage \/ Restart \/ ListPending \/ InviteRefused
  \/ \E i \in Id : Approve(i) \/ Deny(i)
  \/ \E a \in Asker : KnockRefused(a) \/ KnockUnheard(a) \/ ListInvites(a)
                    \/ TryNext(a) \/ JoinFailed(a)
  \/ \E a \in Asker, x \in Address : Roam(a, x)
  \/ \E a \in Asker, i \in Id :
       Knock(a, i) \/ Poll(a, i) \/ TimeOut(a, i) \/ Invite(a, i) \/ Join(a, i)

Spec == Init /\ [][Next]_vars

\* Time passes and the three-second interval goes on: while the mind is out of
\* reach a poll changes nothing, so fairness asks for none.
Fairness ==
  /\ WF_vars(Tick)
  /\ \A a \in Asker, i \in Id : WF_vars(Poll(a, i) \/ TimeOut(a, i))

FairSpec == Spec /\ Fairness

-----------------------------------------------------------------------------
(* Properties.                                                             *)

\* pair-requests.js:6-7, 80: each click mints one credential and its code leaves
\* once: no id is minted for twice, and a code still waiting in the store has
\* reached nobody.
MintedOnce ==
  \A i \in Id :
    /\ Len(minted[i]) <= 1
    /\ \A a \in Asker : i \in holds[a] => Len(minted[i]) = 1
    /\ knocks[i] # None /\ knocks[i].code => \A a \in Asker : i \notin holds[a]

\* pair-requests.js:46-47, server.js:2742-2766: with no answer lost, no address
\* changed and no restart, a credential that was minted has reached its device,
\* or it waits in the store for a device that still polls, or its knock is too old.
NothingMislaid ==
  mishaps = 0 =>
    \A i \in Id : minted[i] # <<>> =>
      \/ \E a \in Asker : i \in holds[a]
      \/ Old(minted[i][1].asked)
      \/ knocks[i] # None /\ knocks[i].code /\ \E a \in Asker : i \in following[a]

\* pair-requests.js:13-15, 28-32: the operator's list stays short, per address
\* too, and no more invites are open than the cap.
PendingBounded ==
  /\ Cardinality(Pending(knocks)) <= MaxPending
  /\ \A x \in Address : Cardinality(From(knocks, x)) <= MaxPerAddress
  /\ Cardinality({i \in Id : Redeemable(i)}) <= MaxPending

\* server.js:2746-2761: a poll loop comes to an end if the mind can be reached
\* again for long enough, whatever was lost, overwritten or restarted; or if the
\* slot keeps a start to time out by.  A loop whose slot a later, failed knock
\* overwrote has no timeout (2749, 2755): while the mind does not answer it polls.
\* (An id that is no longer followed is never followed again.)
FollowEnds ==
  \A a \in Asker, i \in Id :
    (<>[]reachable \/ <>[](started[a] # None)) => []<>(i \notin following[a])

\* pair-requests.js:8-9: "a pending knock is worthless after ten minutes": no
\* credential is minted for a knock or an invite that has outlived the limit.
StaleIsWorthless ==
  \A i \in Id : \A n \in DOMAIN minted[i] : minted[i][n].at - minted[i][n].asked <= Ttl

=============================================================================
