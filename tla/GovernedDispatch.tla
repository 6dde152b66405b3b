-------------------------- MODULE GovernedDispatch --------------------------
(***************************************************************************)
(* How an intent becomes an effect on the world (shared-core/intent.js,    *)
(* dispatcher.js, global-pause.js, seal.js, the intent predicates of       *)
(* state-machine.js, the intent_state and l4_effect_ledger tables of       *)
(* state.js).  A runner is one chain of calls that emits an intent and     *)
(* dispatches it, or drains the validated ones; runners live in several    *)
(* processes over one database, or interleave at the adapter's await.      *)
(*                                                                         *)
(* Abstracted: a target is a scope with a payload.  Classes low, medium,   *)
(* high and sealed_only are 0 to 3.  The capability and the grounding an   *)
(* intent names are in force together or not at all.  A tick is the        *)
(* millisecond the markers of a pause are ordered by, TicksPerMinute of    *)
(* them the minute an idempotency key is cut from.  Most reads and writes  *)
(* of the tables catch their own failure, and the chain goes on: where     *)
(* that lets more happen than should, it is a mishap, and counted.         *)
(***************************************************************************)
EXTENDS Naturals, FiniteSets, Sequences

CONSTANTS
  Runner,
  Target,
  Adapter,         \* Adapter[t]: the irreversibility class t's adapter declares
  Ceiling,         \* Ceiling[t]: max_irreversibility of t's capability
  Declared,        \* the classes an emitter may declare
  Outcome,         \* how an adapter call may end
  TicksPerMinute,
  MaxTime,         \* bound: ticks
  MaxIntents,      \* bound: intents emitted
  MaxMarkers,      \* bound: pauses and resumes
  MaxMishaps       \* bound: runners that die past the claim, failures swallowed

Low == 0
High == 2
Class == 0 .. 3

ASSUME DispatchAssumption ==
  /\ Adapter \in [Target -> Class] /\ Ceiling \in [Target -> Class]
  /\ Declared \subseteq Class
  /\ Outcome \subseteq {"done", "failed", "failed_late"}
  /\ TicksPerMinute \in Nat \ {0} /\ MaxTime \in Nat \ {0} /\ MaxIntents \in Nat
  /\ MaxMarkers \in Nat /\ MaxMishaps \in Nat

VARIABLES
  now,
  inForce,      \* targets whose capability and grounding still hold
  seals,        \* idempotency keys the operator sealed
  paused,       \* ts of the newest global_pause marker, 0 for none
  resumed,      \* ts of the newest global_resume marker
  intents,      \* the intent engrams in order of writing
  status,       \* intent_state.status
  observations, \* intents with an observation engram
  ledger,       \* effect keys marked done in l4_effect_ledger
  pc,           \* where each runner is
  at,           \* per runner, the intent it dispatches, 0 for none
  todo,         \* per runner, the intents the drain has listed and not reached
  draft,        \* per runner, the intent it is about to write, <<>> for none
  called,       \* history: intents an adapter was called for
  performed,    \* history: intents whose effect reached the world
  lost,         \* history: intents performed, and never to be in the ledger
  abandoned,    \* history: intents whose runner died past the claim
  stopped,      \* history: the operator's last word is a pause
  overrun,      \* history: per runner, effects since that word
  markers,      \* pauses and resumes so far
  swallowed,    \* history: per step, the intents it failed for unnoticed
  mishaps

tables == <<intents, status, observations, ledger>>
brake == <<paused, resumed, stopped, markers>>
chain == <<at, todo, draft>>
history == <<called, performed, lost, abandoned, overrun>>
faults == <<swallowed, mishaps>>
vars == <<now, inForce, seals, brake, tables, pc, chain, history, faults>>

Id == 1 .. MaxIntents
Written == 1 .. Len(intents)
Intent == [target: Target, class: Class, key: Nat, sealed: BOOLEAN]
Minute(t) == t \div TicksPerMinute

\* Mutant: a tie goes to the resume.
IsPausedTieResumes == paused > 0 /\ resumed < paused

\* The marker written later wins, and a tie keeps the brake on.
IsPaused == paused > 0 /\ resumed <= paused

\* Mutant: the declaration alone.
EffectiveDeclared(d) == d.class

\* The stakes of an intent: what it declares, never less than its adapter.
Effective(d) ==
  IF d.class >= Adapter[d.target] THEN d.class ELSE Adapter[d.target]

EffectKey(d) == <<d.target, Effective(d)>>

\* The predicates both phases share, on the class each phase goes by.  They
\* refuse when they cannot read; the brake, below, does not.
Authorised(d, class) ==
  /\ d.target \in inForce
  /\ class <= Ceiling[d.target]
  /\ class >= High => d.sealed

Mishap == mishaps < MaxMishaps /\ mishaps' = mishaps + 1

\* The steps whose failure matters to what an intent comes to; a ledger entry
\* that is not written is noted in lost.
Swallowable == {"brake", "lookup", "observation", "outcome"}

Swallow(step, i) == Mishap /\ swallowed' = [swallowed EXCEPT ![step] = @ \cup {i}]

\* Past the claim.
Held(r) == pc[r] \in {"claimed", "calling", "done", "failed", "noted", "noted_failed", "settling"}

\* Types; a runner is between two dispatches exactly when it has none left.
Working == {"recheck", "refused", "cleared", "claimed", "calling", "done",
            "failed", "noted", "noted_failed", "settling"}
Phase == {"idle", "writing"} \cup Working

OperatorOK ==
  /\ now \in 1 .. MaxTime
  /\ inForce \subseteq Target /\ seals \subseteq Target \X Nat
  /\ paused \in 0 .. MaxTime /\ resumed \in 0 .. MaxTime
  /\ stopped \in BOOLEAN
  /\ markers \in 0 .. MaxMarkers /\ mishaps \in 0 .. MaxMishaps

TablesOK ==
  /\ intents \in Seq(Intent) /\ Len(intents) <= MaxIntents
  /\ status \in [Id -> {"none", "validated", "dispatched", "observed", "failed"}]
  /\ \A i \in Id \ Written : status[i] = "none"
  /\ observations \subseteq Written
  /\ ledger \subseteq Target \X Class
  /\ called \subseteq Written /\ performed \subseteq called /\ lost \subseteq Written
  /\ abandoned \subseteq Written
  /\ swallowed \in [Swallowable -> SUBSET Written]

RunnersOK ==
  /\ pc \in [Runner -> Phase]
  /\ at \in [Runner -> Nat] /\ todo \in [Runner -> SUBSET Written]
  /\ \A r \in Runner : IF pc[r] \in Working THEN at[r] \in Written ELSE at[r] = 0
  /\ draft \in [Runner -> Seq(Intent)]
  /\ \A r \in Runner : pc[r] = "writing" => Len(draft[r]) = 1
  /\ overrun \in [Runner -> Nat]

TypeOK == OperatorOK /\ TablesOK /\ RunnersOK

Init ==
  /\ now = 1 /\ markers = 0 /\ mishaps = 0 /\ swallowed = [s \in Swallowable |-> {}]
  /\ inForce = Target /\ seals = {}
  /\ paused = 0 /\ resumed = 0 /\ stopped = FALSE
  /\ intents = <<>>
  /\ status = [i \in Id |-> "none"]
  /\ observations = {} /\ ledger = {}
  /\ pc = [r \in Runner |-> "idle"]
  /\ at = [r \in Runner |-> 0] /\ todo = [r \in Runner |-> {}]
  /\ draft = [r \in Runner |-> <<>>]
  /\ called = {} /\ performed = {} /\ lost = {} /\ abandoned = {}
  /\ overrun = [r \in Runner |-> 0]

-----------------------------------------------------------------------------
(* What the runner does next with the intents s it still has to dispatch.  *)

\* Mutant: a runner that is through keeps the intent it had.
ProceedHolding(r, s) ==
  \/ /\ s = {}
     /\ pc' = [pc EXCEPT ![r] = "idle"]
     /\ todo' = [todo EXCEPT ![r] = {}]
     /\ UNCHANGED at
  \/ \E i \in s :
       /\ \A j \in s : i <= j
       /\ pc' = [pc EXCEPT ![r] = "recheck"]
       /\ at' = [at EXCEPT ![r] = i]
       /\ todo' = [todo EXCEPT ![r] = s \ {i}]

Proceed(r, s) ==
  \/ /\ s = {}
     /\ pc' = [pc EXCEPT ![r] = "idle"]
     /\ at' = [at EXCEPT ![r] = 0]
     /\ todo' = [todo EXCEPT ![r] = {}]
  \/ \E i \in s :
       /\ \A j \in s : i <= j
       /\ pc' = [pc EXCEPT ![r] = "recheck"]
       /\ at' = [at EXCEPT ![r] = i]
       /\ todo' = [todo EXCEPT ![r] = s \ {i}]

Step(r, from, to) == pc[r] = from /\ pc' = [pc EXCEPT ![r] = to]

\* writeIntent: the predicates read the engrams in one call (to the brake and
\* the duplicate check, a failed read says that there is nothing) ...
Emit(r, t, c) ==
  LET d == [target |-> t, class |-> c, key |-> Minute(now),
            sealed |-> <<t, Minute(now)>> \in seals]
      again == \E i \in Written : intents[i].target = t /\ intents[i].key = d.key
  IN
  /\ Len(intents) < MaxIntents /\ Step(r, "idle", "writing")
  /\ Authorised(d, c)
  /\ \/ ~(IsPaused \/ again) /\ UNCHANGED mishaps
     \/ (IsPaused \/ again) /\ Mishap
  /\ draft' = [draft EXCEPT ![r] = <<d>>]
  /\ UNCHANGED <<now, inForce, seals, brake, tables, at, todo, history, swallowed>>

\* ... and the engram is written, then its state row, in others: another process
\* may have written meanwhile.  The row may fail and is not missed; a death
\* between the two looks the same.  intent_emit and mcp_call go on to dispatch
\* the intent, control:emit_intent leaves it for a drain.
Record(r) ==
  /\ pc[r] = "writing" /\ Len(intents) < MaxIntents
  /\ intents' = Append(intents, draft[r][1])
  /\ status' \in {status, [status EXCEPT ![Len(intents) + 1] = "validated"]}
  /\ draft' = [draft EXCEPT ![r] = <<>>]
  /\ Proceed(r, {Len(intents) + 1}) \/ Proceed(r, {})
  /\ UNCHANGED <<now, inForce, seals, brake, observations, ledger, history, faults>>

\* dispatchPending lists what is validated, then awaits one after the other.
Drain(r) ==
  LET found == {i \in Written : status[i] = "validated"} IN
  /\ pc[r] = "idle" /\ found # {}
  /\ Proceed(r, found)
  /\ UNCHANGED <<now, inForce, seals, brake, tables, draft, history, faults>>

Recheck(r) ==
  /\ pc[r] = "recheck"
  /\ LET d == intents[at[r]] IN
     \/ /\ Authorised(d, Effective(d))
        /\ (~IsPaused /\ UNCHANGED faults) \/ (IsPaused /\ Swallow("brake", at[r]))
        /\ Step(r, "recheck", "cleared")
     \/ /\ ~Authorised(d, Effective(d)) \/ IsPaused
        /\ Step(r, "recheck", "refused")
        /\ UNCHANGED faults
  /\ UNCHANGED <<now, inForce, seals, brake, tables, chain, history>>

\* markIntentFailed asks nothing of the status it overwrites, makes no row where
\* there is none, and may fail.
Refuse(r) ==
  /\ pc[r] = "refused"
  /\ \/ status[at[r]] # "none" /\ status' = [status EXCEPT ![at[r]] = "failed"]
     \/ UNCHANGED status
  /\ Proceed(r, todo[r])
  /\ UNCHANGED <<now, inForce, seals, brake, intents, observations, ledger, draft,
                 history, faults>>

\* Mutant: the claim is an update by id alone.
ClaimUnguarded(r) ==
  /\ Step(r, "cleared", "claimed")
  /\ status' = [status EXCEPT ![at[r]] = "dispatched"]
  /\ UNCHANGED <<now, inForce, seals, brake, intents, observations, ledger, chain,
                 history, faults>>

Claim(r) ==
  /\ pc[r] = "cleared"
  /\ \/ /\ status[at[r]] = "validated"
        /\ Step(r, "cleared", "claimed")
        /\ status' = [status EXCEPT ![at[r]] = "dispatched"]
        /\ UNCHANGED <<at, todo>>
     \/ \* Another's by now, or the update failed, which reads the same.
        Proceed(r, todo[r]) /\ UNCHANGED status
  /\ UNCHANGED <<now, inForce, seals, brake, intents, observations, ledger, draft,
                 history, faults>>

\* Mutant: the ledger is consulted for nothing.
LookUpNothing(r) ==
  /\ Step(r, "claimed", "calling")
  /\ UNCHANGED <<now, inForce, seals, brake, tables, chain, history, faults>>

\* _writeObservation may come back with nothing, and nobody looks.
Note(r) ==
  \/ observations' = observations \cup {at[r]} /\ UNCHANGED faults
  \/ UNCHANGED observations /\ Swallow("observation", at[r])

\* The effect ledger: a done effect is observed again, not performed again; what
\* cannot be read counts as not done.
LookUp(r) ==
  /\ pc[r] = "claimed"
  /\ LET d == intents[at[r]]
         inLedger == Effective(d) > Low /\ EffectKey(d) \in ledger
     IN
     \/ /\ inLedger /\ Step(r, "claimed", "settling")
        /\ Note(r)
     \/ /\ Step(r, "claimed", "calling")
        /\ (~inLedger /\ UNCHANGED faults) \/ (inLedger /\ Swallow("lookup", at[r]))
        /\ UNCHANGED observations
  /\ UNCHANGED <<now, inForce, seals, brake, intents, status, ledger, chain, history>>

\* The adapter's await.  A call may fail after the effect was had: a request
\* that timed out on the way back.
Call(r, how) ==
  LET effect == IF how = "failed" THEN {} ELSE {at[r]} IN
  /\ Step(r, "calling", IF how = "done" THEN "done" ELSE "failed")
  /\ called' = called \cup {at[r]}
  /\ performed' = performed \cup effect
  /\ lost' = IF how = "failed_late" THEN lost \cup effect ELSE lost
  /\ overrun' = IF stopped /\ effect # {} /\ at[r] \notin swallowed.brake
                THEN [overrun EXCEPT ![r] = @ + 1] ELSE overrun
  /\ UNCHANGED <<now, inForce, seals, brake, tables, chain, abandoned, faults>>

\* The outcome becomes an observation, good or bad, ...
Observe(r) ==
  /\ Step(r, "done", "noted") \/ Step(r, "failed", "noted_failed")
  /\ Note(r)
  /\ UNCHANGED <<now, inForce, seals, brake, intents, status, ledger, chain, history>>

\* ... then a success above low a ledger entry, best effort, ...
RecordEffect(r) ==
  /\ Step(r, "noted", "settling")
  /\ LET d == intents[at[r]] IN
     \/ /\ ledger' = IF Effective(d) = Low THEN ledger ELSE ledger \cup {EffectKey(d)}
        /\ UNCHANGED <<lost, mishaps>>
     \/ /\ Effective(d) > Low /\ Mishap
        /\ lost' = lost \cup {at[r]}
        /\ UNCHANGED ledger
  /\ UNCHANGED <<now, inForce, seals, brake, intents, status, observations, chain,
                 called, performed, abandoned, overrun, swallowed>>

\* Mutant: an effect found in the ledger returns before the state row.
SettleCalledOnly(r) ==
  /\ pc[r] \in {"settling", "noted_failed"}
  /\ status' = IF at[r] \notin called THEN status
               ELSE [status EXCEPT ![at[r]] = IF pc[r] = "settling" THEN "observed" ELSE "failed"]
  /\ Proceed(r, todo[r])
  /\ UNCHANGED <<now, inForce, seals, brake, intents, observations, ledger, draft,
                 history, faults>>

\* ... then the state row its outcome, again whatever it holds, if that succeeds.
Settle(r) ==
  /\ pc[r] \in {"settling", "noted_failed"}
  /\ \/ /\ status' = [status EXCEPT ![at[r]] =
               IF pc[r] = "settling" THEN "observed" ELSE "failed"]
        /\ UNCHANGED faults
     \/ UNCHANGED status /\ Swallow("outcome", at[r])
  /\ Proceed(r, todo[r])
  /\ UNCHANGED <<now, inForce, seals, brake, intents, observations, ledger, draft, history>>

\* A runner dies with its process, or its chain throws; nothing takes up what it
\* had claimed.  Deaths before a claim leave nothing that could pile up.
Crash(r) ==
  /\ pc[r] # "idle"
  /\ (Held(r) /\ Mishap) \/ (~Held(r) /\ UNCHANGED mishaps)
  /\ draft' = [draft EXCEPT ![r] = <<>>]
  /\ Proceed(r, {})
  /\ lost' = IF pc[r] \in {"done", "noted"} THEN lost \cup {at[r]} ELSE lost
  /\ abandoned' = IF Held(r) THEN abandoned \cup {at[r]} ELSE abandoned
  /\ UNCHANGED <<now, inForce, seals, brake, tables, called, performed, overrun, swallowed>>

-----------------------------------------------------------------------------
(* The operator and the clock.                                             *)

Pause ==
  /\ markers < MaxMarkers /\ markers' = markers + 1
  /\ paused' = now
  /\ stopped' = TRUE /\ overrun' = [r \in Runner |-> 0]
  /\ UNCHANGED <<now, inForce, seals, resumed, tables, pc, chain, called, performed,
                 lost, abandoned, faults>>

\* Written at once, or after waiting for the clock to pass the pause, or in
\* vain when the wait gave up.
Resume ==
  /\ markers < MaxMarkers /\ markers' = markers + 1
  /\ resumed' = now
  /\ stopped' = FALSE /\ overrun' = [r \in Runner |-> 0]
  /\ UNCHANGED <<now, inForce, seals, paused, tables, pc, chain, called, performed,
                 lost, abandoned, faults>>

\* The capability runs out, or a signed engram supersedes it.
Revoke(t) ==
  /\ t \in inForce /\ inForce' = inForce \ {t}
  /\ UNCHANGED <<now, seals, brake, tables, pc, chain, history, faults>>

\* troth seal --idempotency-key.  Of the keys known by now only this minute's
\* is of use: a later emission cuts another.
Seal(t) ==
  LET key == Minute(now) IN
  /\ <<t, key>> \notin seals /\ seals' = seals \cup {<<t, key>>}
  /\ UNCHANGED <<now, inForce, brake, tables, pc, chain, history, faults>>

Tick ==
  /\ now < MaxTime /\ now' = now + 1
  /\ UNCHANGED <<inForce, seals, brake, tables, pc, chain, history, faults>>

Dispatching(r) ==
  \/ Recheck(r) \/ Refuse(r) \/ Claim(r) \/ LookUp(r)
  \/ \E how \in Outcome : Call(r, how)
  \/ Observe(r) \/ RecordEffect(r) \/ Settle(r)

Next ==
  \/ \E r \in Runner :
       \/ \E t \in Target, c \in Declared : Emit(r, t, c)
       \/ Record(r) \/ Drain(r) \/ Dispatching(r) \/ Crash(r)
  \/ \E t \in Target : Revoke(t) \/ Seal(t)
  \/ Pause \/ Resume \/ Tick

Spec == Init /\ [][Next]_vars

-----------------------------------------------------------------------------
(* What must hold.                                                         *)

\* However many drains and emitters race, one runner holds an intent past the
\* claim, and it calls the adapter for it once (claimIntent, state.js:3628).
AdapterOncePerIntent ==
  \A r \in Runner : Held(r) =>
    /\ pc[r] \in {"claimed", "calling"} => at[r] \notin called
    /\ \A s \in Runner : Held(s) /\ at[s] = at[r] => s = r

\* No mislabelling walks around the seal: an effect of an adapter that is high
\* was sealed for the minute its intent was written in, and nothing was done
\* beyond the ceiling of the capability (dispatcher.js:78, seal.js:22).
NoUnsealedHighEffect ==
  \A i \in performed :
    LET d == intents[i] IN
    /\ Adapter[d.target] >= High => <<d.target, d.key>> \in seals
    /\ Adapter[d.target] <= Ceiling[d.target]

\* The kill switch stops a drain in its middle: after the pause a runner has
\* one effect at most, the call it had already cleared (global-pause.js:1), and
\* those of which the recheck could not read the markers (global-pause.js:52).
BrakeBoundsOverrun == \A r \in Runner : overrun[r] <= 1

\* Runners that race repeat an effect, and so does one that follows a crash, a
\* late failure or a ledger entry that was not written, or cannot read the
\* ledger; but an adapter is never called for an effect that a run past and
\* gone has had and put on record as done (dispatcher.js:248, 310).
RepeatsOnlyInFlight ==
  [][\A r \in Runner :
       pc[r] = "claimed" /\ pc'[r] = "calling" /\ at[r] \notin swallowed'.lookup =>
       \A i \in performed \ lost :
         \/ EffectKey(intents[i]) # EffectKey(intents[at[r]])
         \/ Effective(intents[i]) = Low
         \/ \E s \in Runner : at[s] = i]_vars

\* No effect is silent and no claim forgotten but by a failure of that very
\* write: an intent out of its runner's hands has an outcome, and an observation
\* if its adapter was called, unless the runner died: then nobody else settles
\* it (dispatcher.js:243, 295; state.js:3666, 3686).
AccountedFor ==
  \A i \in Written \ abandoned :
    \/ \E r \in Runner : Held(r) /\ at[r] = i
    \/ /\ status[i] = "dispatched" => i \in swallowed.outcome
       /\ i \in called => i \in observations \cup swallowed.observation

\* Intents a runner has, left to nobody when it died, or brought to an outcome.
Taken == {at[r] : r \in {q \in Runner : Held(q)}} \cup abandoned
           \cup observations \cup swallowed.observation

\* However runners race, die, fail to write and overwrite each other's state
\* rows, an intent is claimed or refused for good, its adapter is called once
\* and only under the claim, and an outcome that was put on record stays there
\* (dispatcher.js:215-315).  An intent whose row was not written is refused.
Life == INSTANCE IntentLife
          WITH Intents <- Id, written <- Written, claimed <- Taken, observed <- observations,
               refused <- {i \in Written : status[i] # "validated"} \ Taken
ImplementsLife == Life!LifeSpec

\* "a resume HOURS after a crash that landed between "adapter succeeded" and
\* "observation written" recognises the side-effect as already done"
\* (state.js:918).
CrashResumeNeverRepeats ==
  \A i \in abandoned \cap lost : \A j \in performed :
    Effective(intents[i]) > Low /\ EffectKey(intents[j]) = EffectKey(intents[i]) => i = j
=============================================================================
