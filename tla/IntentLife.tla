----------------------------- MODULE IntentLife -----------------------------
(***************************************************************************)
(* What governed dispatch promises of an intent, without runners, drains,  *)
(* rechecks or crashes: an intent that was written is claimed or refused,  *)
(* never both; the adapter is called for a claimed one, once, and for no   *)
(* other; what came of a claim may be observed, and nothing of it is       *)
(* undone.                                                                 *)
(***************************************************************************)
EXTENDS Naturals

CONSTANT Intents

VARIABLES
  written,    \* intents on record
  refused,    \* intents that will never be dispatched
  claimed,    \* intents a runner took upon itself
  called,     \* intents the adapter was called for
  observed,   \* intents whose outcome is on record
  performed   \* intents that had their effect on the world

life == <<written, refused, claimed, called, observed, performed>>

Undecided(i) == i \in written /\ i \notin claimed /\ i \notin refused

LifeInit ==
  /\ written = {} /\ refused = {} /\ claimed = {}
  /\ called = {} /\ observed = {} /\ performed = {}

Write(i) ==
  /\ i \notin written
  /\ written' = written \cup {i}
  /\ UNCHANGED <<refused, claimed, called, observed, performed>>

\* One that nobody can ever claim.
WriteDead(i) ==
  /\ i \notin written
  /\ written' = written \cup {i} /\ refused' = refused \cup {i}
  /\ UNCHANGED <<claimed, called, observed, performed>>

Refuse(i) ==
  /\ Undecided(i)
  /\ refused' = refused \cup {i}
  /\ UNCHANGED <<written, claimed, called, observed, performed>>

Claim(i) ==
  /\ Undecided(i)
  /\ claimed' = claimed \cup {i}
  /\ UNCHANGED <<written, refused, called, observed, performed>>

\* The one call, which may fail before or after its effect.
Call(i) ==
  /\ i \notin called \cup observed /\ i \in claimed
  /\ called' = called \cup {i}
  /\ performed' \in {performed, performed \cup {i}}
  /\ UNCHANGED <<written, refused, claimed, observed>>

\* The outcome of the call, or of another intent's call for the same effect.
Observe(i) ==
  /\ i \notin observed /\ i \in claimed
  /\ observed' = observed \cup {i}
  /\ UNCHANGED <<written, refused, claimed, called, performed>>

LifeNext == \E i \in Intents :
  Write(i) \/ WriteDead(i) \/ Refuse(i) \/ Claim(i) \/ Call(i) \/ Observe(i)

LifeSpec == LifeInit /\ [][LifeNext]_life

=============================================================================
