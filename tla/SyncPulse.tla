----------------------------- MODULE SyncPulse ------------------------------
(***************************************************************************)
(* What starts a flush (server.js:6701-6717, remote-client.js:115 and      *)
(* `troth sync flush`), around the uplink.  SyncUplink lets every process  *)
(* flush at any moment; here a loop starts only when something starts it:  *)
(* the nudge that follows a write in the writer's own process, the pulse   *)
(* of the machine's proxy, or the operator's hand.  The pulse is installed *)
(* once, when the proxy boots, and only if the machine follows a mind by   *)
(* then.                                                                   *)
(***************************************************************************)
EXTENDS SyncUplink

CONSTANT Proxy \* Proxy[m]: the process of machine m that is its proxy

ASSUME ProxyAssumption ==
  /\ Proxy \in [Machine -> Proc]
  /\ \A m \in Machine : Home[Proxy[m]] = m

VARIABLES
  proxy, \* per machine: "down", "plain" (no pulse installed) or "pulsing"
  nudged \* processes whose setImmediate after a write has yet to run

starters == <<proxy, nudged>>
pulseVars == <<vars, starters>>

\* Every variable keeps its type.
PulseTypeOK ==
  /\ TypeOK
  /\ proxy \in [Machine -> {"down", "plain", "pulsing"}]
  /\ nudged \subseteq Proc

PulseInit == UplinkInit /\ proxy = [m \in Machine |-> "down"] /\ nudged = {}

-----------------------------------------------------------------------------
(* The proxy comes and goes.                                               *)

IsProxy(p) == p = Proxy[Home[p]]
Up(p) == IsProxy(p) => proxy[Home[p]] # "down"

\* The proxy starts; whether it will pulse is decided here and never again.
Boot(m) ==
  /\ proxy[m] = "down"
  /\ proxy' = [proxy EXCEPT ![m] = IF config[m] # NoDevice THEN "pulsing" ELSE "plain"]
  /\ UNCHANGED <<vars, nudged>>

\* Mutant: the call outlives the process, and its successor gets the answer.
ExitLeavingCall(m) ==
  LET p == Proxy[m] IN
  /\ proxy[m] # "down"
  /\ proxy' = [proxy EXCEPT ![m] = "down"]
  /\ nudged' = nudged \ {p}
  /\ flushing' = [flushing EXCEPT ![p] = Idle]
  /\ UNCHANGED <<hubVars, config, outbox, requests, caller, losses>>

\* It stops or dies: its timers and its open call die with it.
Exit(m) ==
  LET p == Proxy[m] IN
  /\ proxy[m] # "down"
  /\ proxy' = [proxy EXCEPT ![m] = "down"]
  /\ nudged' = nudged \ {p}
  /\ IF flushing[p].state # "idle" THEN LoseCall(p) ELSE UNCHANGED vars

\* A command exits in the turn it wrote in (`troth confirm`): no nudge follows.
Quit(p) ==
  /\ ~IsProxy(p)
  /\ p \in nudged
  /\ nudged' = nudged \ {p}
  /\ UNCHANGED <<vars, proxy>>

-----------------------------------------------------------------------------
(* The starters.                                                           *)

\* A write in process p: the row is committed and a flush is put off to the
\* end of this turn of p's loop.
Write(p, op) ==
  /\ Up(p)
  /\ QueueWrite(Home[p], op)
  /\ nudged' = nudged \cup {p}
  /\ UNCHANGED proxy

\* flush() has something to do: no loop of p's is running, the machine is
\* connected and a row is unsent.
CanStart(p) ==
  /\ flushing[p].state = "idle"
  /\ config[Home[p]] # NoDevice
  /\ Unsent(outbox[Home[p]]) # {}

\* The put-off flush runs, once: behind a running loop it changes nothing.
Nudge(p) ==
  /\ p \in nudged
  /\ nudged' = nudged \ {p}
  /\ IF CanStart(p) THEN StartFlush(p) ELSE UNCHANGED vars
  /\ UNCHANGED proxy

\* Mutant: the interval is a timeout, so only a new write flushes again.
PulseOnNudge(m) ==
  /\ proxy[m] = "pulsing"
  /\ Proxy[m] \in nudged
  /\ StartFlush(Proxy[m])
  /\ UNCHANGED starters

\* The 15 s interval of a proxy that had a configuration when it booted.  It
\* reads the configuration of now.
Pulse(m) ==
  /\ proxy[m] = "pulsing"
  /\ StartFlush(Proxy[m])
  /\ UNCHANGED starters

\* `troth sync flush`, and the flush that writeThrough waits for.
ByHand(p) ==
  /\ Up(p)
  /\ StartFlush(p)
  /\ UNCHANGED starters

-----------------------------------------------------------------------------

StarterStep ==
  \/ \E m \in Machine : Boot(m) \/ Exit(m) \/ Pulse(m)
  \/ \E p \in Proc : Quit(p) \/ Nudge(p) \/ ByHand(p)
  \/ \E p \in Proc, op \in Op : Write(p, op)

\* A loop that runs goes on by itself, and the rest of the world as before.
LoopStep == \E p \in Proc : FlushBlocked(p) \/ FlushAcked(p) \/ LoseCall(p)

PulseNext == StarterStep \/ ((LoopStep \/ OperatorStep \/ HubStep) /\ UNCHANGED starters)

\* Timers fire, a running loop's awaits settle, the hub answers who waits.
\* Nothing makes anyone write, boot a proxy or flush by hand.
PulseFairness ==
  /\ \A m \in Machine : WF_pulseVars(Pulse(m))
  /\ \A p \in Proc :
       /\ WF_pulseVars(Nudge(p))
       /\ WF_pulseVars(FlushBlocked(p) /\ UNCHANGED starters)
       /\ WF_pulseVars(FlushAcked(p) /\ UNCHANGED starters)
       /\ WF_pulseVars(Serve(p) /\ UNCHANGED starters)
  /\ WF_pulseVars(Run /\ UNCHANGED starters)
  /\ WF_pulseVars(Finish /\ UNCHANGED starters)

PulseSpec == PulseInit /\ [][PulseNext]_pulseVars
FairPulseSpec == PulseSpec /\ PulseFairness

-----------------------------------------------------------------------------

\* remote-client.js:115-151: whoever starts the loops and whenever a proxy comes
\* or goes, the machines do nothing an uplink may not do, so all that holds of
\* SyncUplink holds with its starters told apart.
ImplementsUplink == UplinkSpec

\* server.js:6701-6704: "this pulse is the retry lane that drains the outbox
\* after an offline stretch ... without waiting for the next write": where the
\* proxy pulses, the outbox drains, whichever process wrote the rows, however
\* its nudge was lost, and although no other process ever tries again.
PulseDrains ==
  \A m \in Machine, d \in Device :
    (<>[](Sendable(m, d) /\ proxy[m] = "pulsing")) => <>[](Unsent(outbox[m]) = {})

=============================================================================
