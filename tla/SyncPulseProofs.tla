--------------------------- MODULE SyncPulseProofs --------------------------
(***************************************************************************)
(* Whoever starts the flushes, what is proved of the uplink holds.         *)
(***************************************************************************)
EXTENDS SyncPulse, SyncHistoryProofs

\* Every starter either starts a flush the uplink allows, or leaves it alone.
LEMMA StarterIsUplink ==
  ASSUME StarterStep
  PROVE  [UplinkNext]_vars
<1>1. ASSUME NEW m \in Machine, Boot(m) PROVE [UplinkNext]_vars
  BY <1>1 DEF Boot
<1>2. ASSUME NEW m \in Machine, Exit(m) PROVE [UplinkNext]_vars
  <2>1. Proxy[m] \in Proc
    BY ProxyAssumption
  <2>2. LoseCall(Proxy[m]) \/ UNCHANGED vars
    BY <1>2 DEF Exit
  <2>3. LoseCall(Proxy[m]) => SatelliteStep
    BY <2>1 DEF SatelliteStep
  <2> QED
    BY <2>2, <2>3 DEF UplinkNext
<1>3. ASSUME NEW m \in Machine, Pulse(m) PROVE [UplinkNext]_vars
  <2>1. Proxy[m] \in Proc /\ StartFlush(Proxy[m])
    BY <1>3, ProxyAssumption DEF Pulse
  <2> QED
    BY <2>1 DEF UplinkNext, SatelliteStep
<1>4. ASSUME NEW p \in Proc, Quit(p) PROVE [UplinkNext]_vars
  BY <1>4 DEF Quit
<1>5. ASSUME NEW p \in Proc, Nudge(p) PROVE [UplinkNext]_vars
  <2>1. StartFlush(p) \/ UNCHANGED vars
    BY <1>5 DEF Nudge
  <2> QED
    BY <2>1 DEF UplinkNext, SatelliteStep
<1>6. ASSUME NEW p \in Proc, ByHand(p) PROVE [UplinkNext]_vars
  BY <1>6 DEF ByHand, UplinkNext, SatelliteStep
<1>7. ASSUME NEW p \in Proc, NEW op \in Op, Write(p, op) PROVE [UplinkNext]_vars
  <2>1. Home[p] \in Machine
    BY HomeAssumption
  <2>2. QueueWrite(Home[p], op)
    BY <1>7 DEF Write
  <2> QED
    BY <2>1, <2>2 DEF UplinkNext, SatelliteStep
<1> QED
  BY <1>1, <1>2, <1>3, <1>4, <1>5, <1>6, <1>7 DEF StarterStep

\* remote-client.js:115-151, server.js:6701-6717: a system whose flushes are
\* started by nudges, a pulse and the operator implements the uplink.
THEOREM PulseImplementsUplink == PulseSpec => ImplementsUplink
<1>1. PulseInit => UplinkInit
  BY DEF PulseInit
<1>2. [PulseNext]_pulseVars => [UplinkNext]_vars
  <2> SUFFICES ASSUME [PulseNext]_pulseVars PROVE [UplinkNext]_vars
    OBVIOUS
  <2>1. CASE StarterStep
    BY <2>1, StarterIsUplink
  <2>2. CASE LoopStep
    BY <2>2 DEF LoopStep, UplinkNext, SatelliteStep
  <2>3. CASE OperatorStep \/ HubStep
    BY <2>3 DEF UplinkNext
  <2>4. CASE UNCHANGED pulseVars
    BY <2>4 DEF pulseVars
  <2> QED
    BY <2>1, <2>2, <2>3, <2>4 DEF PulseNext
<1> QED
  BY <1>1, <1>2, PTL DEF PulseSpec, ImplementsUplink, UplinkSpec

-----------------------------------------------------------------------------

\* A step of the system with its starters keeps the types of the starters.
LEMMA StartersTyped ==
  ASSUME PulseTypeOK, [PulseNext]_pulseVars
  PROVE  /\ proxy' \in [Machine -> {"down", "plain", "pulsing"}]
         /\ nudged' \subseteq Proc
<1> USE DEF PulseTypeOK
<1>1. ASSUME NEW m \in Machine, Boot(m) \/ Exit(m) \/ Pulse(m)
      PROVE  /\ proxy' \in [Machine -> {"down", "plain", "pulsing"}]
             /\ nudged' \subseteq Proc
  BY <1>1 DEF Boot, Exit, Pulse, starters
<1>2. ASSUME NEW p \in Proc, Quit(p) \/ Nudge(p) \/ ByHand(p) \/ \E op \in Op : Write(p, op)
      PROVE  /\ proxy' \in [Machine -> {"down", "plain", "pulsing"}]
             /\ nudged' \subseteq Proc
  BY <1>2 DEF Quit, Nudge, ByHand, Write, starters
<1>3. ASSUME UNCHANGED starters
      PROVE  /\ proxy' \in [Machine -> {"down", "plain", "pulsing"}]
             /\ nudged' \subseteq Proc
  BY <1>3 DEF starters
<1>4. StarterStep \/ UNCHANGED starters
  BY DEF PulseNext, pulseVars
<1> QED
  BY <1>1, <1>2, <1>3, <1>4 DEF StarterStep

\* The types of the uplink come from the uplink, those of the starters from above.
THEOREM PulseTypeCorrect == PulseSpec => []PulseTypeOK
<1>1. PulseSpec => []TypeOK
  BY PulseImplementsUplink, UplinkTypeCorrect, PTL DEF ImplementsUplink
<1>2. PulseInit /\ TypeOK => PulseTypeOK
  BY DEF PulseInit, PulseTypeOK
<1>3. PulseTypeOK /\ TypeOK' /\ [PulseNext]_pulseVars => PulseTypeOK'
  BY StartersTyped DEF PulseTypeOK
<1> QED
  BY <1>1, <1>2, <1>3, PTL DEF PulseSpec

\* remote-client.js:119-145: with the starters told apart, too, rows are sent in
\* their order, and one marked sent is in the journal as that event.
THEOREM PulseSendsInOrder == PulseSpec => [](SentInOrder /\ SentIsJournaled)
  BY PulseImplementsUplink, SentInOrderCorrect, SentIsJournaledCorrect, PTL DEF ImplementsUplink

\* hub.js:69-82, remote-client.js:119-146: whoever starts the flushes, machine and
\* hub stay in step (InStep), and the hub always expects the row a machine with one
\* identity sends next, or holds it already (HeadIsTaken), without which
\* PulseDrains could not hold.
THEOREM PulseKeepsInStep == PulseSpec => [](InStep /\ HeadIsTaken)
  BY PulseImplementsUplink, InStepCorrect, HeadIsTakenCorrect, PTL DEF ImplementsUplink

=============================================================================
