----------------------- MODULE GovernedDispatchProofs -----------------------
(***************************************************************************)
(* Safety of governed dispatch for any number of runners, targets and      *)
(* intents.                                                                *)
(***************************************************************************)
EXTENDS GovernedDispatch, TLAPS

USE DispatchAssumption DEF Low, High, Class

-----------------------------------------------------------------------------
(* What the parts of an action do.                                         *)

LEMMA AtWritten ==
  ASSUME TypeOK, NEW r \in Runner, pc[r] \in Working
  PROVE  /\ at[r] \in Written /\ at[r] \in Id /\ at[r] # 0
         /\ intents[at[r]] \in Intent
  BY DEF TypeOK, TablesOK, RunnersOK, Written, Id

LEMMA StepKeeps ==
  ASSUME RunnersOK, NEW r \in Runner, NEW a, NEW b \in Phase, Step(r, a, b)
  PROVE  /\ pc[r] = a /\ pc' \in [Runner -> Phase] /\ pc'[r] = b
         /\ \A q \in Runner : q # r => pc'[q] = pc[q]
  BY DEF RunnersOK, Step

LEMMA ProceedKeeps ==
  ASSUME RunnersOK, NEW r \in Runner, NEW s \in SUBSET Nat, Proceed(r, s)
  PROVE  /\ pc' \in [Runner -> Phase] /\ at' \in [Runner -> Nat]
         /\ todo' = [todo EXCEPT ![r] = todo'[r]] /\ todo'[r] \subseteq s
         /\ \/ pc'[r] = "idle" /\ at'[r] = 0
            \/ pc'[r] = "recheck" /\ at'[r] \in s
         /\ \A q \in Runner : q # r =>
              pc'[q] = pc[q] /\ at'[q] = at[q]
<1>1. CASE s = {} /\ pc' = [pc EXCEPT ![r] = "idle"] /\ at' = [at EXCEPT ![r] = 0]
               /\ todo' = [todo EXCEPT ![r] = {}]
  BY <1>1 DEF RunnersOK, Phase
<1>2. ASSUME NEW i \in s, pc' = [pc EXCEPT ![r] = "recheck"], at' = [at EXCEPT ![r] = i],
             todo' = [todo EXCEPT ![r] = s \ {i}]
      PROVE  /\ pc' \in [Runner -> Phase] /\ at' \in [Runner -> Nat]
             /\ todo' = [todo EXCEPT ![r] = todo'[r]] /\ todo'[r] \subseteq s
             /\ pc'[r] = "recheck" /\ at'[r] \in s
             /\ \A q \in Runner : q # r =>
                  pc'[q] = pc[q] /\ at'[q] = at[q]
  BY <1>2 DEF RunnersOK, Phase, Working
<1>3. QED
  BY <1>1, <1>2 DEF Proceed

LEMMA TablesKept ==
  ASSUME TablesOK, UNCHANGED intents,
         status' \in [Id -> {"none", "validated", "dispatched", "observed", "failed"}],
         \A i \in Id \ Written : status'[i] = status[i],
         observations' \subseteq Written, ledger' \subseteq Target \X Class,
         called' \subseteq Written, performed' \subseteq called',
         lost' \subseteq Written, abandoned' \subseteq Written,
         swallowed' \in [Swallowable -> SUBSET Written]
  PROVE  TablesOK'
  BY DEF TablesOK, Written, Id

LEMMA StatusSet ==
  ASSUME TablesOK, NEW i \in Written, NEW v \in {"dispatched", "observed", "failed"},
         status' = [status EXCEPT ![i] = v]
  PROVE  /\ status' \in [Id -> {"none", "validated", "dispatched", "observed", "failed"}]
         /\ \A j \in Id \ Written : status'[j] = status[j]
         /\ status'[i] = v /\ \A j \in Id : j # i => status'[j] = status[j]
  BY DEF TablesOK, Written, Id

\* What goes wrong for the runner r, unnoticed, goes wrong for the intent it has.
OnlyMarks(r, step) ==
  /\ swallowed[step] \subseteq swallowed'[step]
  /\ swallowed'[step] \subseteq swallowed[step] \cup {at[r]}
  /\ \A k \in Swallowable \ {step} : swallowed'[k] = swallowed[k]

LEMMA FaultsKept ==
  ASSUME TypeOK, NEW r \in Runner, NEW step \in Swallowable, at[r] \in Written,
         UNCHANGED faults \/ Swallow(step, at[r])
  PROVE  /\ swallowed' \in [Swallowable -> SUBSET Written] /\ mishaps' \in 0 .. MaxMishaps
         /\ OnlyMarks(r, step) /\ (UNCHANGED swallowed \/ at[r] \in swallowed'[step])
<1>1. CASE UNCHANGED faults
  BY <1>1 DEF faults, TypeOK, OperatorOK, TablesOK, OnlyMarks
<1>2. CASE Swallow(step, at[r])
  <2>1. mishaps' \in 0 .. MaxMishaps
    BY <1>2 DEF Swallow, Mishap, TypeOK, OperatorOK
  <2>2. /\ swallowed' \in [Swallowable -> SUBSET Written]
        /\ swallowed'[step] = swallowed[step] \cup {at[r]}
        /\ \A k \in Swallowable \ {step} : swallowed'[k] = swallowed[k]
    BY <1>2 DEF Swallow, TypeOK, TablesOK
  <2>3. QED
    BY <2>1, <2>2 DEF OnlyMarks
<1>3. QED
  BY <1>1, <1>2

LEMMA MishapKept ==
  TypeOK /\ (UNCHANGED mishaps \/ Mishap) => mishaps' \in 0 .. MaxMishaps
  BY DEF Mishap, TypeOK, OperatorOK

\* One runner moves, the others and what was written stay.
LEMMA RunnersKept ==
  ASSUME RunnersOK, NEW r \in Runner, Written \subseteq Written',
         pc' \in [Runner -> Phase], at' \in [Runner -> Nat],
         todo' = [todo EXCEPT ![r] = todo'[r]], todo'[r] \subseteq Written',
         IF pc'[r] \in Working THEN at'[r] \in Written' ELSE at'[r] = 0,
         draft' = [draft EXCEPT ![r] = draft'[r]], draft'[r] \in Seq(Intent),
         pc'[r] = "writing" => Len(draft'[r]) = 1,
         overrun' \in [Runner -> Nat],
         \A q \in Runner : q # r => pc'[q] = pc[q] /\ at'[q] = at[q]
  PROVE  RunnersOK'
<1>1. todo' \in [Runner -> SUBSET Written'] /\ draft' \in [Runner -> Seq(Intent)]
  BY DEF RunnersOK
<1>2. ASSUME NEW q \in Runner
      PROVE  /\ IF pc'[q] \in Working THEN at'[q] \in Written' ELSE at'[q] = 0
             /\ pc'[q] = "writing" => Len(draft'[q]) = 1
  BY <1>2 DEF RunnersOK
<1>3. QED
  BY <1>1, <1>2 DEF RunnersOK

LEMMA RunnersStep ==
  ASSUME RunnersOK, NEW r \in Runner, NEW a \in Working, NEW b \in Working, Step(r, a, b),
         UNCHANGED chain, UNCHANGED intents, overrun' \in [Runner -> Nat]
  PROVE  RunnersOK'
<1>1. b \in Phase /\ b # "writing"
  BY DEF Phase, Working
<1>2. /\ pc[r] = a /\ pc' \in [Runner -> Phase] /\ pc'[r] = b
      /\ \A q \in Runner : q # r => pc'[q] = pc[q]
  BY <1>1, StepKeeps
<1>3. at[r] \in Written /\ Written' = Written
  BY <1>2 DEF RunnersOK, Written
<1>4. /\ todo' = [todo EXCEPT ![r] = todo'[r]] /\ todo'[r] \subseteq Written'
      /\ draft' = [draft EXCEPT ![r] = draft'[r]] /\ draft'[r] \in Seq(Intent)
  BY <1>3 DEF RunnersOK, chain
<1>5. at' = at
  BY DEF chain
<1>6. QED
  BY <1>1, <1>2, <1>3, <1>4, <1>5, RunnersKept DEF RunnersOK

LEMMA RunnersProceed ==
  ASSUME RunnersOK, NEW r \in Runner, NEW s \in SUBSET Nat, Proceed(r, s),
         s \subseteq Written', Written \subseteq Written',
         draft' = [draft EXCEPT ![r] = draft'[r]], draft'[r] \in Seq(Intent), UNCHANGED overrun
  PROVE  RunnersOK'
<1>1. /\ pc' \in [Runner -> Phase] /\ at' \in [Runner -> Nat]
      /\ todo' = [todo EXCEPT ![r] = todo'[r]] /\ todo'[r] \subseteq s
      /\ \/ pc'[r] = "idle" /\ at'[r] = 0
         \/ pc'[r] = "recheck" /\ at'[r] \in s
      /\ \A q \in Runner : q # r => pc'[q] = pc[q] /\ at'[q] = at[q]
  BY ProceedKeeps
<1>3. /\ IF pc'[r] \in Working THEN at'[r] \in Written' ELSE at'[r] = 0
      /\ pc'[r] # "writing"
  BY <1>1 DEF Working
<1>4. QED
  BY <1>1, <1>3, RunnersKept DEF RunnersOK

-----------------------------------------------------------------------------
(* Types.                                                                  *)

LEMMA EmitTyped ==
  ASSUME TypeOK, NEW r \in Runner, NEW t \in Target, NEW c \in Declared, Emit(r, t, c)
  PROVE  TypeOK'
<1> DEFINE d == [target |-> t, class |-> c, key |-> Minute(now),
                 sealed |-> <<t, Minute(now)>> \in seals]
<1>1. d \in Intent
  <2>1. Minute(now) \in Nat /\ c \in Class
    BY DEF Minute, TypeOK, OperatorOK
  <2>2. (<<t, Minute(now)>> \in seals) \in BOOLEAN
    OBVIOUS
  <2> HIDE DEF Class
  <2>3. QED
    BY <2>1, <2>2 DEF Intent
<1>2. draft' = [draft EXCEPT ![r] = <<d>>] /\ Step(r, "idle", "writing")
  BY DEF Emit
<1>3. UNCHANGED <<now, inForce, seals, paused, resumed, stopped, markers, swallowed,
                  intents, status, observations, ledger, at, todo, called, performed,
                  lost, abandoned, overrun>>
  BY DEF Emit, brake, tables, history
<1>4. OperatorOK' /\ TablesOK' /\ Written' = Written
  <2>1. mishaps' \in 0 .. MaxMishaps
    BY MishapKept DEF Emit
  <2>2. QED
    BY <1>3, <2>1 DEF TypeOK, OperatorOK, TablesOK, Written
<1>5. /\ pc[r] = "idle" /\ pc' \in [Runner -> Phase] /\ pc'[r] = "writing"
      /\ \A q \in Runner : q # r => pc'[q] = pc[q]
  BY <1>2, StepKeeps DEF TypeOK, Phase
<1>6. /\ draft' = [draft EXCEPT ![r] = draft'[r]] /\ draft'[r] \in Seq(Intent)
      /\ Len(draft'[r]) = 1
  <2> HIDE DEF d
  <2> QED
    BY <1>1, <1>2 DEF TypeOK, RunnersOK
<1>7. at[r] = 0
  BY <1>5 DEF TypeOK, RunnersOK, Working
<1>8. /\ todo' = [todo EXCEPT ![r] = todo'[r]] /\ todo'[r] \subseteq Written'
  BY <1>3, <1>4 DEF TypeOK, RunnersOK
<1>9. RunnersOK'
  BY <1>3, <1>4, <1>5, <1>6, <1>7, <1>8, RunnersKept DEF TypeOK, RunnersOK, Working
<1>10. QED
  BY <1>4, <1>9 DEF TypeOK

LEMMA RecordTyped ==
  ASSUME TypeOK, NEW r \in Runner, Record(r)
  PROVE  TypeOK'
<1> DEFINE n == Len(intents) + 1
<1>1. /\ pc[r] = "writing" /\ Len(intents) < MaxIntents
      /\ intents' = Append(intents, draft[r][1])
      /\ status' \in {status, [status EXCEPT ![n] = "validated"]}
      /\ draft' = [draft EXCEPT ![r] = <<>>]
      /\ Proceed(r, {n}) \/ Proceed(r, {})
      /\ UNCHANGED <<now, inForce, seals, paused, resumed, stopped, markers, swallowed, mishaps,
                     observations, ledger, called, performed, lost, abandoned, overrun>>
  BY DEF Record, brake, history, faults
<1>2. draft[r] \in Seq(Intent) /\ Len(draft[r]) = 1 /\ draft[r][1] \in Intent
  BY <1>1 DEF TypeOK, RunnersOK
<1>3. intents \in Seq(Intent) /\ Len(intents) \in Nat /\ n \in Id
  BY <1>1 DEF TypeOK, TablesOK, Id
<1>4. /\ intents' \in Seq(Intent) /\ Len(intents') = n
      /\ Written' = Written \cup {n} /\ n \notin Written
  BY <1>1, <1>2, <1>3 DEF Written
<1>5. TablesOK'
  <2>1. status' \in [Id -> {"none", "validated", "dispatched", "observed", "failed"}]
    BY <1>1, <1>3 DEF TypeOK, TablesOK
  <2>2. \A i \in Id \ Written' : status'[i] = "none"
    BY <1>1, <1>3, <1>4 DEF TypeOK, TablesOK
  <2>3. Len(intents') <= MaxIntents
    BY <1>1, <1>3, <1>4
  <2>4. swallowed' \in [Swallowable -> SUBSET Written']
    BY <1>1, <1>4 DEF TypeOK, TablesOK
  <2>5. QED
    BY <1>1, <1>4, <2>1, <2>2, <2>3, <2>4 DEF TypeOK, TablesOK
<1>6. OperatorOK'
  BY <1>1 DEF TypeOK, OperatorOK
<1>7. RunnersOK'
  <2>1. PICK s \in {{n}, {}} : Proceed(r, s)
    BY <1>1
  <2>2. s \in SUBSET Nat /\ s \subseteq Written' /\ Written \subseteq Written'
    BY <1>3, <1>4
  <2>3. draft' = [draft EXCEPT ![r] = draft'[r]] /\ draft'[r] \in Seq(Intent)
    BY <1>1 DEF TypeOK, RunnersOK
  <2>4. QED
    BY <1>1, <2>1, <2>2, <2>3, RunnersProceed DEF TypeOK
<1>8. QED
  BY <1>5, <1>6, <1>7 DEF TypeOK

LEMMA DrainTyped ==
  ASSUME TypeOK, NEW r \in Runner, Drain(r)
  PROVE  TypeOK'
<1>1. PICK s \in SUBSET Written : Proceed(r, s)
  BY DEF Drain
<1>2. UNCHANGED <<now, inForce, seals, paused, resumed, stopped, markers, intents,
                  status, swallowed, mishaps, observations, ledger, draft, called, performed, lost,
                  abandoned, overrun>>
  BY DEF Drain, brake, tables, history, faults
<1>3. OperatorOK' /\ TablesOK' /\ Written' = Written
  BY <1>2 DEF TypeOK, OperatorOK, TablesOK, Written
<1>4. s \in SUBSET Nat /\ s \subseteq Written' /\ Written \subseteq Written'
  BY <1>3 DEF Written
<1>5. draft' = [draft EXCEPT ![r] = draft'[r]] /\ draft'[r] \in Seq(Intent)
  BY <1>2 DEF TypeOK, RunnersOK
<1>6. RunnersOK'
  BY <1>1, <1>2, <1>4, <1>5, RunnersProceed DEF TypeOK
<1>7. QED
  BY <1>3, <1>6 DEF TypeOK

LEMMA RecheckTyped ==
  ASSUME TypeOK, NEW r \in Runner, Recheck(r)
  PROVE  TypeOK'
<1>1. PICK b \in {"cleared", "refused"} : Step(r, "recheck", b)
  BY DEF Recheck
<1>2. UNCHANGED <<now, inForce, seals, paused, resumed, stopped, markers, intents,
                  status, observations, ledger, chain, called, performed, lost,
                  abandoned, overrun>>
  BY DEF Recheck, brake, tables, history
<1>3. OperatorOK' /\ TablesOK'
  <2>1. at[r] \in Written /\ "brake" \in Swallowable
    BY <1>1, AtWritten DEF Working, Step, Swallowable
  <2>2. UNCHANGED faults \/ Swallow("brake", at[r])
    BY DEF Recheck
  <2>3. swallowed' \in [Swallowable -> SUBSET Written] /\ mishaps' \in 0 .. MaxMishaps
    BY <2>1, <2>2, FaultsKept
  <2>4. QED
    BY <1>2, <2>3 DEF TypeOK, OperatorOK, TablesOK, Written
<1>4. "recheck" \in Working /\ b \in Working /\ overrun' \in [Runner -> Nat]
  BY <1>2 DEF Working, TypeOK, RunnersOK
<1>5. RunnersOK'
  BY <1>1, <1>2, <1>4, RunnersStep DEF TypeOK
<1>6. QED
  BY <1>3, <1>5 DEF TypeOK

\* The common part of Refuse, Settle and of a Claim that comes too late.
LEMMA ProceedTyped ==
  ASSUME TypeOK, NEW r \in Runner, Proceed(r, todo[r]),
         status' = status
           \/ /\ pc[r] \in Working
              /\ \E v \in {"dispatched", "observed", "failed"} :
                   status' = [status EXCEPT ![at[r]] = v],
         swallowed' \in [Swallowable -> SUBSET Written], mishaps' \in 0 .. MaxMishaps,
         UNCHANGED <<now, inForce, seals, paused, resumed, stopped, markers,
                     intents, observations, ledger, draft, called, performed, lost,
                     abandoned, overrun>>
  PROVE  TypeOK'
<1>1. OperatorOK' /\ Written' = Written
  BY DEF TypeOK, OperatorOK, Written
<1>2. /\ status' \in [Id -> {"none", "validated", "dispatched", "observed", "failed"}]
      /\ \A i \in Id \ Written : status'[i] = status[i]
  <2>1. CASE status' = status
    BY <2>1 DEF TypeOK, TablesOK
  <2>2. CASE pc[r] \in Working /\ \E v \in {"dispatched", "observed", "failed"} :
               status' = [status EXCEPT ![at[r]] = v]
    <3>1. at[r] \in Written
      BY <2>2, AtWritten
    <3>2. QED
      BY <2>2, <3>1, StatusSet DEF TypeOK
  <2>3. QED
    BY <2>1, <2>2
<1>3. TablesOK'
  BY <1>2, TablesKept DEF TypeOK, TablesOK
<1>4. todo[r] \in SUBSET Nat /\ todo[r] \subseteq Written' /\ Written \subseteq Written'
  BY <1>1 DEF TypeOK, RunnersOK, Written
<1>5. draft' = [draft EXCEPT ![r] = draft'[r]] /\ draft'[r] \in Seq(Intent)
  BY DEF TypeOK, RunnersOK
<1>6. RunnersOK'
  BY <1>4, <1>5, RunnersProceed DEF TypeOK
<1>7. QED
  BY <1>1, <1>3, <1>6 DEF TypeOK

LEMMA RefuseTyped ==
  ASSUME TypeOK, NEW r \in Runner, Refuse(r)
  PROVE  TypeOK'
<1>1. /\ Proceed(r, todo[r]) /\ pc[r] \in Working
      /\ status' = status \/ status' = [status EXCEPT ![at[r]] = "failed"]
      /\ UNCHANGED <<now, inForce, seals, paused, resumed, stopped, markers, swallowed, mishaps,
                     intents, observations, ledger, draft, called, performed, lost,
                     abandoned, overrun>>
  BY DEF Refuse, brake, history, faults, Working
<1>2. swallowed' \in [Swallowable -> SUBSET Written] /\ mishaps' \in 0 .. MaxMishaps
  BY <1>1 DEF TypeOK, OperatorOK, TablesOK
<1>3. QED
  BY <1>1, <1>2, ProceedTyped

LEMMA SettleTyped ==
  ASSUME TypeOK, NEW r \in Runner, Settle(r)
  PROVE  TypeOK'
<1>1. /\ Proceed(r, todo[r]) /\ pc[r] \in Working
      /\ UNCHANGED <<now, inForce, seals, paused, resumed, stopped, markers,
                     intents, observations, ledger, draft, called, performed, lost,
                     abandoned, overrun>>
  BY DEF Settle, brake, history, Working
<1>2. status' = status \/ \E v \in {"dispatched", "observed", "failed"} : status' = [status EXCEPT ![at[r]] = v]
  BY DEF Settle
<1>3. swallowed' \in [Swallowable -> SUBSET Written] /\ mishaps' \in 0 .. MaxMishaps
  <2>1. at[r] \in Written /\ "outcome" \in Swallowable
    BY <1>1, AtWritten DEF Swallowable
  <2>2. UNCHANGED faults \/ Swallow("outcome", at[r])
    BY DEF Settle
  <2>3. QED
    BY <2>1, <2>2, FaultsKept
<1>4. QED
  BY <1>1, <1>2, <1>3, ProceedTyped

LEMMA ClaimTyped ==
  ASSUME TypeOK, NEW r \in Runner, Claim(r)
  PROVE  TypeOK'
<1>1. /\ pc[r] \in Working
      /\ UNCHANGED <<now, inForce, seals, paused, resumed, stopped, markers, swallowed, mishaps,
                     intents, observations, ledger, draft, called, performed, lost,
                     abandoned, overrun>>
  BY DEF Claim, brake, history, faults, Working
<1>5. swallowed' \in [Swallowable -> SUBSET Written] /\ mishaps' \in 0 .. MaxMishaps
  BY <1>1 DEF TypeOK, OperatorOK, TablesOK
<1>2. CASE /\ status[at[r]] = "validated" /\ Step(r, "cleared", "claimed")
           /\ status' = [status EXCEPT ![at[r]] = "dispatched"]
           /\ UNCHANGED <<at, todo>>
  <2>1. at[r] \in Written
    BY <1>1, AtWritten
  <2>2. TablesOK'
    BY <1>1, <1>5, <1>2, <2>1, StatusSet, TablesKept DEF TypeOK, TablesOK
  <2>3. RunnersOK'
    <3>1. UNCHANGED chain /\ overrun' \in [Runner -> Nat]
      BY <1>1, <1>2 DEF chain, TypeOK, RunnersOK
    <3>2. "cleared" \in Working /\ "claimed" \in Working
      BY DEF Working
    <3>3. QED
      BY <1>1, <1>2, <3>1, <3>2, RunnersStep DEF TypeOK
  <2>4. QED
    BY <1>1, <2>2, <2>3 DEF TypeOK, OperatorOK
<1>3. CASE Proceed(r, todo[r]) /\ UNCHANGED status
  BY <1>1, <1>5, <1>3, ProceedTyped
<1>4. QED
  BY <1>2, <1>3 DEF Claim

LEMMA LookUpTyped ==
  ASSUME TypeOK, NEW r \in Runner, LookUp(r)
  PROVE  TypeOK'
<1>1. /\ pc[r] \in Working
      /\ UNCHANGED <<now, inForce, seals, paused, resumed, stopped, markers,
                     intents, status, ledger, chain, called, performed, lost, abandoned,
                     overrun>>
  BY DEF LookUp, brake, history, Working
<1>2. PICK b \in {"settling", "calling"} :
        /\ Step(r, "claimed", b)
        /\ observations' = observations \/ observations' = observations \cup {at[r]}
  BY DEF LookUp, Note
<1>3. at[r] \in Written
  BY <1>1, AtWritten
<1>9. swallowed' \in [Swallowable -> SUBSET Written] /\ mishaps' \in 0 .. MaxMishaps
  <2>1. UNCHANGED faults \/ \E k \in {"lookup", "observation"} : Swallow(k, at[r])
    BY DEF LookUp, Note
  <2>2. {"lookup", "observation"} \subseteq Swallowable
    BY DEF Swallowable
  <2>3. QED
    BY <1>3, <2>1, <2>2, FaultsKept DEF faults, TypeOK, OperatorOK, TablesOK
<1>4. TablesOK'
  BY <1>9, <1>1, <1>2, <1>3, TablesKept DEF TypeOK, TablesOK
<1>5. "claimed" \in Working /\ b \in Working
  BY DEF Working
<1>6. overrun' \in [Runner -> Nat]
  BY <1>1 DEF TypeOK, RunnersOK
<1>7. RunnersOK'
  BY <1>1, <1>2, <1>5, <1>6, RunnersStep DEF TypeOK
<1>8. QED
  BY <1>1, <1>9, <1>4, <1>7 DEF TypeOK, OperatorOK

LEMMA CallTyped ==
  ASSUME TypeOK, NEW r \in Runner, NEW how \in Outcome, Call(r, how)
  PROVE  TypeOK'
<1>1. /\ UNCHANGED <<now, inForce, seals, paused, resumed, stopped, markers, swallowed, mishaps,
                     intents, status, observations, ledger, chain, abandoned>>
      /\ called' = called \cup {at[r]}
      /\ performed' \in {performed, performed \cup {at[r]}}
      /\ lost' \in {lost, lost \cup {at[r]}}
      /\ overrun' \in {overrun, [overrun EXCEPT ![r] = @ + 1]}
  BY DEF Call, brake, tables, faults
<1>2. PICK b \in {"done", "failed"} : Step(r, "calling", b)
  BY DEF Call
<1>3. at[r] \in Written
  BY <1>2, AtWritten DEF Working, Step
<1>4. TablesOK'
  BY <1>1, <1>3, TablesKept DEF TypeOK, TablesOK
<1>5. "calling" \in Working /\ b \in Working
  BY DEF Working
<1>6. overrun' \in [Runner -> Nat]
  <2>1. overrun[r] + 1 \in Nat
    BY DEF TypeOK, RunnersOK
  <2>2. QED
    BY <1>1, <2>1 DEF TypeOK, RunnersOK
<1>7. RunnersOK'
  BY <1>1, <1>2, <1>5, <1>6, RunnersStep DEF TypeOK
<1>8. QED
  BY <1>1, <1>4, <1>7 DEF TypeOK, OperatorOK

LEMMA ObserveTyped ==
  ASSUME TypeOK, NEW r \in Runner, Observe(r)
  PROVE  TypeOK'
<1>1. /\ UNCHANGED <<now, inForce, seals, paused, resumed, stopped, markers,
                     intents, status, ledger, chain, called, performed, lost, abandoned,
                     overrun>>
      /\ observations' = observations \/ observations' = observations \cup {at[r]}
  BY DEF Observe, Note, brake, history
<1>2. PICK a \in {"done", "failed"}, b \in {"noted", "noted_failed"} : Step(r, a, b)
  BY DEF Observe
<1>3. at[r] \in Written
  BY <1>2, AtWritten DEF Working, Step
<1>8. swallowed' \in [Swallowable -> SUBSET Written] /\ mishaps' \in 0 .. MaxMishaps
  <2>1. UNCHANGED faults \/ Swallow("observation", at[r])
    BY DEF Observe, Note
  <2>2. "observation" \in Swallowable
    BY DEF Swallowable
  <2>3. QED
    BY <1>3, <2>1, <2>2, FaultsKept
<1>4. TablesOK'
  BY <1>8, <1>1, <1>3, TablesKept DEF TypeOK, TablesOK
<1>5. a \in Working /\ b \in Working /\ overrun' \in [Runner -> Nat]
  BY <1>1 DEF Working, TypeOK, RunnersOK
<1>6. RunnersOK'
  BY <1>1, <1>2, <1>5, RunnersStep DEF TypeOK
<1>7. QED
  BY <1>1, <1>8, <1>4, <1>6 DEF TypeOK, OperatorOK

LEMMA EffectKeyTyped ==
  ASSUME NEW d \in Intent
  PROVE  Effective(d) \in Class /\ EffectKey(d) \in Target \X Class
<1>1. d.class \in Class /\ d.target \in Target
  BY DEF Intent
<1>2. Adapter[d.target] \in Class
  BY <1>1
<1>3. Effective(d) \in Class
  BY <1>1, <1>2 DEF Effective
<1>4. QED
  BY <1>1, <1>3 DEF EffectKey

LEMMA RecordEffectTyped ==
  ASSUME TypeOK, NEW r \in Runner, RecordEffect(r)
  PROVE  TypeOK'
<1>1. /\ UNCHANGED <<now, inForce, seals, paused, resumed, stopped, markers, swallowed,
                     intents, status, observations, chain, called, performed,
                     abandoned, overrun>>
      /\ ledger' \in {ledger, ledger \cup {EffectKey(intents[at[r]])}}
      /\ Step(r, "noted", "settling") /\ lost' \in {lost, lost \cup {at[r]}}
      /\ UNCHANGED mishaps \/ Mishap
  BY DEF RecordEffect, brake
<1>2. intents[at[r]] \in Intent /\ at[r] \in Written
  BY <1>1, AtWritten DEF Working, Step
<1>3. ledger' \subseteq Target \X Class
  BY <1>1, <1>2, EffectKeyTyped DEF TypeOK, TablesOK
<1>4. TablesOK'
  BY <1>1, <1>2, <1>3, TablesKept DEF TypeOK, TablesOK
<1>5. /\ "noted" \in Working /\ "settling" \in Working
      /\ overrun' \in [Runner -> Nat]
  BY <1>1 DEF Working, TypeOK, RunnersOK
<1>6. RunnersOK'
  BY <1>1, <1>5, RunnersStep DEF TypeOK
<1>7. QED
  BY <1>1, <1>4, <1>6, MishapKept DEF TypeOK, OperatorOK

LEMMA CrashTyped ==
  ASSUME TypeOK, NEW r \in Runner, Crash(r)
  PROVE  TypeOK'
<1>1. /\ UNCHANGED <<now, inForce, seals, paused, resumed, stopped, markers, intents,
                     status, observations, ledger, called, performed, overrun,
                     swallowed>>
      /\ Proceed(r, {}) /\ draft' = [draft EXCEPT ![r] = <<>>]
      /\ UNCHANGED mishaps \/ Mishap
  BY DEF Crash, brake, tables
<1>2. lost' \subseteq Written /\ abandoned' \subseteq Written
  <2>1. CASE pc[r] \in Working
    <3>1. at[r] \in Written
      BY <2>1, AtWritten
    <3>2. /\ lost' = lost \/ lost' = lost \cup {at[r]}
          /\ abandoned' = abandoned \/ abandoned' = abandoned \cup {at[r]}
      BY DEF Crash
    <3>3. QED
      BY <3>1, <3>2 DEF TypeOK, TablesOK
  <2>2. CASE pc[r] \notin Working
    BY <2>2 DEF Crash, Held, Working, TypeOK, TablesOK
  <2>3. QED
    BY <2>1, <2>2
<1>3. TablesOK'
  BY <1>1, <1>2, TablesKept DEF TypeOK, TablesOK
<1>4. OperatorOK' /\ Written' = Written
  BY <1>1, MishapKept DEF TypeOK, OperatorOK, Written
<1>5. draft' = [draft EXCEPT ![r] = draft'[r]] /\ draft'[r] \in Seq(Intent)
  BY <1>1 DEF TypeOK, RunnersOK
<1>6. RunnersOK'
  <2>1. {} \in SUBSET Nat /\ {} \subseteq Written' /\ Written \subseteq Written'
    BY <1>4
  <2>2. QED
    BY <1>1, <1>5, <2>1, RunnersProceed DEF TypeOK
<1>7. QED
  BY <1>3, <1>4, <1>6 DEF TypeOK

\* The operator and the clock touch neither the tables nor the runners.
Outside ==
  \/ \E t \in Target : Revoke(t) \/ Seal(t)
  \/ Pause \/ Resume \/ Tick

LEMMA OutsideTyped ==
  ASSUME TypeOK, Outside
  PROVE  TypeOK'
<1>1. /\ UNCHANGED <<intents, status, observations, ledger, pc, at, todo, draft, called,
                     performed, lost, abandoned, swallowed, mishaps>>
      /\ overrun' \in {overrun, [r \in Runner |-> 0]}
  BY DEF Outside, Revoke, Seal, Pause, Resume, Tick, tables, chain, history, faults
<1>2. TablesOK' /\ RunnersOK'
  BY <1>1 DEF TypeOK, TablesOK, RunnersOK, Written
<1>3. OperatorOK'
  <2>1. ASSUME NEW t \in Target, Revoke(t) PROVE OperatorOK'
    <3>1. inForce' \subseteq Target
      BY <2>1 DEF Revoke, TypeOK, OperatorOK
    <3>2. UNCHANGED <<now, seals, paused, resumed, stopped, markers, mishaps>>
      BY <2>1 DEF Revoke, brake, faults
    <3>3. QED
      BY <3>1, <3>2 DEF TypeOK, OperatorOK
  <2>2. ASSUME NEW t \in Target, Seal(t) PROVE OperatorOK'
    <3>1. Minute(now) \in Nat
      BY DEF Minute, TypeOK, OperatorOK
    <3>2. QED
      BY <2>2, <3>1 DEF Seal, brake, faults, TypeOK, OperatorOK
  <2>3. CASE Pause
    BY <2>3 DEF Pause, faults, TypeOK, OperatorOK
  <2>4. CASE Resume
    <3>1. /\ UNCHANGED <<now, inForce, seals, paused, mishaps>>
          /\ resumed' = now /\ markers < MaxMarkers /\ markers' = markers + 1
      BY <2>4 DEF Resume, faults
    <3>2. stopped' \in BOOLEAN
      BY <2>4 DEF Resume
    <3>3. QED
      BY <3>1, <3>2 DEF TypeOK, OperatorOK
  <2>5. CASE Tick
    BY <2>5 DEF Tick, brake, faults, TypeOK, OperatorOK
  <2>6. QED
    BY <2>1, <2>2, <2>3, <2>4, <2>5 DEF Outside
<1>4. QED
  BY <1>2, <1>3 DEF TypeOK

LEMMA TypeStep == TypeOK /\ [Next]_vars => TypeOK'
<1> SUFFICES ASSUME TypeOK, [Next]_vars PROVE TypeOK'
  OBVIOUS
<1>1. ASSUME NEW r \in Runner, NEW t \in Target, NEW c \in Declared, Emit(r, t, c)
      PROVE  TypeOK'
  BY <1>1, EmitTyped
<1>2. ASSUME NEW r \in Runner, Dispatching(r) PROVE TypeOK'
  BY <1>2, RecheckTyped, RefuseTyped, ClaimTyped, LookUpTyped, CallTyped, ObserveTyped,
     RecordEffectTyped, SettleTyped DEF Dispatching
<1>3. ASSUME NEW r \in Runner, Record(r) \/ Drain(r) \/ Crash(r) PROVE TypeOK'
  BY <1>3, RecordTyped, DrainTyped, CrashTyped
<1>4. CASE Outside
  BY <1>4, OutsideTyped
<1>5. CASE UNCHANGED vars
  BY <1>5 DEF vars, brake, tables, chain, history, faults, TypeOK, OperatorOK, TablesOK, RunnersOK, Written
<1>6. QED
  BY <1>1, <1>2, <1>3, <1>4, <1>5 DEF Next, Outside

\* The state keeps its types: only intents that were written have a state row
\* (if its insertion succeeded), an observation or an effect, and a runner is
\* at work on one of them.
THEOREM TypeCorrect == Spec => []TypeOK
<1>1. Init => TypeOK
  <2> SUFFICES ASSUME Init PROVE TypeOK
    OBVIOUS
  <2>1. OperatorOK
    <3>1. stopped \in BOOLEAN
      BY DEF Init
    <3>2. QED
      BY <3>1 DEF Init, OperatorOK
  <2>2. TablesOK
    BY DEF Init, TablesOK, Written, Id
  <2>3. RunnersOK
    BY DEF Init, RunnersOK, Phase, Working
  <2>4. QED
    BY <2>1, <2>2, <2>3 DEF TypeOK
<1>2. QED
  BY <1>1, TypeStep, PTL DEF Spec

-----------------------------------------------------------------------------
(* What each action does to its runner and to the tables, without Step and *)
(* Proceed.                                                                *)

Stays(r) == \A q \in Runner : q # r => pc'[q] = pc[q] /\ at'[q] = at[q]

LEMMA StepMoves ==
  ASSUME TypeOK, NEW r \in Runner, NEW a, NEW b \in Phase, Step(r, a, b), UNCHANGED at
  PROVE  Stays(r) /\ pc[r] = a /\ pc'[r] = b /\ at'[r] = at[r]
  BY StepKeeps DEF Stays, TypeOK

LEMMA ProceedMoves ==
  ASSUME TypeOK, NEW r \in Runner, NEW s \in SUBSET Nat, Proceed(r, s)
  PROVE  Stays(r) /\ pc'[r] \in {"idle", "recheck"}
  BY ProceedKeeps DEF Stays, TypeOK

LEMMA TodoNat ==
  ASSUME TypeOK, NEW r \in Runner
  PROVE  todo[r] \in SUBSET Nat
  BY DEF TypeOK, RunnersOK, Written

LEMMA EmitMoves ==
  ASSUME TypeOK, NEW r \in Runner, NEW t \in Target, NEW c \in Declared, Emit(r, t, c)
  PROVE  /\ Stays(r) /\ pc[r] = "idle" /\ pc'[r] = "writing"
         /\ UNCHANGED <<now, seals, paused, resumed, stopped, intents, status,
                        observations, ledger, at, called, performed, lost, abandoned,
                        overrun, swallowed>>
<1>1. Step(r, "idle", "writing") /\ UNCHANGED at /\ "writing" \in Phase
  BY DEF Emit, Phase
<1>2. QED
  BY <1>1, StepMoves DEF Emit, brake, tables, history

LEMMA RecordMoves ==
  ASSUME TypeOK, NEW r \in Runner, Record(r)
  PROVE  /\ Stays(r) /\ pc[r] = "writing" /\ pc'[r] \in {"idle", "recheck"}
         /\ Len(intents) + 1 \in Id \ Written
         /\ Written' = Written \cup {Len(intents) + 1}
         /\ intents'[Len(intents) + 1] = draft[r][1]
         /\ \A i \in Written : intents'[i] = intents[i] /\ status'[i] = status[i]
         /\ status'[Len(intents) + 1] \in {"validated", "none"}
         /\ draft' = [draft EXCEPT ![r] = <<>>]
         /\ UNCHANGED <<now, seals, paused, resumed, stopped, observations, ledger,
                        called, performed, lost, abandoned, overrun, swallowed>>
<1> DEFINE n == Len(intents) + 1
<1>1. /\ pc[r] = "writing" /\ Len(intents) < MaxIntents
      /\ intents' = Append(intents, draft[r][1])
      /\ status' \in {status, [status EXCEPT ![n] = "validated"]}
      /\ draft' = [draft EXCEPT ![r] = <<>>]
      /\ Proceed(r, {n}) \/ Proceed(r, {})
      /\ UNCHANGED <<now, seals, paused, resumed, stopped, observations, ledger,
                     called, performed, lost, abandoned, overrun, swallowed>>
  BY DEF Record, brake, history, faults
<1>2. intents \in Seq(Intent) /\ Len(intents) \in Nat /\ n \in Id \ Written
  BY <1>1 DEF TypeOK, TablesOK, Id, Written
<1>3. draft[r][1] \in Intent
  BY <1>1 DEF TypeOK, RunnersOK
<1>4. /\ Written' = Written \cup {n} /\ intents'[n] = draft[r][1]
      /\ \A i \in Written : intents'[i] = intents[i]
  BY <1>1, <1>2, <1>3 DEF Written
<1>5. status'[n] \in {"validated", "none"} /\ \A i \in Written : status'[i] = status[i]
  BY <1>1, <1>2 DEF TypeOK, TablesOK, Written, Id
<1>6. Stays(r) /\ pc'[r] \in {"idle", "recheck"}
  <2>1. {n} \in SUBSET Nat /\ {} \in SUBSET Nat
    BY <1>2
  <2>2. QED
    BY <1>1, <2>1, ProceedMoves
<1>7. QED
  BY <1>1, <1>2, <1>4, <1>5, <1>6

LEMMA DrainMoves ==
  ASSUME TypeOK, NEW r \in Runner, Drain(r)
  PROVE  /\ Stays(r) /\ pc[r] = "idle" /\ pc'[r] \in {"idle", "recheck"}
         /\ UNCHANGED <<now, seals, paused, resumed, stopped, intents, status,
                        observations, ledger, draft, called, performed, lost, abandoned,
                        overrun, swallowed>>
<1>1. PICK s \in SUBSET Written : Proceed(r, s)
  BY DEF Drain
<1>2. s \in SUBSET Nat
  BY DEF Written
<1>3. QED
  BY <1>1, <1>2, ProceedMoves DEF Drain, brake, tables, history, faults

LEMMA RecheckMoves ==
  ASSUME TypeOK, NEW r \in Runner, Recheck(r)
  PROVE  /\ Stays(r) /\ pc[r] = "recheck" /\ pc'[r] \in {"cleared", "refused"}
         /\ pc'[r] = "cleared" =>
              /\ Authorised(intents[at[r]], Effective(intents[at[r]]))
              /\ ~IsPaused \/ at[r] \in swallowed'.brake
         /\ OnlyMarks(r, "brake")
         /\ UNCHANGED <<now, seals, paused, resumed, stopped, intents, status,
                        observations, ledger, at, draft, called, performed, lost,
                        abandoned, overrun>>
<1>1. UNCHANGED <<now, seals, paused, resumed, stopped, intents, status, observations,
                  ledger, at, draft, called, performed, lost, abandoned, overrun>>
  BY DEF Recheck, brake, tables, chain, history
<1>2. "cleared" \in Phase /\ "refused" \in Phase
  BY DEF Phase, Working
<1>3. CASE /\ Step(r, "recheck", "cleared")
           /\ Authorised(intents[at[r]], Effective(intents[at[r]]))
           /\ (~IsPaused /\ UNCHANGED faults) \/ (IsPaused /\ Swallow("brake", at[r]))
  <2>1. Stays(r) /\ pc[r] = "recheck" /\ pc'[r] = "cleared"
    BY <1>1, <1>2, <1>3, StepMoves
  <2>2. at[r] \in Written /\ "brake" \in Swallowable
    BY <2>1, AtWritten DEF Working, Swallowable
  <2>3. OnlyMarks(r, "brake")
    BY <1>3, <2>2, FaultsKept
  <2>4. ~IsPaused \/ at[r] \in swallowed'.brake
    BY <1>3, <2>2 DEF Swallow, TypeOK, TablesOK
  <2>5. QED
    BY <1>1, <1>3, <2>1, <2>3, <2>4
<1>4. CASE Step(r, "recheck", "refused") /\ UNCHANGED faults
  <2>1. Stays(r) /\ pc[r] = "recheck" /\ pc'[r] = "refused"
    BY <1>1, <1>2, <1>4, StepMoves
  <2>2. OnlyMarks(r, "brake")
    BY <1>4 DEF faults, OnlyMarks
  <2>3. QED
    BY <1>1, <2>1, <2>2
<1>5. QED
  BY <1>3, <1>4 DEF Recheck

LEMMA RefuseMoves ==
  ASSUME TypeOK, NEW r \in Runner, Refuse(r)
  PROVE  /\ Stays(r) /\ pc[r] = "refused" /\ pc'[r] \in {"idle", "recheck"}
         /\ at[r] \in Written /\ status'[at[r]] \in {"failed", status[at[r]]}
         /\ \A i \in Id : i # at[r] => status'[i] = status[i]
         /\ UNCHANGED <<now, seals, paused, resumed, stopped, intents, observations,
                        ledger, draft, called, performed, lost, abandoned, overrun, swallowed>>
<1>1. /\ pc[r] = "refused" /\ Proceed(r, todo[r])
      /\ status' = [status EXCEPT ![at[r]] = "failed"] \/ UNCHANGED status
      /\ UNCHANGED <<now, seals, paused, resumed, stopped, intents, observations,
                     ledger, draft, called, performed, lost, abandoned, overrun, swallowed>>
  BY DEF Refuse, brake, history, faults
<1>2. at[r] \in Written
  BY <1>1, AtWritten DEF Working
<1>3. status'[at[r]] \in {"failed", status[at[r]]} /\ \A i \in Id : i # at[r] => status'[i] = status[i]
  BY <1>1, <1>2, StatusSet DEF TypeOK
<1>4. QED
  BY <1>1, <1>2, <1>3, TodoNat, ProceedMoves

\* Whoever claims finds the intent still validated.
LEMMA ClaimMoves ==
  ASSUME TypeOK, NEW r \in Runner, Claim(r)
  PROVE  /\ Stays(r) /\ pc[r] = "cleared" /\ at[r] \in Written
         /\ \/ /\ pc'[r] = "claimed" /\ at'[r] = at[r] /\ status[at[r]] = "validated"
               /\ status'[at[r]] = "dispatched"
               /\ \A i \in Id : i # at[r] => status'[i] = status[i]
            \/ /\ pc'[r] \in {"idle", "recheck"} /\ UNCHANGED status
         /\ UNCHANGED <<now, seals, paused, resumed, stopped, intents, observations,
                        ledger, draft, called, performed, lost, abandoned, overrun, swallowed>>
<1>1. /\ pc[r] = "cleared"
      /\ UNCHANGED <<now, seals, paused, resumed, stopped, intents, observations,
                     ledger, draft, called, performed, lost, abandoned, overrun, swallowed>>
  BY DEF Claim, brake, history, faults
<1>2. at[r] \in Written
  BY <1>1, AtWritten DEF Working
<1>3. CASE /\ status[at[r]] = "validated" /\ Step(r, "cleared", "claimed")
           /\ status' = [status EXCEPT ![at[r]] = "dispatched"] /\ UNCHANGED <<at, todo>>
  <2>1. "claimed" \in Phase
    BY DEF Phase, Working
  <2>2. Stays(r) /\ pc'[r] = "claimed" /\ at'[r] = at[r]
    BY <1>3, <2>1, StepMoves
  <2>3. /\ status'[at[r]] = "dispatched"
        /\ \A i \in Id : i # at[r] => status'[i] = status[i]
    BY <1>2, <1>3, StatusSet DEF TypeOK
  <2>4. QED
    BY <1>1, <1>2, <1>3, <2>2, <2>3
<1>4. CASE Proceed(r, todo[r]) /\ UNCHANGED status
  BY <1>1, <1>2, <1>4, TodoNat, ProceedMoves
<1>5. QED
  BY <1>3, <1>4 DEF Claim

\* The observation of what a runner has comes to the table, or not, unnoticed.
Noting(r) ==
  /\ observations' \in {observations, observations \cup {at[r]}}
  /\ OnlyMarks(r, "observation")
  /\ at[r] \in observations' \cup swallowed'.observation

LEMMA NoteMoves ==
  ASSUME TypeOK, NEW r \in Runner, at[r] \in Written, Note(r)
  PROVE  Noting(r)
<1>1. "observation" \in Swallowable
  BY DEF Swallowable
<1>2. OnlyMarks(r, "observation")
  BY <1>1, FaultsKept DEF Note
<1>3. CASE observations' = observations \cup {at[r]} /\ UNCHANGED faults
  BY <1>2, <1>3 DEF Noting
<1>4. CASE UNCHANGED observations /\ Swallow("observation", at[r])
  <2>1. at[r] \in swallowed'.observation
    BY <1>1, <1>4 DEF Swallow, TypeOK, TablesOK
  <2>2. QED
    BY <1>2, <1>4, <2>1 DEF Noting
<1>5. QED
  BY <1>3, <1>4 DEF Note

LEMMA LookUpMoves ==
  ASSUME TypeOK, NEW r \in Runner, LookUp(r)
  PROVE  /\ Stays(r) /\ pc[r] = "claimed" /\ at'[r] = at[r] /\ at[r] \in Written
         /\ \/ /\ pc'[r] = "settling" /\ Noting(r)
            \/ /\ pc'[r] = "calling" /\ UNCHANGED observations /\ OnlyMarks(r, "lookup")
               /\ \/ Effective(intents[at[r]]) = Low
                  \/ EffectKey(intents[at[r]]) \notin ledger
                  \/ at[r] \in swallowed'.lookup
         /\ UNCHANGED <<now, seals, paused, resumed, stopped, intents, status, ledger, at,
                        draft, called, performed, lost, abandoned, overrun>>
<1>1. /\ pc[r] = "claimed"
      /\ UNCHANGED <<now, seals, paused, resumed, stopped, intents, status, ledger, at,
                     draft, called, performed, lost, abandoned, overrun>>
  BY DEF LookUp, brake, chain, history
<1>2. at[r] \in Written /\ "settling" \in Phase /\ "calling" \in Phase
  BY <1>1, AtWritten DEF Working, Phase
<1> DEFINE inLedger == /\ Effective(intents[at[r]]) > Low
                       /\ EffectKey(intents[at[r]]) \in ledger
<1>3. CASE Step(r, "claimed", "settling") /\ Note(r)
  <2>1. Stays(r) /\ pc'[r] = "settling" /\ at'[r] = at[r]
    BY <1>1, <1>2, <1>3, StepMoves
  <2>2. QED
    BY <1>1, <1>2, <1>3, <2>1, NoteMoves
<1>4. CASE /\ Step(r, "claimed", "calling") /\ UNCHANGED observations
           /\ (~inLedger /\ UNCHANGED faults) \/ (inLedger /\ Swallow("lookup", at[r]))
  <2>1. Stays(r) /\ pc'[r] = "calling" /\ at'[r] = at[r]
    BY <1>1, <1>2, <1>4, StepMoves
  <2>2. OnlyMarks(r, "lookup")
    BY <1>2, <1>4, FaultsKept DEF Swallowable
  <2>3. ~inLedger \/ at[r] \in swallowed'.lookup
    <3>1. "lookup" \in Swallowable
      BY DEF Swallowable
    <3>2. QED
      BY <1>4, <3>1 DEF Swallow, TypeOK, TablesOK
  <2>4. Effective(intents[at[r]]) \in Class
    <3>1. intents[at[r]] \in Intent
      BY <1>1, AtWritten DEF Working
    <3>2. QED
      BY <3>1 DEF Effective, Intent
  <2>5. QED
    BY <1>1, <1>2, <1>4, <2>1, <2>2, <2>3, <2>4
<1>5. QED
  BY <1>3, <1>4 DEF LookUp

LEMMA CallMoves ==
  ASSUME TypeOK, NEW r \in Runner, NEW how \in Outcome, Call(r, how)
  PROVE  /\ Stays(r) /\ pc[r] = "calling" /\ at'[r] = at[r] /\ at[r] \in Written
         /\ called' = called \cup {at[r]}
         /\ \/ pc'[r] = "done" /\ performed' = performed \cup {at[r]} /\ UNCHANGED lost
            \/ pc'[r] = "failed" /\ UNCHANGED <<performed, lost>>
            \/ /\ pc'[r] = "failed" /\ performed' = performed \cup {at[r]}
               /\ lost' = lost \cup {at[r]}
         /\ \/ overrun' = overrun
            \/ /\ stopped /\ at[r] \notin swallowed.brake
               /\ overrun' = [overrun EXCEPT ![r] = @ + 1]
         /\ UNCHANGED <<now, seals, paused, resumed, stopped, intents, status,
                        observations, ledger, at, draft, abandoned, swallowed>>
<1>1. /\ pc[r] = "calling" /\ called' = called \cup {at[r]}
      /\ \/ overrun' = overrun
         \/ /\ stopped /\ at[r] \notin swallowed.brake
            /\ overrun' = [overrun EXCEPT ![r] = @ + 1]
      /\ UNCHANGED <<now, seals, paused, resumed, stopped, intents, status,
                     observations, ledger, at, draft, abandoned, swallowed>>
  BY DEF Call, brake, tables, chain, faults, Step
<1>2. at[r] \in Written /\ "done" \in Phase /\ "failed" \in Phase
  BY <1>1, AtWritten DEF Working, Phase
<1>3. how \in {"done", "failed", "failed_late"}
  OBVIOUS
<1>4. CASE how = "done"
  <2>1. Step(r, "calling", "done") /\ performed' = performed \cup {at[r]} /\ UNCHANGED lost
    BY <1>4 DEF Call
  <2>2. Stays(r) /\ pc'[r] = "done" /\ at'[r] = at[r]
    BY <1>1, <1>2, <2>1, StepMoves
  <2>3. QED
    BY <1>1, <1>2, <2>1, <2>2
<1>5. CASE how = "failed"
  <2>1. Step(r, "calling", "failed") /\ UNCHANGED <<performed, lost>>
    BY <1>5 DEF Call
  <2>2. Stays(r) /\ pc'[r] = "failed" /\ at'[r] = at[r]
    BY <1>1, <1>2, <2>1, StepMoves
  <2>3. QED
    BY <1>1, <1>2, <2>1, <2>2
<1>6. CASE how = "failed_late"
  <2>1. /\ Step(r, "calling", "failed") /\ performed' = performed \cup {at[r]}
        /\ lost' = lost \cup {at[r]}
    BY <1>6 DEF Call
  <2>2. Stays(r) /\ pc'[r] = "failed" /\ at'[r] = at[r]
    BY <1>1, <1>2, <2>1, StepMoves
  <2>3. QED
    BY <1>1, <1>2, <2>1, <2>2
<1>7. QED
  BY <1>3, <1>4, <1>5, <1>6

LEMMA ObserveMoves ==
  ASSUME TypeOK, NEW r \in Runner, Observe(r)
  PROVE  /\ Stays(r) /\ at'[r] = at[r] /\ at[r] \in Written
         /\ \/ pc[r] = "done" /\ pc'[r] = "noted"
            \/ pc[r] = "failed" /\ pc'[r] = "noted_failed"
         /\ Noting(r)
         /\ UNCHANGED <<now, seals, paused, resumed, stopped, intents, status, ledger, at,
                        draft, called, performed, lost, abandoned, overrun>>
<1>1. /\ UNCHANGED <<now, seals, paused, resumed, stopped, intents, status, ledger, at,
                     draft, called, performed, lost, abandoned, overrun>>
      /\ Note(r)
  BY DEF Observe, brake, chain, history
<1>2. "noted" \in Phase /\ "noted_failed" \in Phase
  BY DEF Working, Phase
<1>3. PICK p \in {<<"done", "noted">>, <<"failed", "noted_failed">>} : Step(r, p[1], p[2])
  BY DEF Observe
<1>4. Stays(r) /\ pc[r] = p[1] /\ pc'[r] = p[2] /\ at'[r] = at[r]
  BY <1>1, <1>2, <1>3, StepMoves
<1>5. at[r] \in Written
  BY <1>4, AtWritten DEF Working
<1>6. QED
  BY <1>1, <1>4, <1>5, NoteMoves

LEMMA RecordEffectMoves ==
  ASSUME TypeOK, NEW r \in Runner, RecordEffect(r)
  PROVE  /\ Stays(r) /\ at'[r] = at[r] /\ at[r] \in Written
         /\ pc[r] = "noted" /\ pc'[r] = "settling"
         /\ ledger \subseteq ledger'
         /\ \/ Effective(intents[at[r]]) = Low \/ EffectKey(intents[at[r]]) \in ledger'
            \/ at[r] \in lost'
         /\ lost' \in {lost, lost \cup {at[r]}}
         /\ UNCHANGED <<now, seals, paused, resumed, stopped, intents, status,
                        observations, at, draft, called, performed, abandoned, overrun,
                        swallowed>>
<1>1. /\ UNCHANGED <<now, seals, paused, resumed, stopped, intents, status, observations,
                     at, draft, called, performed, abandoned, overrun, swallowed>>
      /\ Step(r, "noted", "settling")
  BY DEF RecordEffect, brake, chain, history
<1>2. "settling" \in Phase
  BY DEF Working, Phase
<1>3. Stays(r) /\ pc[r] = "noted" /\ pc'[r] = "settling" /\ at'[r] = at[r]
  BY <1>1, <1>2, StepMoves
<1>4. at[r] \in Written
  BY <1>3, AtWritten DEF Working
<1>5. /\ ledger \subseteq ledger'
      /\ \/ Effective(intents[at[r]]) = Low \/ EffectKey(intents[at[r]]) \in ledger'
         \/ at[r] \in lost'
      /\ lost' \in {lost, lost \cup {at[r]}}
  <2> DEFINE d == intents[at[r]]
  <2>1. CASE /\ ledger' = IF Effective(d) = Low THEN ledger ELSE ledger \cup {EffectKey(d)}
             /\ lost' = lost
    BY <2>1
  <2>2. CASE lost' = lost \cup {at[r]} /\ UNCHANGED ledger
    BY <2>2
  <2>3. QED
    BY <2>1, <2>2 DEF RecordEffect
<1>6. QED
  BY <1>1, <1>3, <1>4, <1>5

LEMMA SettleMoves ==
  ASSUME TypeOK, NEW r \in Runner, Settle(r)
  PROVE  /\ Stays(r) /\ pc[r] \in {"settling", "noted_failed"}
         /\ pc'[r] \in {"idle", "recheck"}
         /\ at[r] \in Written /\ OnlyMarks(r, "outcome")
         /\ \/ status'[at[r]] \in {"observed", "failed"}
            \/ UNCHANGED status /\ at[r] \in swallowed'.outcome
         /\ \A i \in Id : i # at[r] => status'[i] = status[i]
         /\ UNCHANGED <<now, seals, paused, resumed, stopped, intents, observations,
                        ledger, draft, called, performed, lost, abandoned, overrun>>
<1>1. /\ pc[r] \in {"settling", "noted_failed"} /\ Proceed(r, todo[r])
      /\ UNCHANGED <<now, seals, paused, resumed, stopped, intents, observations,
                     ledger, draft, called, performed, lost, abandoned, overrun>>
  BY DEF Settle, brake, history
<1>2. at[r] \in Written /\ "outcome" \in Swallowable
  BY <1>1, AtWritten DEF Working, Swallowable
<1>3. OnlyMarks(r, "outcome")
  BY <1>2, FaultsKept DEF Settle
<1>4. ASSUME NEW v \in {"observed", "failed"}, status' = [status EXCEPT ![at[r]] = v]
      PROVE  /\ status'[at[r]] \in {"observed", "failed"}
             /\ \A i \in Id : i # at[r] => status'[i] = status[i]
  BY <1>2, <1>4, StatusSet DEF TypeOK
<1>5. ASSUME Swallow("outcome", at[r]) PROVE at[r] \in swallowed'.outcome
  BY <1>2, <1>5 DEF Swallow, TypeOK, TablesOK
<1>6. /\ \/ status'[at[r]] \in {"observed", "failed"}
         \/ UNCHANGED status /\ at[r] \in swallowed'.outcome
      /\ \A i \in Id : i # at[r] => status'[i] = status[i]
  BY <1>4, <1>5 DEF Settle
<1>7. QED
  BY <1>1, <1>2, <1>3, <1>6, TodoNat, ProceedMoves

LEMMA CrashMoves ==
  ASSUME TypeOK, NEW r \in Runner, Crash(r)
  PROVE  /\ Stays(r) /\ pc'[r] \in {"idle", "recheck"}
         /\ draft' = [draft EXCEPT ![r] = <<>>]
         /\ lost' = IF pc[r] \in {"done", "noted"} THEN lost \cup {at[r]} ELSE lost
         /\ abandoned' = IF Held(r) THEN abandoned \cup {at[r]} ELSE abandoned
         /\ UNCHANGED <<now, seals, paused, resumed, stopped, intents, status,
                        observations, ledger, called, performed, overrun, swallowed>>
<1>1. Proceed(r, {}) /\ {} \in SUBSET Nat
  BY DEF Crash
<1>2. QED
  BY <1>1, ProceedMoves DEF Crash, brake, tables

LEMMA OutsideMoves ==
  ASSUME TypeOK, Outside \/ UNCHANGED vars
  PROVE  /\ seals \subseteq seals'
         /\ UNCHANGED <<intents, status, observations, ledger, pc, at, draft, called,
                        performed, lost, abandoned, swallowed>>
  BY DEF Outside, Revoke, Seal, Pause, Resume, Tick, vars, brake, tables, chain, history, faults

\* Next, runner by runner.
Runs(r) ==
  \/ \E t \in Target, c \in Declared : Emit(r, t, c)
  \/ Record(r) \/ Drain(r) \/ Dispatching(r) \/ Crash(r)

LEMMA NextSplit ==
  ASSUME [Next]_vars
  PROVE  (\E r \in Runner : Runs(r)) \/ Outside \/ UNCHANGED vars
  BY DEF Next, Runs, Outside

-----------------------------------------------------------------------------
(* The claim.                                                              *)

\* The claim is exclusive because whoever holds an intent, and whoever called
\* for it, has left its row in another state than the one a claim asks for.
Claimed ==
  /\ AdapterOncePerIntent
  /\ \A r \in Runner : Held(r) => status[at[r]] # "validated"
  /\ \A i \in called : status[i] # "validated"

\* Steps that claim nothing, call nothing and put nothing back.
Unclaiming ==
  /\ \A q \in Runner : Held(q)' =>
       /\ Held(q) /\ at'[q] = at[q]
       /\ pc'[q] \in {"claimed", "calling"} => pc[q] \in {"claimed", "calling"}
  /\ \A i \in Written : status'[i] = "validated" => status[i] = "validated"
  /\ called' = called

LEMMA UnclaimingKeeps ==
  ASSUME TypeOK, Claimed, Unclaiming
  PROVE  Claimed'
<1>1. ASSUME NEW q \in Runner, Held(q)'
      PROVE  /\ Held(q) /\ at'[q] = at[q] /\ at[q] \in Written
             /\ pc'[q] \in {"claimed", "calling"} => at'[q] \notin called'
             /\ status'[at'[q]] # "validated"
  <2>1. Held(q) /\ at'[q] = at[q]
    BY <1>1 DEF Unclaiming
  <2>2. at[q] \in Written
    BY <2>1, AtWritten DEF Held, Working
  <2>3. QED
    BY <1>1, <2>1, <2>2 DEF Unclaiming, Claimed, AdapterOncePerIntent
<1>2. ASSUME NEW q \in Runner, Held(q)', NEW s \in Runner, Held(s)', at'[s] = at'[q]
      PROVE  s = q
  BY <1>1, <1>2 DEF Claimed, AdapterOncePerIntent
<1>3. ASSUME NEW i \in called' PROVE status'[i] # "validated"
  BY <1>3 DEF Unclaiming, Claimed, TypeOK, TablesOK
<1>4. QED
  BY <1>1, <1>2, <1>3 DEF Claimed, AdapterOncePerIntent

LEMMA ClaimKeepsClaimed ==
  ASSUME TypeOK, Claimed, NEW r \in Runner, Claim(r)
  PROVE  Claimed'
<1>1. CASE /\ pc'[r] = "claimed" /\ at'[r] = at[r] /\ status[at[r]] = "validated"
           /\ status'[at[r]] = "dispatched"
           /\ \A i \in Id : i # at[r] => status'[i] = status[i]
  <2>1. Stays(r) /\ at[r] \in Written /\ UNCHANGED called
    BY ClaimMoves
  <2>2. ASSUME NEW q \in Runner, q # r, Held(q)'
        PROVE  Held(q) /\ at'[q] = at[q] /\ at[q] \in Id /\ at[q] # at[r]
    <3>1. Held(q) /\ at'[q] = at[q]
      BY <2>1, <2>2 DEF Stays, Held
    <3>2. at[q] \in Id
      BY <3>1, AtWritten DEF Held, Working
    <3>3. QED
      BY <1>1, <3>1, <3>2 DEF Claimed
  <2>3. at[r] \notin called
    BY <1>1 DEF Claimed
  <2>4. ASSUME NEW q \in Runner, Held(q)'
        PROVE  /\ pc'[q] \in {"claimed", "calling"} => at'[q] \notin called'
               /\ status'[at'[q]] # "validated"
               /\ \A s \in Runner : Held(s)' /\ at'[s] = at'[q] => s = q
    <3>1. CASE q = r
      BY <1>1, <2>1, <2>2, <2>3, <3>1
    <3>2. CASE q # r
      <4>1. Held(q) /\ at'[q] = at[q] /\ at[q] \in Id /\ at[q] # at[r]
        BY <2>2, <2>4, <3>2
      <4>2. pc'[q] = pc[q]
        BY <2>1, <3>2 DEF Stays
      <4>3. ASSUME NEW s \in Runner, Held(s)', at'[s] = at'[q] PROVE s = q
        <5>1. s # r
          BY <1>1, <4>1, <4>3
        <5>2. Held(s) /\ at'[s] = at[s]
          BY <2>2, <4>3, <5>1
        <5>3. QED
          BY <4>1, <4>3, <5>2 DEF Claimed, AdapterOncePerIntent
      <4>4. QED
        BY <1>1, <2>1, <4>1, <4>2, <4>3 DEF Claimed, AdapterOncePerIntent
    <3>3. QED
      BY <3>1, <3>2
  <2>5. ASSUME NEW i \in called' PROVE status'[i] # "validated"
    <3>1. i \in called /\ i \in Id
      BY <2>1, <2>5 DEF TypeOK, TablesOK, Written, Id
    <3>2. QED
      BY <1>1, <3>1 DEF Claimed
  <2>6. QED
    BY <2>4, <2>5 DEF Claimed, AdapterOncePerIntent
<1>2. CASE pc'[r] \in {"idle", "recheck"} /\ UNCHANGED status
  <2>1. Unclaiming
    BY <1>2, ClaimMoves DEF Unclaiming, Held, Stays
  <2>2. QED
    BY <2>1, UnclaimingKeeps
<1>3. QED
  BY <1>1, <1>2, ClaimMoves

LEMMA CallKeepsClaimed ==
  ASSUME TypeOK, Claimed, NEW r \in Runner, NEW how \in Outcome, Call(r, how)
  PROVE  Claimed'
<1>1. /\ Stays(r) /\ pc[r] = "calling" /\ at'[r] = at[r]
      /\ called' = called \cup {at[r]} /\ pc'[r] \in {"done", "failed"}
      /\ UNCHANGED <<status, at>>
  BY CallMoves
<1>2. ASSUME NEW q \in Runner, Held(q)' PROVE Held(q)
  BY <1>1, <1>2 DEF Held, Stays
<1>3. ASSUME NEW q \in Runner, Held(q)', pc'[q] \in {"claimed", "calling"}
      PROVE  at[q] \notin called'
  <2>1. q # r /\ pc'[q] = pc[q] /\ Held(q) /\ Held(r)
    BY <1>1, <1>2, <1>3 DEF Stays, Held
  <2>2. at[q] # at[r] /\ at[q] \notin called
    BY <1>3, <2>1 DEF Claimed, AdapterOncePerIntent
  <2>3. QED
    BY <1>1, <2>2
<1>4. ASSUME NEW i \in called' PROVE status'[i] # "validated"
  BY <1>1, <1>4 DEF Claimed, Held
<1>5. QED
  BY <1>1, <1>2, <1>3, <1>4 DEF Claimed, AdapterOncePerIntent

\* Between two dispatches a runner holds nothing, and a settled intent is not
\* put back.
LEMMA SettlingUnclaims ==
  ASSUME TypeOK, NEW r \in Runner, Stays(r), pc'[r] \in {"idle", "recheck"},
         at[r] \in Written,
         status'[at[r]] # "validated" \/ status'[at[r]] = status[at[r]],
         \A i \in Id : i # at[r] => status'[i] = status[i],
         called' = called
  PROVE  Unclaiming
<1>1. ~Held(r)'
  BY DEF Held
<1>2. ASSUME NEW q \in Runner, Held(q)'
      PROVE  Held(q) /\ at'[q] = at[q] /\ pc'[q] = pc[q]
  BY <1>1, <1>2 DEF Stays, Held
<1>3. Written \subseteq Id
  BY DEF Written, Id, TypeOK, TablesOK
<1>4. ASSUME NEW i \in Written, status'[i] = "validated" PROVE status[i] = "validated"
  BY <1>3, <1>4
<1>5. QED
  BY <1>2, <1>4 DEF Unclaiming

LEMMA ClaimedStep == TypeOK /\ Claimed /\ [Next]_vars => Claimed'
<1> SUFFICES ASSUME TypeOK, Claimed, [Next]_vars PROVE Claimed'
  OBVIOUS
<1>1. ASSUME NEW r \in Runner, NEW t \in Target, NEW c \in Declared, Emit(r, t, c)
      PROVE  Unclaiming
  BY <1>1, EmitMoves DEF Unclaiming, Held, Stays
<1>2. ASSUME NEW r \in Runner, Record(r) PROVE Unclaiming
  BY <1>2, RecordMoves DEF Unclaiming, Held, Stays
<1>3. ASSUME NEW r \in Runner, Drain(r) PROVE Unclaiming
  BY <1>3, DrainMoves DEF Unclaiming, Held, Stays
<1>4. ASSUME NEW r \in Runner, Recheck(r) PROVE Unclaiming
  BY <1>4, RecheckMoves DEF Unclaiming, Held, Stays
<1>5. ASSUME NEW r \in Runner, Refuse(r) PROVE Unclaiming
  BY <1>5, RefuseMoves, SettlingUnclaims
<1>6. ASSUME NEW r \in Runner, LookUp(r) PROVE Unclaiming
  BY <1>6, LookUpMoves DEF Unclaiming, Held, Stays
<1>7. ASSUME NEW r \in Runner, Observe(r) PROVE Unclaiming
  BY <1>7, ObserveMoves DEF Unclaiming, Held, Stays
<1>8. ASSUME NEW r \in Runner, RecordEffect(r) PROVE Unclaiming
  BY <1>8, RecordEffectMoves DEF Unclaiming, Held, Stays
<1>9. ASSUME NEW r \in Runner, Settle(r) PROVE Unclaiming
  BY <1>9, SettleMoves, SettlingUnclaims
<1>10. ASSUME NEW r \in Runner, Crash(r) PROVE Unclaiming
  BY <1>10, CrashMoves DEF Unclaiming, Held, Stays
<1>11. ASSUME Outside \/ UNCHANGED vars PROVE Unclaiming
  BY <1>11, OutsideMoves DEF Unclaiming, Held
<1>12. ASSUME NEW r \in Runner, Runs(r) PROVE Claimed'
  BY <1>1, <1>2, <1>3, <1>4, <1>5, <1>6, <1>7, <1>8, <1>9, <1>10, <1>12,
     UnclaimingKeeps, ClaimKeepsClaimed, CallKeepsClaimed DEF Runs, Dispatching
<1>13. QED
  BY <1>11, <1>12, NextSplit, UnclaimingKeeps

\* However many runners race for an intent, one holds it past the claim and
\* calls its adapter once: claimIntent's update asks for the validated row
\* (state.js:3628), and no later write of any runner restores that state.
THEOREM ClaimExclusive == Spec => []AdapterOncePerIntent
<1>1. Init => Claimed
  BY DEF Init, Claimed, AdapterOncePerIntent, Held
<1>2. Claimed => AdapterOncePerIntent
  BY DEF Claimed
<1>3. QED
  BY <1>1, <1>2, TypeCorrect, ClaimedStep, PTL DEF Spec

-----------------------------------------------------------------------------
(* Outcomes.                                                               *)

\* AccountedFor, and how it comes about: the observation is written before the
\* state row.
Noted(r) ==
  pc[r] \in {"noted", "noted_failed", "settling"} =>
    at[r] \in observations \cup swallowed.observation

Accounted == AccountedFor /\ \A r \in Runner : Noted(r)

\* Intent i has an outcome, and an observation if its adapter was called, but
\* for the writes that failed.
Concluded(i) ==
  /\ status[i] = "dispatched" => i \in swallowed.outcome
  /\ i \in called => i \in observations \cup swallowed.observation

\* The failures of these writes that happened stay so.
Marked ==
  /\ swallowed.outcome \subseteq swallowed'.outcome
  /\ swallowed.observation \subseteq swallowed'.observation

LEMMA OnlyMarksMarked ==
  ASSUME NEW r \in Runner, NEW step \in Swallowable,
         OnlyMarks(r, step) \/ UNCHANGED swallowed
  PROVE  Marked /\ (step # "outcome" => swallowed'.outcome = swallowed.outcome)
  BY DEF OnlyMarks, Marked, Swallowable

\* A step of r leaves i in r's hands, or concluded, or does it no harm.
Kept(r, i) ==
  \/ Held(r)' /\ at'[r] = i
  \/ Concluded(i)'
  \/ /\ i \in Written \ abandoned /\ ~(Held(r) /\ at[r] = i)
     /\ Concluded(i) => Concluded(i)'

LEMMA AccountedKept ==
  ASSUME TypeOK, Accounted, NEW r \in Runner, Stays(r),
         observations \subseteq observations', Marked, Noted(r)',
         \A i \in Written' \ abandoned' : Kept(r, i)
  PROVE  Accounted'
<1>1. \A q \in Runner : q # r => pc'[q] = pc[q] /\ at'[q] = at[q] /\ Held(q)' = Held(q)
  BY DEF Stays, Held
<1>2. \A q \in Runner : Noted(q)'
  BY <1>1 DEF Accounted, Noted, Marked
<1>3. ASSUME NEW i \in Written' \ abandoned'
      PROVE  (\E q \in Runner : Held(q)' /\ at'[q] = i) \/ Concluded(i)'
  <2>1. CASE /\ i \in Written \ abandoned /\ ~(Held(r) /\ at[r] = i)
             /\ Concluded(i) => Concluded(i)'
    <3>1. (\E q \in Runner : Held(q) /\ at[q] = i) \/ Concluded(i)
      BY <2>1 DEF Accounted, AccountedFor, Concluded
    <3>2. QED
      BY <1>1, <2>1, <3>1
  <2>2. QED
    BY <2>1 DEF Kept
<1>4. QED
  BY <1>2, <1>3 DEF Accounted, AccountedFor, Concluded

\* Steps that touch no row of an intent.
LEMMA NothingToConclude ==
  ASSUME TypeOK, Accounted, NEW r \in Runner, Stays(r), ~Held(r), ~Held(r)', Marked,
         UNCHANGED <<intents, status, observations, called, abandoned>>
  PROVE  Accounted'
<1>1. Noted(r)'
  BY DEF Held, Noted
<1>2. ASSUME NEW i \in Written' \ abandoned' PROVE Kept(r, i)
  BY <1>2 DEF Kept, Concluded, Marked, Written
<1>3. QED
  BY <1>1, <1>2, AccountedKept

\* Steps on the rows of an intent the runner holds, and goes on holding.
LEMMA HolderConcludes ==
  ASSUME TypeOK, Accounted, NEW r \in Runner, Stays(r), Held(r)', at'[r] = at[r], Noted(r)', Marked,
         UNCHANGED <<intents, abandoned>>,
         \A i \in Id : i # at[r] => status'[i] = status[i],
         observations \subseteq observations', called' \subseteq called \cup {at[r]}
  PROVE  Accounted'
<1>1. ASSUME NEW i \in Written' \ abandoned' PROVE Kept(r, i)
  <2>1. i \in Written \ abandoned /\ i \in Id
    BY <1>1 DEF Written, Id, TypeOK, TablesOK
  <2>2. QED
    BY <2>1 DEF Kept, Concluded, Marked
<1>2. QED
  BY <1>1, AccountedKept

LEMMA RecordAccounted ==
  ASSUME TypeOK, Accounted, NEW r \in Runner, Record(r)
  PROVE  Accounted'
<1>1. PICK n \in Nat :
      /\ Stays(r) /\ pc[r] = "writing" /\ pc'[r] \in {"idle", "recheck"}
      /\ n = Len(intents) + 1 /\ n \notin Written /\ Written' = Written \cup {n}
      /\ \A i \in Written : status'[i] = status[i]
      /\ status'[n] \in {"validated", "none"}
      /\ UNCHANGED <<observations, called, abandoned, swallowed>>
  BY RecordMoves DEF Id
<1>2. Noted(r)' /\ ~Held(r) /\ Marked
  BY <1>1 DEF Noted, Held, Marked
<1>3. Concluded(n)'
  BY <1>1 DEF Concluded, TypeOK, TablesOK
<1>4. ASSUME NEW i \in Written' \ abandoned' PROVE Kept(r, i)
  BY <1>1, <1>2, <1>3, <1>4 DEF Kept, Concluded
<1>5. QED
  BY <1>1, <1>2, <1>4, AccountedKept

LEMMA RefuseAccounted ==
  ASSUME TypeOK, Accounted, NEW r \in Runner, Refuse(r)
  PROVE  Accounted'
<1>1. /\ Stays(r) /\ pc[r] = "refused" /\ pc'[r] \in {"idle", "recheck"}
      /\ status'[at[r]] \in {"failed", status[at[r]]} /\ \A i \in Id : i # at[r] => status'[i] = status[i]
      /\ UNCHANGED <<intents, observations, called, abandoned, swallowed>>
  BY RefuseMoves
<1>2. Noted(r)' /\ ~Held(r) /\ Marked
  BY <1>1 DEF Noted, Held, Marked
<1>3. ASSUME NEW i \in Written' \ abandoned' PROVE Kept(r, i)
  <2>1. i \in Written \ abandoned /\ i \in Id
    BY <1>1, <1>3 DEF Written, Id, TypeOK, TablesOK
  <2>2. status'[i] = status[i] \/ status'[i] = "failed"
    BY <1>1, <2>1
  <2>3. QED
    BY <1>1, <1>2, <2>1, <2>2 DEF Kept, Concluded
<1>4. QED
  BY <1>1, <1>2, <1>3, AccountedKept

LEMMA ClaimAccounted ==
  ASSUME TypeOK, Accounted, NEW r \in Runner, Claim(r)
  PROVE  Accounted'
<1>1. /\ Stays(r) /\ pc[r] = "cleared" /\ Marked
      /\ UNCHANGED <<intents, observations, called, abandoned>>
  BY ClaimMoves DEF Marked
<1>2. CASE pc'[r] = "claimed" /\ at'[r] = at[r] /\ \A i \in Id : i # at[r] => status'[i] = status[i]
  <2>1. Held(r)' /\ Noted(r)'
    BY <1>2 DEF Held, Noted
  <2>2. QED
    BY <1>1, <1>2, <2>1, HolderConcludes
<1>3. CASE pc'[r] \in {"idle", "recheck"} /\ UNCHANGED status
  <2>1. ~Held(r) /\ ~Held(r)'
    BY <1>1, <1>3 DEF Held
  <2>2. QED
    BY <1>1, <1>3, <2>1, NothingToConclude
<1>4. QED
  BY <1>2, <1>3, ClaimMoves

LEMMA SettleAccounted ==
  ASSUME TypeOK, Accounted, NEW r \in Runner, Settle(r)
  PROVE  Accounted'
<1>1. /\ Stays(r) /\ pc[r] \in {"settling", "noted_failed"} /\ pc'[r] \in {"idle", "recheck"}
      /\ at[r] \in Written
      /\ \/ status'[at[r]] \in {"observed", "failed"}
         \/ UNCHANGED status /\ at[r] \in swallowed'.outcome
      /\ \A i \in Id : i # at[r] => status'[i] = status[i]
      /\ UNCHANGED <<intents, observations, called, abandoned>>
      /\ OnlyMarks(r, "outcome")
  BY SettleMoves
<1>2. Noted(r)' /\ at[r] \in observations \cup swallowed.observation
  BY <1>1 DEF Noted, Accounted
<1>3. Marked
  BY <1>1, OnlyMarksMarked DEF Swallowable
<1>4. ASSUME NEW i \in Written' \ abandoned' PROVE Kept(r, i)
  <2>1. i \in Written \ abandoned /\ i \in Id
    BY <1>1, <1>4 DEF Written, Id, TypeOK, TablesOK
  <2>2. CASE i = at[r]
    BY <1>1, <1>2, <1>3, <2>2 DEF Kept, Concluded, Marked
  <2>3. CASE i # at[r]
    BY <1>1, <1>3, <2>1, <2>3 DEF Kept, Concluded, Marked
  <2>4. QED
    BY <2>2, <2>3
<1>5. QED
  BY <1>1, <1>2, <1>3, <1>4, AccountedKept

LEMMA CrashAccounted ==
  ASSUME TypeOK, Accounted, NEW r \in Runner, Crash(r)
  PROVE  Accounted'
<1>1. /\ Stays(r) /\ pc'[r] \in {"idle", "recheck"}
      /\ abandoned' = IF Held(r) THEN abandoned \cup {at[r]} ELSE abandoned
      /\ UNCHANGED <<intents, status, observations, called, swallowed>>
  BY CrashMoves
<1>2. Noted(r)' /\ Marked
  BY <1>1 DEF Noted, Marked
<1>3. ASSUME NEW i \in Written' \ abandoned' PROVE Kept(r, i)
  BY <1>1, <1>3 DEF Kept, Concluded, Written
<1>4. QED
  BY <1>1, <1>2, <1>3, AccountedKept

LEMMA AccountedStep == TypeOK /\ Accounted /\ [Next]_vars => Accounted'
<1> SUFFICES ASSUME TypeOK, Accounted, [Next]_vars PROVE Accounted'
  OBVIOUS
<1>1. ASSUME NEW r \in Runner, NEW t \in Target, NEW c \in Declared, Emit(r, t, c)
      PROVE  Accounted'
  BY <1>1, EmitMoves, NothingToConclude DEF Held, Marked
<1>2. ASSUME NEW r \in Runner, Drain(r) PROVE Accounted'
  BY <1>2, DrainMoves, NothingToConclude DEF Held, Marked
<1>3. ASSUME NEW r \in Runner, Recheck(r) PROVE Accounted'
  <2>1. Marked
    BY <1>3, RecheckMoves, OnlyMarksMarked DEF Swallowable
  <2>2. QED
    BY <1>3, <2>1, RecheckMoves, NothingToConclude DEF Held
<1>4. ASSUME NEW r \in Runner, LookUp(r) PROVE Accounted'
  <2>1. Held(r)' /\ Noted(r)'
    BY <1>4, LookUpMoves DEF Held, Noted, Noting
  <2>2. Marked /\ observations \subseteq observations'
    BY <1>4, LookUpMoves, OnlyMarksMarked DEF Noting, Swallowable
  <2>3. QED
    BY <1>4, <2>1, <2>2, LookUpMoves, HolderConcludes
<1>5. ASSUME NEW r \in Runner, NEW how \in Outcome, Call(r, how) PROVE Accounted'
  <2>1. Held(r)' /\ Noted(r)' /\ Marked
    BY <1>5, CallMoves DEF Held, Noted, Marked
  <2>2. QED
    BY <1>5, <2>1, CallMoves, HolderConcludes
<1>6. ASSUME NEW r \in Runner, Observe(r) PROVE Accounted'
  <2>1. Held(r)' /\ Noted(r)'
    BY <1>6, ObserveMoves DEF Held, Noted, Noting
  <2>2. Marked /\ observations \subseteq observations'
    BY <1>6, ObserveMoves, OnlyMarksMarked DEF Noting, Swallowable
  <2>3. QED
    BY <1>6, <2>1, <2>2, ObserveMoves, HolderConcludes
<1>7. ASSUME NEW r \in Runner, RecordEffect(r) PROVE Accounted'
  <2>1. Held(r)' /\ Noted(r)' /\ Marked
    BY <1>7, RecordEffectMoves DEF Held, Noted, Accounted, Marked
  <2>2. QED
    BY <1>7, <2>1, RecordEffectMoves, HolderConcludes
<1>8. ASSUME Outside \/ UNCHANGED vars PROVE Accounted'
  BY <1>8, OutsideMoves DEF Accounted, AccountedFor, Noted, Held, Written
<1>9. ASSUME NEW r \in Runner, Runs(r) PROVE Accounted'
  BY <1>1, <1>2, <1>3, <1>4, <1>5, <1>6, <1>7, <1>9, RecordAccounted, RefuseAccounted,
     ClaimAccounted, SettleAccounted, CrashAccounted DEF Runs, Dispatching
<1>10. QED
  BY <1>8, <1>9, NextSplit

\* No effect is silent and no claim forgotten while its runner lives, unless the
\* very write of its observation or of its outcome fails: the observation comes
\* before the state row leaves "dispatched" (dispatcher.js:295), and a refusal
\* that overwrites another runner's row can only put an outcome in its place
\* (state.js:3669).
THEOREM EffectsAccountedFor == Spec => []AccountedFor
<1>1. Init => Accounted
  BY DEF Init, Accounted, AccountedFor, Noted, Written
<1>2. Accounted => AccountedFor
  BY DEF Accounted
<1>3. QED
  BY <1>1, <1>2, TypeCorrect, AccountedStep, PTL DEF Spec

-----------------------------------------------------------------------------
(* The effect ledger.                                                      *)

\* A runner has had the effect of intent i and not yet put it in the ledger.
InFlight(i) == \E s \in Runner : at[s] = i /\ pc[s] \in {"done", "noted"}

Remembered(i) == Effective(intents[i]) = Low \/ EffectKey(intents[i]) \in ledger

\* An effect is in the ledger, or on its way there, or its runner was lost.
Recorded == \A i \in performed \ lost : Remembered(i) \/ InFlight(i)

\* A step of r keeps what is remembered, and answers for what r had in flight.
LEMMA RecordedKept ==
  ASSUME TypeOK, Recorded, NEW r \in Runner, Stays(r),
         ledger \subseteq ledger',
         \A i \in Written : intents'[i] = intents[i],
         performed' \ lost' \subseteq (performed \ lost) \cup {at[r]},
         \/ at'[r] = at[r] /\ pc'[r] \in {"done", "noted"}
         \/ at[r] \in lost'
         \/ Effective(intents[at[r]]) = Low \/ EffectKey(intents[at[r]]) \in ledger'
         \/ /\ pc[r] \notin {"done", "noted"}
            /\ performed' \ lost' \subseteq performed \ lost,
         at[r] \in Written \/ performed' \ lost' \subseteq performed \ lost
  PROVE  Recorded'
<1>1. ASSUME NEW i \in performed' \ lost'
      PROVE  Remembered(i)' \/ InFlight(i)'
  <2>1. i \in Written
    BY <1>1 DEF TypeOK, TablesOK
  <2>2. Remembered(i) => Remembered(i)'
    BY <2>1 DEF Remembered, EffectKey, Effective
  <2>3. CASE i \in performed \ lost /\ \E s \in Runner : s # r /\ at[s] = i /\ pc[s] \in {"done", "noted"}
    BY <2>3 DEF InFlight, Stays
  <2>4. CASE i = at[r] /\ at'[r] = at[r] /\ pc'[r] \in {"done", "noted"}
    BY <2>4 DEF InFlight
  <2>5. CASE i = at[r] /\ (Effective(intents[at[r]]) = Low \/ EffectKey(intents[at[r]]) \in ledger')
    BY <2>1, <2>5 DEF Remembered, EffectKey, Effective
  <2>6. CASE i # at[r] \/ (pc[r] \notin {"done", "noted"} /\ i \in performed \ lost)
    BY <1>1, <2>2, <2>3, <2>6 DEF Recorded, InFlight
  <2>7. QED
    BY <1>1, <2>4, <2>5, <2>6
<1>2. QED
  BY <1>1 DEF Recorded

LEMMA RecordedStep == TypeOK /\ Recorded /\ [Next]_vars => Recorded'
<1> SUFFICES ASSUME TypeOK, Recorded, [Next]_vars PROVE Recorded'
  OBVIOUS
<1>1. ASSUME NEW r \in Runner, NEW t \in Target, NEW c \in Declared, Emit(r, t, c)
      PROVE  Recorded'
  BY <1>1, EmitMoves, RecordedKept
<1>2. ASSUME NEW r \in Runner, Record(r) PROVE Recorded'
  BY <1>2, RecordMoves, RecordedKept
<1>3. ASSUME NEW r \in Runner, Drain(r) PROVE Recorded'
  BY <1>3, DrainMoves, RecordedKept
<1>4. ASSUME NEW r \in Runner, Recheck(r) PROVE Recorded'
  BY <1>4, RecheckMoves, RecordedKept
<1>5. ASSUME NEW r \in Runner, Refuse(r) PROVE Recorded'
  BY <1>5, RefuseMoves, RecordedKept
<1>6. ASSUME NEW r \in Runner, Claim(r) PROVE Recorded'
  BY <1>6, ClaimMoves, RecordedKept
<1>7. ASSUME NEW r \in Runner, LookUp(r) PROVE Recorded'
  BY <1>7, LookUpMoves, RecordedKept
<1>8. ASSUME NEW r \in Runner, NEW how \in Outcome, Call(r, how) PROVE Recorded'
  <2>1. CASE pc'[r] = "done" /\ performed' = performed \cup {at[r]} /\ UNCHANGED lost
    BY <1>8, <2>1, CallMoves, RecordedKept
  <2>2. CASE pc'[r] = "failed" /\ UNCHANGED <<performed, lost>>
    BY <1>8, <2>2, CallMoves, RecordedKept
  <2>3. CASE performed' = performed \cup {at[r]} /\ lost' = lost \cup {at[r]}
    BY <1>8, <2>3, CallMoves, RecordedKept
  <2>4. QED
    BY <1>8, <2>1, <2>2, <2>3, CallMoves
<1>9. ASSUME NEW r \in Runner, Observe(r) PROVE Recorded'
  BY <1>9, ObserveMoves, RecordedKept
<1>10. ASSUME NEW r \in Runner, RecordEffect(r) PROVE Recorded'
  <2>1. performed' \ lost' \subseteq performed \ lost
    BY <1>10, RecordEffectMoves
  <2>2. QED
    BY <1>10, <2>1, RecordEffectMoves, RecordedKept
<1>11. ASSUME NEW r \in Runner, Settle(r) PROVE Recorded'
  BY <1>11, SettleMoves, RecordedKept
<1>12. ASSUME NEW r \in Runner, Crash(r) PROVE Recorded'
  BY <1>12, CrashMoves, RecordedKept
<1>13. ASSUME Outside \/ UNCHANGED vars PROVE Recorded'
  BY <1>13, OutsideMoves DEF Recorded, Remembered, InFlight, EffectKey, Effective
<1>14. ASSUME NEW r \in Runner, Runs(r) PROVE Recorded'
  BY <1>1, <1>2, <1>3, <1>4, <1>5, <1>6, <1>7, <1>8, <1>9, <1>10, <1>11, <1>12, <1>14
     DEF Runs, Dispatching
<1>15. QED
  BY <1>13, <1>14, NextSplit

\* Only a look-up that found nothing, or failed, lets a runner through to its
\* adapter.
LEMMA ThroughTheLedger ==
  ASSUME TypeOK, [Next]_vars, NEW r \in Runner, pc[r] = "claimed", pc'[r] = "calling"
  PROVE  \/ Effective(intents[at[r]]) = Low \/ EffectKey(intents[at[r]]) \notin ledger
         \/ at[r] \in swallowed'.lookup
<1>1. ~(Outside \/ UNCHANGED vars)
  BY OutsideMoves
<1>2. PICK q \in Runner : Runs(q)
  BY <1>1, NextSplit
<1>3. Stays(q)
  BY <1>2, EmitMoves, RecordMoves, DrainMoves, RecheckMoves, RefuseMoves, ClaimMoves,
     LookUpMoves, CallMoves, ObserveMoves, RecordEffectMoves, SettleMoves, CrashMoves
     DEF Runs, Dispatching
<1>4. q = r
  BY <1>3 DEF Stays
<1>5. LookUp(r)
  BY <1>2, <1>4, EmitMoves, RecordMoves, DrainMoves, RecheckMoves, RefuseMoves, ClaimMoves,
     CallMoves, ObserveMoves, RecordEffectMoves, SettleMoves, CrashMoves
     DEF Runs, Dispatching
<1>6. QED
  BY <1>5, LookUpMoves

LEMMA RepeatStep ==
  ASSUME TypeOK, Recorded, [Next]_vars, NEW r \in Runner, pc[r] = "claimed",
         pc'[r] = "calling", at[r] \notin swallowed'.lookup, NEW i \in performed \ lost
  PROVE  \/ EffectKey(intents[i]) # EffectKey(intents[at[r]])
         \/ Effective(intents[i]) = Low
         \/ \E s \in Runner : at[s] = i
<1>1. Effective(intents[at[r]]) = Low \/ EffectKey(intents[at[r]]) \notin ledger
  BY ThroughTheLedger
<1>2. Remembered(i) \/ InFlight(i)
  BY DEF Recorded
<1>3. QED
  BY <1>1, <1>2 DEF Remembered, InFlight, EffectKey

\* Unless the ledger could not be read, or the entry not be written, an adapter
\* is called again for an effect already had and reported done only while the
\* runner that had it is still at it: everybody else's effect is in
\* l4_effect_ledger before its runner moves on (dispatcher.js:248, 310).
THEOREM EffectsNotRepeated == Spec => RepeatsOnlyInFlight
<1>1. Init => Recorded
  BY DEF Init, Recorded
<1>2. TypeOK /\ Recorded /\ [Next]_vars =>
        [\A r \in Runner : pc[r] = "claimed" /\ pc'[r] = "calling" /\ at[r] \notin swallowed'.lookup =>
           \A i \in performed \ lost :
             \/ EffectKey(intents[i]) # EffectKey(intents[at[r]])
             \/ Effective(intents[i]) = Low
             \/ \E s \in Runner : at[s] = i]_vars
  BY RepeatStep
<1>3. QED
  BY <1>1, <1>2, TypeCorrect, RecordedStep, PTL DEF Spec, RepeatsOnlyInFlight

-----------------------------------------------------------------------------
(* The brake.                                                              *)

Going(r) == pc[r] \in {"cleared", "claimed", "calling"}

\* While the operator's last word is a pause, a runner that has had its one
\* effect is not on its way to another, for the recheck sees the pause, if it
\* can read the markers.
Braked ==
  /\ paused <= now /\ resumed <= now
  /\ stopped => IsPaused
  /\ \A r \in Runner :
       /\ overrun[r] <= 1
       /\ stopped /\ overrun[r] = 1 => ~Going(r) \/ at[r] \in swallowed.brake

LEMMA BrakedKept ==
  ASSUME Braked, NEW r \in Runner, Stays(r),
         UNCHANGED <<now, paused, resumed, stopped, overrun>>,
         swallowed.brake \subseteq swallowed'.brake,
         Going(r)' => \/ Going(r) /\ at'[r] = at[r]
                      \/ ~stopped \/ at'[r] \in swallowed'.brake
  PROVE  Braked'
<1>1. \A q \in Runner : q # r => Going(q)' = Going(q) /\ at'[q] = at[q]
  BY DEF Stays, Going
<1>2. QED
  BY <1>1 DEF Braked, IsPaused

LEMMA CallBraked ==
  ASSUME TypeOK, Braked, NEW r \in Runner, NEW how \in Outcome, Call(r, how)
  PROVE  Braked'
<1>1. /\ Stays(r) /\ Going(r) /\ ~Going(r)'
      /\ \/ overrun' = overrun
         \/ /\ stopped /\ at[r] \notin swallowed.brake
            /\ overrun' = [overrun EXCEPT ![r] = @ + 1]
      /\ UNCHANGED <<now, paused, resumed, stopped, at, swallowed>>
  BY CallMoves DEF Going
<1>2. CASE overrun' = overrun
  BY <1>1, <1>2, BrakedKept
<1>3. CASE stopped /\ at[r] \notin swallowed.brake /\ overrun' = [overrun EXCEPT ![r] = @ + 1]
  <2>1. overrun \in [Runner -> Nat]
    BY DEF TypeOK, RunnersOK
  <2>2. overrun[r] = 0
    BY <1>1, <1>3, <2>1 DEF Braked
  <2>3. overrun'[r] = 1 /\ \A q \in Runner : q # r => overrun'[q] = overrun[q] /\ Going(q)' = Going(q)
    BY <1>1, <1>3, <2>1, <2>2 DEF Stays, Going
  <2>4. QED
    BY <1>1, <2>3 DEF Braked, IsPaused
<1>4. QED
  BY <1>1, <1>2, <1>3

LEMMA OutsideBraked ==
  ASSUME TypeOK, Braked, Outside \/ UNCHANGED vars
  PROVE  Braked'
<1>1. now \in Nat /\ now > 0 /\ paused \in Nat /\ resumed \in Nat
  BY DEF TypeOK, OperatorOK
<1>2. UNCHANGED <<pc, at, swallowed>> /\ \A r \in Runner : Going(r)' = Going(r)
  BY OutsideMoves DEF Going
<1>3. CASE Pause
  <2>1. /\ paused' = now /\ UNCHANGED <<now, resumed>>
        /\ overrun' = [r \in Runner |-> 0]
    BY <1>3 DEF Pause
  <2>2. QED
    BY <1>1, <2>1 DEF Braked, IsPaused
<1>4. CASE Resume
  <2>1. /\ resumed' = now /\ ~stopped' /\ UNCHANGED <<now, paused>>
        /\ overrun' = [r \in Runner |-> 0]
    BY <1>4 DEF Resume
  <2>2. QED
    BY <1>1, <2>1 DEF Braked
<1>5. CASE Tick
  <2>1. now' = now + 1 /\ UNCHANGED <<paused, resumed, stopped, overrun>>
    BY <1>5 DEF Tick, brake, history
  <2>2. QED
    BY <1>1, <1>2, <2>1 DEF Braked, IsPaused
<1>6. CASE (\E t \in Target : Revoke(t) \/ Seal(t)) \/ UNCHANGED vars
  <2>1. UNCHANGED <<now, paused, resumed, stopped, overrun>>
    BY <1>6 DEF Revoke, Seal, vars, brake, history
  <2>2. QED
    BY <1>2, <2>1 DEF Braked, IsPaused
<1>7. QED
  BY <1>3, <1>4, <1>5, <1>6 DEF Outside

LEMMA BrakedStep == TypeOK /\ Braked /\ [Next]_vars => Braked'
<1> SUFFICES ASSUME TypeOK, Braked, [Next]_vars PROVE Braked'
  OBVIOUS
<1>1. ASSUME NEW r \in Runner, NEW t \in Target, NEW c \in Declared, Emit(r, t, c)
      PROVE  Braked'
  BY <1>1, EmitMoves, BrakedKept DEF Going
<1>2. ASSUME NEW r \in Runner, Record(r) PROVE Braked'
  BY <1>2, RecordMoves, BrakedKept DEF Going
<1>3. ASSUME NEW r \in Runner, Drain(r) PROVE Braked'
  BY <1>3, DrainMoves, BrakedKept DEF Going
<1>4. ASSUME NEW r \in Runner, Recheck(r) PROVE Braked'
  <2>1. Going(r)' => ~stopped \/ at'[r] \in swallowed'.brake
    BY <1>4, RecheckMoves DEF Going, Braked
  <2>2. QED
    BY <1>4, <2>1, RecheckMoves, BrakedKept DEF OnlyMarks
<1>5. ASSUME NEW r \in Runner, Refuse(r) PROVE Braked'
  BY <1>5, RefuseMoves, BrakedKept DEF Going
<1>6. ASSUME NEW r \in Runner, Claim(r) PROVE Braked'
  BY <1>6, ClaimMoves, BrakedKept DEF Going
<1>7. ASSUME NEW r \in Runner, LookUp(r) PROVE Braked'
  <2>1. swallowed'.brake = swallowed.brake
    BY <1>7, LookUpMoves DEF OnlyMarks, Noting, Swallowable
  <2>2. QED
    BY <1>7, <2>1, LookUpMoves, BrakedKept DEF Going
<1>8. ASSUME NEW r \in Runner, Observe(r) PROVE Braked'
  <2>1. swallowed'.brake = swallowed.brake
    BY <1>8, ObserveMoves DEF OnlyMarks, Noting, Swallowable
  <2>2. QED
    BY <1>8, <2>1, ObserveMoves, BrakedKept DEF Going
<1>9. ASSUME NEW r \in Runner, RecordEffect(r) PROVE Braked'
  BY <1>9, RecordEffectMoves, BrakedKept DEF Going
<1>10. ASSUME NEW r \in Runner, Settle(r) PROVE Braked'
  <2>1. swallowed'.brake = swallowed.brake
    BY <1>10, SettleMoves DEF OnlyMarks, Swallowable
  <2>2. QED
    BY <1>10, <2>1, SettleMoves, BrakedKept DEF Going
<1>11. ASSUME NEW r \in Runner, Crash(r) PROVE Braked'
  BY <1>11, CrashMoves, BrakedKept DEF Going
<1>12. ASSUME NEW r \in Runner, Runs(r) PROVE Braked'
  BY <1>1, <1>2, <1>3, <1>4, <1>5, <1>6, <1>7, <1>8, <1>9, <1>10, <1>11, <1>12, CallBraked
     DEF Runs, Dispatching
<1>13. QED
  BY <1>12, NextSplit, OutsideBraked

\* However many pauses and resumes, on whatever ticks, a runner has at most one
\* effect after the operator's last word was a pause: each intent of a drain is
\* checked against the markers before it is claimed (dispatcher.js:196).  Those
\* of which that check could not read the markers go through, uncounted
\* (global-pause.js:52).
THEOREM BrakeHolds == Spec => []BrakeBoundsOverrun
<1>1. Init => Braked
  BY DEF Init, Braked
<1>2. Braked => BrakeBoundsOverrun
  BY DEF Braked, BrakeBoundsOverrun
<1>3. QED
  BY <1>1, <1>2, TypeCorrect, BrakedStep, PTL DEF Spec

-----------------------------------------------------------------------------
(* The seal.                                                               *)

\* What the recheck established, on the class an intent goes by.
Backed(d) ==
  /\ Effective(d) <= Ceiling[d.target]
  /\ Effective(d) >= High => d.sealed

SealGenuine(d) == d.sealed => <<d.target, d.key>> \in seals

\* An intent that is marked sealed was sealed, and nothing unbacked is claimed.
Sealed ==
  /\ \A i \in Written : SealGenuine(intents[i])
  /\ \A r \in Runner : pc[r] = "writing" => SealGenuine(draft[r][1])
  /\ \A r \in Runner : pc[r] = "cleared" \/ Held(r) => Backed(intents[at[r]])
  /\ \A i \in performed : Backed(intents[i])

LEMMA SealedKept ==
  ASSUME TypeOK, Sealed, NEW r \in Runner, Stays(r),
         UNCHANGED <<intents, seals>>,
         \A q \in Runner : q # r => draft'[q] = draft[q],
         pc'[r] = "writing" => SealGenuine(draft'[r][1]),
         pc'[r] = "cleared" \/ Held(r)' => at'[r] = at[r] /\ Backed(intents[at[r]]),
         \A i \in performed' : i \in performed \/ Backed(intents[i])
  PROVE  Sealed'
<1>1. \A q \in Runner : q # r => pc'[q] = pc[q] /\ at'[q] = at[q] /\ Held(q)' = Held(q)
  BY DEF Stays, Held
<1>2. ASSUME NEW i \in Written' PROVE SealGenuine(intents[i])'
  BY <1>2 DEF Sealed, SealGenuine, Written
<1>3. ASSUME NEW q \in Runner, pc'[q] = "writing" PROVE SealGenuine(draft[q][1])'
  BY <1>1, <1>3 DEF Sealed, SealGenuine
<1>4. ASSUME NEW q \in Runner, pc'[q] = "cleared" \/ Held(q)'
      PROVE  Backed(intents[at[q]])'
  BY <1>1, <1>4 DEF Sealed, Backed, Effective
<1>5. ASSUME NEW i \in performed' PROVE Backed(intents[i])'
  BY <1>5 DEF Sealed, Backed, Effective
<1>6. QED
  BY <1>2, <1>3, <1>4, <1>5 DEF Sealed

LEMMA EmitSealed ==
  ASSUME TypeOK, Sealed, NEW r \in Runner, NEW t \in Target, NEW c \in Declared, Emit(r, t, c)
  PROVE  Sealed'
<1>1. /\ Stays(r) /\ pc'[r] = "writing"
      /\ UNCHANGED <<intents, seals, performed>>
  BY EmitMoves
<1>2. PICK d : d.sealed = (<<d.target, d.key>> \in seals) /\ draft' = [draft EXCEPT ![r] = <<d>>]
  BY DEF Emit
<1>3. draft'[r][1] = d /\ \A q \in Runner : q # r => draft'[q] = draft[q]
  BY <1>2 DEF TypeOK, RunnersOK
<1>4. SealGenuine(draft'[r][1])
  BY <1>2, <1>3 DEF SealGenuine
<1>5. QED
  BY <1>1, <1>3, <1>4, SealedKept DEF Held

LEMMA RecordSealed ==
  ASSUME TypeOK, Sealed, NEW r \in Runner, Record(r)
  PROVE  Sealed'
<1>1. PICK n \in Nat :
      /\ Stays(r) /\ pc[r] = "writing" /\ pc'[r] \in {"idle", "recheck"}
      /\ n \notin Written /\ Written' = Written \cup {n}
      /\ intents'[n] = draft[r][1] /\ \A i \in Written : intents'[i] = intents[i]
      /\ draft' = [draft EXCEPT ![r] = <<>>]
      /\ UNCHANGED <<seals, performed>>
  BY RecordMoves DEF Id
<1>2. \A q \in Runner : q # r => pc'[q] = pc[q] /\ at'[q] = at[q] /\ Held(q)' = Held(q)
  BY <1>1 DEF Stays, Held
<1>3. ASSUME NEW i \in Written' PROVE SealGenuine(intents[i])'
  <2>1. intents'[i] = draft[r][1] \/ (i \in Written /\ intents'[i] = intents[i])
    BY <1>1, <1>3
  <2>2. SealGenuine(draft[r][1]) /\ \A j \in Written : SealGenuine(intents[j])
    BY <1>1 DEF Sealed
  <2>3. QED
    BY <1>1, <2>1, <2>2 DEF SealGenuine
<1>4. ASSUME NEW q \in Runner, pc'[q] = "writing" PROVE SealGenuine(draft[q][1])'
  <2>1. q # r /\ pc[q] = "writing" /\ draft'[q] = draft[q]
    BY <1>1, <1>2, <1>4 DEF TypeOK, RunnersOK
  <2>2. QED
    BY <1>1, <2>1 DEF Sealed, SealGenuine
<1>5. ASSUME NEW q \in Runner, pc'[q] = "cleared" \/ Held(q)'
      PROVE  Backed(intents[at[q]])'
  <2>1. q # r /\ (pc[q] = "cleared" \/ Held(q)) /\ at'[q] = at[q]
    BY <1>1, <1>2, <1>5 DEF Held
  <2>2. at[q] \in Written
    BY <2>1, AtWritten DEF Held, Working
  <2>3. Backed(intents[at[q]]) /\ intents'[at'[q]] = intents[at[q]]
    BY <1>1, <2>1, <2>2 DEF Sealed
  <2>4. QED
    BY <2>3 DEF Backed, Effective
<1>6. ASSUME NEW i \in performed' PROVE Backed(intents[i])'
  <2>1. i \in performed /\ intents'[i] = intents[i]
    BY <1>1, <1>6 DEF TypeOK, TablesOK
  <2>2. QED
    BY <2>1 DEF Sealed, Backed, Effective
<1>7. QED
  BY <1>3, <1>4, <1>5, <1>6 DEF Sealed

LEMMA SealedStep == TypeOK /\ Sealed /\ [Next]_vars => Sealed'
<1> SUFFICES ASSUME TypeOK, Sealed, [Next]_vars PROVE Sealed'
  OBVIOUS
<1>1. ASSUME NEW r \in Runner, Held(r) \/ pc[r] = "cleared" PROVE Backed(intents[at[r]])
  BY <1>1 DEF Sealed
<1>2. ASSUME NEW r \in Runner, Drain(r) PROVE Sealed'
  BY <1>2, DrainMoves, SealedKept DEF Held
<1>3. ASSUME NEW r \in Runner, Recheck(r) PROVE Sealed'
  <2>1. pc'[r] = "cleared" => Backed(intents[at[r]])
    BY <1>3, RecheckMoves DEF Authorised, Backed
  <2>2. QED
    BY <1>3, <2>1, RecheckMoves, SealedKept DEF Held
<1>4. ASSUME NEW r \in Runner, Refuse(r) PROVE Sealed'
  BY <1>4, RefuseMoves, SealedKept DEF Held
<1>5. ASSUME NEW r \in Runner, Claim(r) PROVE Sealed'
  BY <1>1, <1>5, ClaimMoves, SealedKept DEF Held
<1>6. ASSUME NEW r \in Runner, LookUp(r) PROVE Sealed'
  BY <1>1, <1>6, LookUpMoves, SealedKept DEF Held
<1>7. ASSUME NEW r \in Runner, NEW how \in Outcome, Call(r, how) PROVE Sealed'
  BY <1>1, <1>7, CallMoves, SealedKept DEF Held
<1>8. ASSUME NEW r \in Runner, Observe(r) PROVE Sealed'
  BY <1>1, <1>8, ObserveMoves, SealedKept DEF Held
<1>9. ASSUME NEW r \in Runner, RecordEffect(r) PROVE Sealed'
  BY <1>1, <1>9, RecordEffectMoves, SealedKept DEF Held
<1>10. ASSUME NEW r \in Runner, Settle(r) PROVE Sealed'
  BY <1>10, SettleMoves, SealedKept DEF Held
<1>11. ASSUME NEW r \in Runner, Crash(r) PROVE Sealed'
  <2>1. \A q \in Runner : q # r => draft'[q] = draft[q]
    BY <1>11, CrashMoves DEF TypeOK, RunnersOK
  <2>2. QED
    BY <1>11, <2>1, CrashMoves, SealedKept DEF Held
<1>12. ASSUME Outside \/ UNCHANGED vars PROVE Sealed'
  <2>1. /\ seals \subseteq seals'
        /\ UNCHANGED <<intents, pc, at, draft, performed>>
    BY <1>12, OutsideMoves
  <2>2. QED
    BY <2>1 DEF Sealed, SealGenuine, Backed, Effective, Held, Written
<1>13. ASSUME NEW r \in Runner, Runs(r) PROVE Sealed'
  BY <1>2, <1>3, <1>4, <1>5, <1>6, <1>7, <1>8, <1>9, <1>10, <1>11, <1>13, EmitSealed,
     RecordSealed DEF Runs, Dispatching
<1>14. QED
  BY <1>12, <1>13, NextSplit

\* Whatever class an emitter declares, the effect of an adapter that is high was
\* sealed by the operator and stays below the capability's ceiling: the recheck
\* goes by the class of the adapter where that is higher (dispatcher.js:78).
THEOREM HighEffectsSealed == Spec => []NoUnsealedHighEffect
<1>1. Init => Sealed
  BY DEF Init, Sealed, Written, Held
<1>2. TypeOK /\ Sealed => NoUnsealedHighEffect
  <2> SUFFICES ASSUME TypeOK, Sealed, NEW i \in performed
               PROVE  LET d == intents[i] IN
                      /\ Adapter[d.target] >= High => <<d.target, d.key>> \in seals
                      /\ Adapter[d.target] <= Ceiling[d.target]
    BY DEF NoUnsealedHighEffect
  <2>1. i \in Written /\ intents[i] \in Intent
    BY DEF TypeOK, TablesOK, Written
  <2>2. /\ intents[i].class \in Nat /\ Adapter[intents[i].target] \in Nat
        /\ Ceiling[intents[i].target] \in Nat
    BY <2>1 DEF Intent
  <2>3. Backed(intents[i]) /\ SealGenuine(intents[i])
    BY <2>1 DEF Sealed
  <2>4. Adapter[intents[i].target] <= Effective(intents[i]) /\ Effective(intents[i]) \in Nat
    BY <2>2 DEF Effective
  <2>5. QED
    BY <2>2, <2>3, <2>4 DEF Backed, SealGenuine
<1>3. QED
  BY <1>1, <1>2, TypeCorrect, SealedStep, PTL DEF Spec

-----------------------------------------------------------------------------
(* The life of an intent.                                                  *)

\* The intents refused for good, and what the abstract life sees of a state.
Refusals == {i \in Written : status[i] # "validated"} \ Taken
Mapped == <<Written, Refusals, Taken, called, observations, performed>>

\* What is out of every runner's hands for good.
Ended == abandoned \cup observations \cup swallowed.observation

\* What is taken can be claimed no more, and what is observed needs no call.
Fresh ==
  /\ \A i \in Taken : status[i] # "validated"
  /\ \A r \in Runner : pc[r] \in {"claimed", "calling"} => at[r] \notin observations

LifeStep == Life!LifeNext \/ UNCHANGED Mapped

\* What r holds before or after its step is taken before and after.
LEMMA TakenStep ==
  ASSUME TypeOK, NEW r \in Runner, Stays(r), Written \subseteq Written',
         Held(r)' => Held(r) /\ at'[r] = at[r],
         Held(r) /\ ~Held(r)' => at[r] \in Ended', Ended \subseteq Ended',
         \A i \in Ended' : i \in Ended \/ (Held(r) /\ i = at[r])
  PROVE  Taken' = Taken /\ Taken \subseteq Written
<1>1. \A q \in Runner : Held(q) => at[q] \in Written
  BY AtWritten DEF Held, Working
<1>2. \A q \in Runner : Held(q)' => Held(q) /\ at'[q] = at[q]
  BY DEF Stays, Held
<1>3. \A q \in Runner : Held(q) =>
        \/ Held(q)' /\ at'[q] = at[q]
        \/ at[q] \in Ended'
  <2> SUFFICES ASSUME NEW q \in Runner, Held(q)
               PROVE  \/ Held(q)' /\ at'[q] = at[q]
                      \/ at[q] \in Ended'
    OBVIOUS
  <2>1. CASE q = r
    BY <2>1
  <2>2. CASE q # r
    BY <2>2 DEF Stays, Held
  <2>3. QED
    BY <2>1, <2>2
<1>4. ASSUME NEW i \in Taken PROVE i \in Taken'
  BY <1>3, <1>4 DEF Taken, Ended
<1>5. ASSUME NEW i \in Taken' PROVE i \in Taken
  BY <1>2, <1>5 DEF Taken, Ended
<1>6. QED
  <2>1. Ended \subseteq Written
    <3>1. "observation" \in Swallowable
      BY DEF Swallowable
    <3>2. QED
      BY <3>1 DEF Ended, TypeOK, TablesOK
  <2>2. Taken \subseteq Written
    BY <1>1, <2>1 DEF Taken, Ended
  <2>3. QED
    BY <1>4, <1>5, <2>2

\* Steps that leave the hands, the outcomes and the refusals as they are.
LEMMA LifeKept ==
  ASSUME TypeOK, Fresh, Claimed, NEW r \in Runner, Stays(r), Taken' = Taken,
         pc'[r] \in {"claimed", "calling"} =>
           pc[r] \in {"claimed", "calling"} /\ at'[r] = at[r],
         Held(r) => at[r] \in Taken,
         UNCHANGED <<intents, observations, called, performed>>,
         \A i \in Written \ Taken : status'[i] = status[i],
         \A i \in Taken : status'[i] = status[i] \/ status'[i] # "validated"
  PROVE  UNCHANGED Mapped /\ Fresh'
<1>1. Written' = Written
  BY DEF Written
<1>2. Refusals' = Refusals
  BY <1>1 DEF Refusals
<1>3. \A q \in Runner : pc'[q] \in {"claimed", "calling"} => at'[q] \notin observations'
  BY DEF Stays, Fresh
<1>4. QED
  BY <1>1, <1>2, <1>3 DEF Mapped, Fresh

\* r puts the outcome of what it holds on record, or fails to, unnoticed.
LEMMA LifeObserved ==
  ASSUME TypeOK, Fresh, Claimed, NEW r \in Runner, Stays(r), Held(r), Held(r)', at'[r] = at[r],
         pc'[r] \notin {"claimed", "calling"}, Noting(r),
         UNCHANGED <<intents, status, called, performed, abandoned>>
  PROVE  LifeStep /\ Fresh'
<1>0. at[r] \in Written /\ at[r] \in Taken
  BY AtWritten DEF Held, Working, Taken
<1>1. Written' = Written /\ Taken' = Taken
  <2>1. Ended \subseteq Ended' /\ \A i \in Ended' : i \in Ended \/ i = at[r]
    BY DEF Ended, Noting, OnlyMarks
  <2>2. QED
    BY <2>1, TakenStep DEF Written
<1>2. Refusals' = Refusals
  BY <1>1 DEF Refusals
<1>3. ASSUME NEW q \in Runner, pc'[q] \in {"claimed", "calling"} PROVE at'[q] \notin observations'
  <2>1. q # r /\ pc[q] = pc'[q] /\ at'[q] = at[q] /\ Held(q)
    BY <1>3 DEF Stays, Held
  <2>2. at[q] # at[r]
    BY <2>1 DEF Claimed, AdapterOncePerIntent
  <2>3. QED
    BY <1>3, <2>1, <2>2 DEF Fresh, Noting
<1>4. Fresh'
  BY <1>1, <1>3 DEF Fresh
<1>5. CASE observations' = observations
  BY <1>1, <1>2, <1>4, <1>5 DEF LifeStep, Mapped
<1>6. CASE observations' = observations \cup {at[r]} /\ at[r] \notin observations
  <2>1. Life!Observe(at[r])
    BY <1>0, <1>1, <1>2, <1>6 DEF Life!Observe, Refusals
  <2>2. at[r] \in Id
    BY <1>0 DEF Written, Id, TypeOK, TablesOK
  <2>3. QED
    BY <1>4, <2>1, <2>2 DEF LifeStep, Life!LifeNext
<1>7. QED
  BY <1>5, <1>6 DEF Noting

LEMMA LifeRecorded ==
  ASSUME TypeOK, Fresh, Claimed, NEW r \in Runner, Record(r)
  PROVE  LifeStep /\ Fresh'
<1> DEFINE n == Len(intents) + 1
<1>1. /\ Stays(r) /\ pc[r] = "writing" /\ pc'[r] \in {"idle", "recheck"}
      /\ n \in Id \ Written /\ Written' = Written \cup {n}
      /\ \A i \in Written : status'[i] = status[i]
      /\ status'[n] \in {"validated", "none"}
      /\ UNCHANGED <<observations, called, performed, abandoned, swallowed>>
  BY RecordMoves
<1> HIDE DEF n
<1>2. ~Held(r) /\ ~Held(r)'
  BY <1>1 DEF Held
<1>3. Taken' = Taken /\ Taken \subseteq Written
  BY <1>1, <1>2, TakenStep DEF Ended
<1>4. Life!Write(n) \/ Life!WriteDead(n)
  <2>1. CASE status'[n] = "validated"
    <3>1. Refusals' = Refusals
      BY <1>1, <1>3, <2>1 DEF Refusals
    <3>2. Life!Write(n)
      BY <1>1, <1>3, <3>1 DEF Life!Write, Refusals
    <3>3. QED
      BY <3>2
  <2>2. CASE status'[n] = "none"
    <3>1. Refusals' = Refusals \cup {n}
      BY <1>1, <1>3, <2>2 DEF Refusals
    <3>2. Life!WriteDead(n)
      BY <1>1, <1>3, <3>1 DEF Life!WriteDead, Refusals
    <3>3. QED
      BY <3>2
  <2>3. QED
    BY <1>1, <2>1, <2>2
<1>5. \A q \in Runner : pc'[q] \in {"claimed", "calling"} => at'[q] \notin observations'
  BY <1>1 DEF Stays, Fresh
<1>6. Fresh'
  BY <1>1, <1>3, <1>5 DEF Fresh
<1>7. n \in Id
  BY <1>1
<1>8. Life!LifeNext
  <2>1. CASE Life!Write(n)
    BY <1>7, <2>1 DEF Life!LifeNext
  <2>2. CASE Life!WriteDead(n)
    BY <1>7, <2>2 DEF Life!LifeNext, Life!WriteDead
  <2>3. QED
    BY <1>4, <2>1, <2>2
<1>9. QED
  BY <1>6, <1>8 DEF LifeStep

LEMMA LifeRefused ==
  ASSUME TypeOK, Fresh, Claimed, NEW r \in Runner, Refuse(r)
  PROVE  LifeStep /\ Fresh'
<1>0. PICK i \in Written : i = at[r]
  BY RefuseMoves
<1>1. /\ Stays(r) /\ pc[r] = "refused" /\ pc'[r] \in {"idle", "recheck"}
      /\ status'[i] \in {"failed", status[i]}
      /\ \A j \in Id : j # i => status'[j] = status[j]
      /\ UNCHANGED <<intents, observations, called, performed, abandoned, swallowed>>
  BY <1>0, RefuseMoves
<1>2. ~Held(r) /\ ~Held(r)'
  BY <1>1 DEF Held
<1>3. Written' = Written /\ Written \subseteq Id
  BY <1>1 DEF Written, Id, TypeOK, TablesOK
<1>4. Taken' = Taken /\ Taken \subseteq Written
  BY <1>1, <1>2, <1>3, TakenStep DEF Ended
<1>5. \A q \in Runner : pc'[q] \in {"claimed", "calling"} => at'[q] \notin observations'
  BY <1>1 DEF Stays, Fresh
<1>6. Fresh'
  BY <1>1, <1>3, <1>4, <1>5 DEF Fresh
<1>7. CASE i \in Taken \/ status[i] # "validated" \/ status'[i] = status[i]
  <2>1. Refusals' = Refusals
    BY <1>1, <1>3, <1>4, <1>7 DEF Refusals
  <2>2. QED
    BY <1>1, <1>3, <1>4, <1>6, <2>1 DEF LifeStep, Mapped
<1>8. CASE i \notin Taken /\ status[i] = "validated" /\ status'[i] = "failed"
  <2>1. Refusals' = Refusals \cup {i} /\ i \notin Refusals
    BY <1>1, <1>3, <1>4, <1>8 DEF Refusals
  <2>2. Life!Refuse(i)
    BY <1>1, <1>3, <1>4, <1>8, <2>1 DEF Life!Refuse, Life!Undecided, Refusals
  <2>3. i \in Id
    BY <1>3
  <2>4. QED
    BY <1>6, <2>2, <2>3 DEF LifeStep, Life!LifeNext
<1>9. QED
  BY <1>1, <1>7, <1>8

LEMMA LifeClaimed ==
  ASSUME TypeOK, Fresh, Claimed, NEW r \in Runner, Claim(r)
  PROVE  LifeStep /\ Fresh'
<1> DEFINE i == at[r]
<1>1. /\ Stays(r) /\ pc[r] = "cleared" /\ i \in Written /\ ~Held(r)
      /\ UNCHANGED <<intents, observations, called, performed, abandoned, swallowed>>
  BY ClaimMoves DEF Held
<1>2. Written' = Written /\ Written \subseteq Id
  BY <1>1 DEF Written, Id, TypeOK, TablesOK
<1>3. CASE /\ pc'[r] = "claimed" /\ at'[r] = i /\ status[i] = "validated"
           /\ status'[i] = "dispatched" /\ \A j \in Id : j # i => status'[j] = status[j]
  <2>1. Taken' = Taken \cup {i} /\ i \notin Taken /\ Taken \subseteq Written
    <3>1. \A q \in Runner : q # r => at'[q] = at[q] /\ Held(q)' = Held(q)
      BY <1>1 DEF Stays, Held
    <3>2. Held(r)' /\ at'[r] = i
      BY <1>3 DEF Held
    <3>3. i \notin Taken /\ Taken \subseteq Written
      <4>1. \A q \in Runner : Held(q) => at[q] \in Written
        BY AtWritten DEF Held, Working
      <4>2. "observation" \in Swallowable
        BY DEF Swallowable
      <4>3. QED
        BY <1>3, <4>1, <4>2 DEF Fresh, Taken, TypeOK, TablesOK
    <3>4. QED
      BY <1>1, <1>2, <3>1, <3>2, <3>3 DEF Taken
  <2>2. i \notin observations
    BY <2>1 DEF Taken
  <2> HIDE DEF i
  <2>3. Refusals' = Refusals /\ i \notin Refusals
    BY <1>2, <1>3, <2>1 DEF Refusals
  <2>4. Life!Claim(i)
    BY <1>1, <1>2, <2>1, <2>3 DEF Life!Claim, Life!Undecided, Refusals
  <2>5. \A q \in Runner : pc'[q] \in {"claimed", "calling"} => at'[q] \notin observations'
    BY <1>1, <1>3, <2>2 DEF Stays, Fresh
  <2>6. Fresh'
    BY <1>2, <1>3, <2>1, <2>5 DEF Fresh
  <2>7. QED
    BY <1>1, <1>2, <2>4, <2>6 DEF LifeStep, Life!LifeNext
<1>4. CASE pc'[r] \in {"idle", "recheck"} /\ UNCHANGED status
  <2>1. ~Held(r)'
    BY <1>4 DEF Held
  <2>2. Taken' = Taken
    BY <1>1, <1>2, <2>1, TakenStep DEF Ended
  <2>3. QED
    BY <1>1, <1>4, <2>2, LifeKept DEF LifeStep
<1>5. QED
  BY <1>3, <1>4, ClaimMoves

LEMMA LifeLookedUp ==
  ASSUME TypeOK, Fresh, Claimed, NEW r \in Runner, LookUp(r)
  PROVE  LifeStep /\ Fresh'
<1>1. /\ Stays(r) /\ pc[r] = "claimed" /\ at'[r] = at[r] /\ at[r] \in Written /\ Held(r)
      /\ UNCHANGED <<intents, status, called, performed, abandoned>>
  BY LookUpMoves DEF Held
<1>2. CASE pc'[r] = "settling" /\ Noting(r)
  <2>1. Held(r)'
    BY <1>2 DEF Held
  <2>2. QED
    BY <1>1, <1>2, <2>1, LifeObserved
<1>3. CASE pc'[r] = "calling" /\ UNCHANGED observations /\ OnlyMarks(r, "lookup")
  <2>1. Held(r)' /\ at[r] \in Taken
    BY <1>1, <1>3 DEF Held, Taken
  <2>2. Taken' = Taken
    <3>1. swallowed'.observation = swallowed.observation
      BY <1>3 DEF OnlyMarks, Swallowable
    <3>2. QED
      BY <1>1, <1>3, <2>1, <3>1, TakenStep DEF Written, Ended
  <2>3. QED
    BY <1>1, <1>3, <2>1, <2>2, LifeKept DEF LifeStep
<1>4. QED
  BY <1>2, <1>3, LookUpMoves

LEMMA LifeCalled ==
  ASSUME TypeOK, Fresh, Claimed, NEW r \in Runner, NEW how \in Outcome, Call(r, how)
  PROVE  LifeStep /\ Fresh'
<1> DEFINE i == at[r]
<1>1. /\ Stays(r) /\ pc[r] = "calling" /\ at'[r] = i /\ i \in Written /\ Held(r)
      /\ called' = called \cup {i} /\ performed' \in {performed, performed \cup {i}}
      /\ pc'[r] \in {"done", "failed"}
      /\ UNCHANGED <<intents, status, observations, abandoned, swallowed>>
  BY CallMoves DEF Held
<1>2. Held(r)' /\ i \in Taken /\ i \in Id
  BY <1>1 DEF Held, Taken, Written, Id, TypeOK, TablesOK
<1>3. Written' = Written /\ Taken' = Taken
  BY <1>1, <1>2, TakenStep DEF Written, Ended
<1>4. i \notin called /\ i \notin observations
  BY <1>1 DEF Claimed, AdapterOncePerIntent, Fresh
<1> HIDE DEF i
<1>5. Refusals' = Refusals
  BY <1>1, <1>3 DEF Refusals
<1>6. Life!Call(i)
  BY <1>1, <1>2, <1>3, <1>4, <1>5 DEF Life!Call, Refusals
<1>7. \A q \in Runner : pc'[q] \in {"claimed", "calling"} => at'[q] \notin observations'
  BY <1>1 DEF Stays, Fresh
<1>8. Fresh'
  BY <1>1, <1>3, <1>7 DEF Fresh
<1>9. QED
  BY <1>2, <1>6, <1>8 DEF LifeStep, Life!LifeNext

LEMMA LifeSettled ==
  ASSUME TypeOK, Fresh, Claimed, Accounted, NEW r \in Runner, Settle(r)
  PROVE  LifeStep /\ Fresh'
<1>1. /\ Stays(r) /\ pc[r] \in {"settling", "noted_failed"} /\ pc'[r] \in {"idle", "recheck"}
      /\ at[r] \in Written
      /\ status'[at[r]] \in {"observed", "failed"} \/ UNCHANGED status
      /\ \A i \in Id : i # at[r] => status'[i] = status[i]
      /\ UNCHANGED <<intents, observations, called, performed, abandoned>>
      /\ swallowed'.observation = swallowed.observation
  BY SettleMoves DEF OnlyMarks, Swallowable
<1>2. at[r] \in Ended /\ at[r] \in Taken /\ Held(r) /\ ~Held(r)'
  BY <1>1 DEF Accounted, Noted, Taken, Held, Ended
<1>3. Taken' = Taken /\ Taken \subseteq Written /\ Written \subseteq Id
  BY <1>1, <1>2, TakenStep DEF Ended, Written, Id, TypeOK, TablesOK
<1>4. /\ \A i \in Written \ Taken : status'[i] = status[i]
      /\ \A i \in Taken : status'[i] = status[i] \/ status'[i] # "validated"
  BY <1>1, <1>2, <1>3
<1>5. QED
  BY <1>1, <1>2, <1>3, <1>4, LifeKept DEF LifeStep

LEMMA LifeCrashed ==
  ASSUME TypeOK, Fresh, Claimed, NEW r \in Runner, Crash(r)
  PROVE  LifeStep /\ Fresh'
<1>1. /\ Stays(r) /\ pc'[r] \in {"idle", "recheck"} /\ ~Held(r)'
      /\ abandoned' = IF Held(r) THEN abandoned \cup {at[r]} ELSE abandoned
      /\ UNCHANGED <<intents, status, observations, called, performed, swallowed>>
  BY CrashMoves DEF Held
<1>2. Held(r) => at[r] \in Written
  BY AtWritten DEF Held, Working
<1>3. Taken' = Taken
  BY <1>1, TakenStep DEF Ended, Written
<1>4. QED
  BY <1>1, <1>2, <1>3, LifeKept DEF LifeStep, Taken

\* Every step of the runners is a step in the life of one intent, or none.
LEMMA LifeSteps == TypeOK /\ Fresh /\ Claimed /\ Accounted /\ [Next]_vars => LifeStep /\ Fresh'
<1> SUFFICES ASSUME TypeOK, Fresh, Claimed, Accounted, [Next]_vars PROVE LifeStep /\ Fresh'
  OBVIOUS
<1>1. ASSUME NEW r \in Runner, Stays(r), ~Held(r), ~Held(r)',
             UNCHANGED <<intents, status, observations, called, performed, abandoned>>,
             swallowed'.observation = swallowed.observation
      PROVE  LifeStep /\ Fresh'
  <2>1. Taken' = Taken /\ pc'[r] \notin {"claimed", "calling"}
    BY <1>1, TakenStep DEF Written, Held, Ended
  <2>2. QED
    BY <1>1, <2>1, LifeKept DEF LifeStep
<1>2. ASSUME NEW r \in Runner, NEW t \in Target, NEW c \in Declared, Emit(r, t, c)
      PROVE  LifeStep /\ Fresh'
  BY <1>1, <1>2, EmitMoves DEF Held
<1>3. ASSUME NEW r \in Runner, Drain(r) PROVE LifeStep /\ Fresh'
  BY <1>1, <1>3, DrainMoves DEF Held
<1>4. ASSUME NEW r \in Runner, Recheck(r) PROVE LifeStep /\ Fresh'
  BY <1>1, <1>4, RecheckMoves DEF Held, OnlyMarks, Swallowable
<1>5. ASSUME NEW r \in Runner, Observe(r) PROVE LifeStep /\ Fresh'
  BY <1>5, ObserveMoves, LifeObserved DEF Held
<1>6. ASSUME NEW r \in Runner, RecordEffect(r) PROVE LifeStep /\ Fresh'
  <2>1. /\ Stays(r) /\ at'[r] = at[r] /\ at[r] \in Written /\ Held(r) /\ Held(r)'
        /\ pc'[r] \notin {"claimed", "calling"}
        /\ UNCHANGED <<intents, status, observations, called, performed, abandoned, swallowed>>
    BY <1>6, RecordEffectMoves DEF Held
  <2>2. Taken' = Taken /\ at[r] \in Taken
    BY <2>1, TakenStep DEF Written, Taken, Ended
  <2>3. QED
    BY <2>1, <2>2, LifeKept DEF LifeStep
<1>7. ASSUME Outside \/ UNCHANGED vars PROVE LifeStep /\ Fresh'
  <2>1. UNCHANGED <<intents, status, observations, pc, at, called, performed, abandoned, swallowed>>
    BY <1>7, OutsideMoves
  <2>2. Taken' = Taken /\ Written' = Written
    BY <2>1 DEF Taken, Held, Written
  <2>3. Refusals' = Refusals
    BY <2>1, <2>2 DEF Refusals
  <2>4. QED
    BY <2>1, <2>2, <2>3 DEF LifeStep, Mapped, Fresh
<1>8. ASSUME NEW r \in Runner, Runs(r) PROVE LifeStep /\ Fresh'
  BY <1>2, <1>3, <1>4, <1>5, <1>6, <1>8, LifeRecorded, LifeRefused, LifeClaimed, LifeLookedUp,
     LifeCalled, LifeSettled, LifeCrashed DEF Runs, Dispatching
<1>9. QED
  BY <1>7, <1>8, NextSplit

\* Runners, drains, rechecks, racing state rows, crashes and writes that fail
\* together give every intent one life: claimed or refused for good, called once
\* and only under the claim, what is observed of it kept (dispatcher.js:215-315,
\* state.js:3586-3690).
THEOREM DispatchImplementsLife == Spec => ImplementsLife
<1>1. Init => Claimed /\ Accounted /\ Fresh /\ Life!LifeInit
  <2>1. Init => Claimed /\ Accounted
    BY DEF Init, Claimed, AdapterOncePerIntent, Held, Accounted, AccountedFor, Noted, Written
  <2>2. Init => Written = {} /\ Taken = {} /\ called = {} /\ observations = {} /\ performed = {}
    BY DEF Init, Written, Taken, Held, Swallowable
  <2>3. Init => Fresh /\ Life!LifeInit
    BY <2>2 DEF Fresh, Life!LifeInit
  <2>4. QED
    BY <2>1, <2>3
<1>2. LifeStep <=> [Life!LifeNext]_(Life!life)
  BY DEF LifeStep, Mapped, Refusals, Life!life
<1>3. TypeOK /\ Fresh /\ Claimed /\ Accounted /\ [Next]_vars
        => [Life!LifeNext]_(Life!life) /\ (Fresh /\ Claimed /\ Accounted)'
  BY <1>2, LifeSteps, ClaimedStep, AccountedStep
<1>4. Spec => Life!LifeInit /\ [][Life!LifeNext]_(Life!life)
  BY <1>1, <1>3, TypeCorrect, PTL DEF Spec
<1>5. QED
  BY <1>4, PTL DEF ImplementsLife, Life!LifeSpec

=============================================================================
