---------------------------- MODULE UpkeepProofs ----------------------------
(***************************************************************************)
(* Safety of the upkeep's requests, for any callers and any task list.     *)
(***************************************************************************)
EXTENDS Upkeep, TLAPS

-----------------------------------------------------------------------------
(* The loop keeps to its task list.                                        *)

LEMMA TaskIn ==
  ASSUME NEW i \in 1..Len(Tasks)
  PROVE  Tasks[i] \in TaskSet
  BY DEF TaskSet

LEMMA TasksCounted == Len(Tasks) \in Nat
  BY UpkeepAssumption

LEMMA GoOnStays ==
  ASSUME NEW from \in Nat, from # 0, NEW seen \in SUBSET TaskSet, NEW rows \in SUBSET TaskSet,
         NEW over \in BOOLEAN, GoOn(from, seen, rows, over)
  PROVE  at' \in 0..Len(Tasks) /\ last' \in SUBSET TaskSet
<1> DEFINE due == IF over THEN {} ELSE Due(from, seen, rows)
           passed(i) == {Tasks[j] : j \in from..(i - 1)} \cap rows
<1>1. due \subseteq 1..Len(Tasks)
  BY TasksCounted DEF Due
<1>2. \A i : passed(i) \subseteq TaskSet
  OBVIOUS
<1>3. CASE due = {}
  <2>1. at' = 0 /\ (last' = seen \/ last' = seen \cup passed(Len(Tasks) + 1))
    BY <1>3 DEF GoOn
  <2>2. QED
    BY <2>1, <1>2, TasksCounted
<1>4. CASE due # {}
  <2>1. PICK i \in due : at' = i /\ last' = seen \cup passed(i)
    BY <1>4 DEF GoOn
  <2>2. QED
    BY <2>1, <1>1, <1>2, TasksCounted
<1>5. QED
  BY <1>3, <1>4

-----------------------------------------------------------------------------
(* Type correctness.                                                       *)

LEMMA SettleTyped ==
  ASSUME TypeOK, NEW S \in SUBSET Caller, NEW answer \in Settled, Settle(S, answer)
  PROVE  /\ reply' \in [Caller -> {"none", "waiting", "woken", "pending"} \cup Settled]
         /\ idOf' \in [Caller -> Nat]
  BY DEF Settle, TypeOK

LEMMA InitTyped == Init => TypeOK
<1> SUFFICES ASSUME Init PROVE TypeOK
  OBVIOUS
<1>1. /\ host \in {"up", "stopping", "gone"} /\ handle \in {"none", "child", "deaf"}
      /\ restart \in BOOLEAN /\ (restart => handle = "none") /\ announced \in BOOLEAN
      /\ recent \in BOOLEAN /\ paused \in BOOLEAN
  BY Zenon DEF Init
<1>2. seq \in Nat /\ idOf \in [Caller -> Nat] /\ orders \subseteq Orders
  BY DEF Init
<1>3. /\ proc \in {"none", "up", "stopping"} /\ lines \subseteq Answers \cup {Ready}
      /\ last \subseteq TaskSet /\ fresh \subseteq TaskSet
  BY DEF Init
<1>4. reply \in [Caller -> {"none", "waiting", "woken", "pending"} \cup Settled]
  BY DEF Init
<1>5. /\ at \in 0..Len(Tasks) /\ (proc = "none" => at = 0)
      /\ deaths \in 0..MaxDeaths /\ cut \in 0..Len(Tasks)
  BY UpkeepAssumption, TasksCounted DEF Init
<1>6. QED
  BY <1>1, <1>2, <1>3, <1>4, <1>5 DEF TypeOK

LEMMA SuperviseTyped == TypeOK /\ Supervise => TypeOK'
<1> SUFFICES ASSUME TypeOK, Supervise PROVE TypeOK'
  OBVIOUS
<1> USE DEF hostVars, pipeVars, loopVars
<1>1. CASE RestartTimer
  <2>1. PICK outcome \in {"child", "stillborn", "deaf", "none"} :
          /\ Spawned(outcome)
          /\ IF outcome \in {"stillborn", "none"}
               THEN deaths < MaxDeaths /\ deaths' = deaths + 1 ELSE UNCHANGED deaths
    BY <1>1 DEF RestartTimer
  <2>2. deaths' \in 0..MaxDeaths
    BY <2>1, UpkeepAssumption DEF TypeOK
  <2>3. /\ handle' \in {"none", "child", "deaf"} /\ restart' \in BOOLEAN
        /\ restart' => handle' = "none"
        /\ proc' \in {"none", "up", "stopping"} /\ (proc' = "none" => proc = "none")
        /\ lines' \subseteq Answers \cup {Ready} /\ last' \subseteq TaskSet
    BY <2>1 DEF Spawned, TypeOK
  <2>4. QED
    BY <1>1, <2>2, <2>3 DEF RestartTimer, TypeOK
<1>2. CASE OnExit
  <2>1. Settle(Pending, "failed") /\ Pending \in SUBSET Caller /\ "failed" \in Settled
    BY <1>2 DEF OnExit, Pending, Settled
  <2>2. QED
    BY <1>2, <2>1, SettleTyped DEF OnExit, TypeOK
<1>3. CASE Stop
  BY <1>3 DEF Stop, TypeOK
<1>4. CASE Close \/ Crash
  <2>1. HostGone
    BY <1>4 DEF Close, Crash
  <2>2. "failed" \in Settled
    BY DEF Settled
  <2>3. QED
    BY <2>1, <2>2, SettleTyped DEF HostGone, TypeOK
<1>5. QED
  BY <1>1, <1>2, <1>3, <1>4 DEF Supervise

LEMMA RequestTyped == ASSUME NEW r \in Caller PROVE TypeOK /\ Request(r) => TypeOK'
<1> SUFFICES ASSUME TypeOK, Request(r) PROVE TypeOK'
  OBVIOUS
<1> USE DEF hostVars, pipeVars, loopVars
<1>1. CASE Ask(r)
  BY <1>1 DEF Ask, TypeOK
<1>2. CASE ReadyTimeout(r)
  BY <1>2 DEF ReadyTimeout, TypeOK
<1>3. CASE RunTask(r)
  <2>1. CASE announced /\ handle # "none"
    <3>1. NextId \in Nat /\ [id |-> NextId, for |-> r] \in Orders
      BY DEF NextId, TypeOK, Orders
    <3>2. orders' \subseteq Orders
      BY <1>3, <2>1, <3>1 DEF RunTask, TypeOK
    <3>3. QED
      BY <1>3, <2>1, <3>1, <3>2 DEF RunTask, TypeOK
  <2>2. CASE ~(announced /\ handle # "none")
    BY <1>3, <2>2 DEF RunTask, TypeOK, Settled
  <2>3. QED
    BY <2>1, <2>2
<1>4. CASE RunTimeout(r)
  <2>1. Settle({r}, "failed") /\ "failed" \in Settled
    BY <1>4 DEF RunTimeout, Settled
  <2>2. QED
    BY <1>4, <2>1, SettleTyped DEF RunTimeout, TypeOK
<1>5. QED
  BY <1>1, <1>2, <1>3, <1>4 DEF Request

LEMMA ReadTyped == ASSUME TypeOK, ReadReady \/ \E m \in lines : ReadRan(m) PROVE TypeOK'
<1> USE DEF hostVars, pipeVars, loopVars
<1>1. CASE ReadReady
  BY <1>1 DEF ReadReady, TypeOK
<1>2. ASSUME NEW m \in lines, ReadRan(m) PROVE TypeOK'
  <2> DEFINE asking == {r \in Pending : idOf[r] = m.id}
             answer == IF m.ok THEN "ok" ELSE "failed"
  <2>1. asking \in SUBSET Caller /\ answer \in Settled /\ Settle(asking, answer)
    BY <1>2 DEF ReadRan, Pending, Settled
  <2>2. fresh' \subseteq TaskSet
    <3>1. {TaskOf[r] : r \in asking} \subseteq TaskSet
      BY <2>1, UpkeepAssumption DEF TaskSet
    <3>2. QED
      BY <1>2, <3>1 DEF ReadRan, TypeOK
  <2>3. QED
    BY <1>2, <2>1, <2>2, SettleTyped DEF ReadRan, TypeOK
<1>3. QED
  BY <1>1, <1>2

LEMMA ProcessTyped == ASSUME TypeOK, Process \/ \E o \in orders : RunNow(o) PROVE TypeOK'
<1> USE DEF hostVars, pipeVars, loopVars
<1>1. CASE Die \/ Exit
  <2>1. ProcessEnds /\ deaths' \in 0..MaxDeaths
    BY <1>1, UpkeepAssumption DEF Die, Exit, TypeOK
  <2>2. QED
    BY <2>1, TasksCounted DEF ProcessEnds, TypeOK
<1>2. CASE StdinCloses
  BY <1>2 DEF StdinCloses, TypeOK
<1>3. ASSUME NEW o \in orders, RunNow(o) PROVE TypeOK'
  <2>1. \A good \in BOOLEAN : Ran(o, good) \in Answers
    BY DEF Ran, Answers, TypeOK, Orders
  <2>2. lines' \subseteq Answers \cup {Ready}
    BY <1>3, <2>1 DEF RunNow, TypeOK
  <2>3. QED
    BY <1>3, <2>2 DEF RunNow, TypeOK
<1>4. QED
  BY <1>1, <1>2, <1>3 DEF Process

LEMMA LoopTyped == ASSUME TypeOK, Loop PROVE TypeOK'
<1> USE DEF hostVars, pipeVars
<1>1. CASE Tick
  <2>1. at' \in 0..Len(Tasks) /\ last' \in SUBSET TaskSet
    <3>1. GoOn(1, last, fresh, FALSE)
      BY <1>1, Zenon DEF Tick
    <3>2. last \in SUBSET TaskSet /\ fresh \in SUBSET TaskSet
      BY DEF TypeOK
    <3>3. FALSE \in BOOLEAN /\ 1 \in Nat /\ 1 # 0
      OBVIOUS
    <3>4. QED
      BY <3>1, <3>2, <3>3, GoOnStays, Zenon
  <2>2. QED
    BY <1>1, <2>1 DEF Tick, TypeOK
<1>2. CASE FinishTask
  <2>1. Tasks[at] \in TaskSet /\ at + 1 \in Nat /\ at + 1 # 0
    BY <1>2, TasksCounted, TaskIn DEF FinishTask, TypeOK
  <2>2. fresh' \in SUBSET TaskSet
    BY <1>2, <2>1 DEF FinishTask, TypeOK
  <2>3. cut' \in 0..Len(Tasks) /\ (cut' # 0) \in BOOLEAN
    BY <1>2, TasksCounted DEF FinishTask, TypeOK
  <2>4. /\ GoOn(at + 1, last \cup {Tasks[at]}, fresh', cut' # 0)
        /\ last \cup {Tasks[at]} \in SUBSET TaskSet
    BY <1>2, <2>1 DEF FinishTask, TypeOK
  <2>5. at' \in 0..Len(Tasks) /\ last' \in SUBSET TaskSet
    BY <2>1, <2>2, <2>3, <2>4, GoOnStays
  <2>6. QED
    BY <1>2, <2>2, <2>3, <2>5 DEF FinishTask, TypeOK
<1>3. QED
  BY <1>1, <1>2 DEF Loop

LEMMA AroundTyped ==
  ASSUME TypeOK, Around \/ \E t \in TaskSet : RunElsewhere(t) \/ Expire(t)
  PROVE  TypeOK'
<1> USE DEF hostVars, pipeVars, loopVars
<1>1. CASE Foreground
  BY <1>1 DEF Foreground, TypeOK
<1>2. CASE IdleLongEnough
  BY <1>2 DEF IdleLongEnough, TypeOK
<1>3. CASE SetGate
  <2>1. paused' \in BOOLEAN
    BY <1>3, Zenon DEF SetGate
  <2>2. QED
    BY <1>3, <2>1 DEF SetGate, TypeOK
<1>4. ASSUME NEW t \in TaskSet, RunElsewhere(t) PROVE TypeOK'
  BY <1>4 DEF RunElsewhere, TypeOK
<1>5. ASSUME NEW t \in TaskSet, Expire(t) PROVE TypeOK'
  BY <1>5 DEF Expire, TypeOK
<1>6. QED
  BY <1>1, <1>2, <1>3, <1>4, <1>5 DEF Around

LEMMA NextTyped == TypeOK /\ [Next]_vars => TypeOK'
<1> SUFFICES ASSUME TypeOK, [Next]_vars PROVE TypeOK'
  OBVIOUS
<1>1. CASE Next
  BY <1>1, SuperviseTyped, RequestTyped, ReadTyped, ProcessTyped, LoopTyped, AroundTyped DEF Next
<1>2. CASE UNCHANGED vars
  BY <1>2 DEF vars, hostVars, pipeVars, loopVars, TypeOK
<1>3. QED
  BY <1>1, <1>2

(* The variables of the supervisor, the pipes and the loop keep to their    *)
(* types; a restart is pending only without a child (maintenance-child.js), *)
(* and a task runs only in a live process (troth-maintenance.js).           *)
THEOREM TypeCorrect == Spec => []TypeOK
  BY InitTyped, NextTyped, PTL DEF Spec


-----------------------------------------------------------------------------
(* Ids.  Whose run a line is about is decided when the run gets its id: as  *)
(* no id is given twice, the run that waits with it is that one.            *)

Fits(id, caller) == id <= seq /\ \A r \in Pending : idOf[r] = id => caller = r

Numbered ==
  /\ \A r \in Pending : idOf[r] <= seq
  /\ \A r, s \in Pending : idOf[r] = idOf[s] => r = s
  /\ \A o \in orders : Fits(o.id, o.for)
  /\ \A m \in lines \cap Answers : Fits(m.id, m.for)

(* A step that gives no id and sends no line keeps it.                      *)
LEMMA NumberedKept ==
  ASSUME Numbered, seq' = seq, Pending' \subseteq Pending,
         \A r \in Pending' : idOf'[r] = idOf[r],
         orders' \subseteq orders, lines' \cap Answers \subseteq lines
  PROVE  Numbered'
<1>1. \A id, caller : Fits(id, caller) => Fits(id, caller)'
  BY DEF Fits
<1>2. (\A r \in Pending : idOf[r] <= seq)'
  BY DEF Numbered
<1>3. (\A r, s \in Pending : idOf[r] = idOf[s] => r = s)'
  BY DEF Numbered
<1>4. (\A o \in orders : Fits(o.id, o.for))'
  BY <1>1 DEF Numbered
<1>5. (\A m \in lines \cap Answers : Fits(m.id, m.for))'
  BY <1>1 DEF Numbered
<1>6. QED
  BY <1>2, <1>3, <1>4, <1>5 DEF Numbered

LEMMA SettleNumbered ==
  ASSUME TypeOK, Numbered, NEW S \in SUBSET Caller, NEW answer \in Settled,
         Settle(S, answer), seq' = seq, orders' \subseteq orders, lines' \subseteq lines
  PROVE  Numbered'
<1>1. Pending' \subseteq Pending /\ \A r \in Pending' : idOf'[r] = idOf[r]
  BY DEF Settle, Pending, Settled, TypeOK
<1>2. QED
  BY <1>1, NumberedKept

LEMMA RequestNumbered ==
  ASSUME TypeOK, Numbered, NEW r \in Caller, Request(r)
  PROVE  Numbered'
<1> USE DEF hostVars, pipeVars
<1>1. CASE Ask(r) \/ ReadyTimeout(r)
  <2>1. Pending' \subseteq Pending /\ UNCHANGED <<seq, idOf, orders, lines>>
    BY <1>1 DEF Ask, ReadyTimeout, Pending, TypeOK
  <2>2. QED
    BY <2>1, NumberedKept
<1>2. CASE RunTask(r) /\ ~(announced /\ handle # "none")
  <2>1. Pending' \subseteq Pending /\ UNCHANGED <<seq, idOf, orders, lines>>
    BY <1>2 DEF RunTask, Pending, TypeOK
  <2>2. QED
    BY <2>1, NumberedKept
<1>3. CASE RunTask(r) /\ announced /\ handle # "none"
  <2>0. PICK n \in Nat : n = seq + 1 /\ seq \in Nat
    BY DEF TypeOK
  <2> DEFINE o == [id |-> n, for |-> r]
  <2>1. /\ seq' = n /\ idOf' = [idOf EXCEPT ![r] = n]
        /\ orders' \subseteq orders \cup {o} /\ lines' = lines
    BY <1>3, <2>0 DEF RunTask, NextId, TypeOK
  <2>2. Pending' = Pending \cup {r} /\ r \notin Pending
    BY <1>3 DEF RunTask, Pending, TypeOK
  <2>3. idOf'[r] = n /\ \A s \in Pending : idOf'[s] = idOf[s] /\ idOf[s] \in Nat
    BY <2>1, <2>2 DEF Pending, TypeOK
  <2>4. ASSUME NEW id \in Nat, NEW c, Fits(id, c) PROVE Fits(id, c)'
    BY <2>0, <2>1, <2>2, <2>3, <2>4 DEF Fits
  <2>5. Fits(n, r)'
    BY <2>0, <2>1, <2>2, <2>3 DEF Fits, Numbered
  <2>6. (\A s \in Pending : idOf[s] <= seq)'
    BY <2>0, <2>1, <2>2, <2>3 DEF Numbered
  <2>7. (\A s, q \in Pending : idOf[s] = idOf[q] => s = q)'
    BY <2>0, <2>1, <2>2, <2>3 DEF Numbered
  <2>8. (\A p \in orders : Fits(p.id, p.for))'
    <3>1. \A p \in orders : Fits(p.id, p.for)'
      BY <2>4 DEF Numbered, TypeOK, Orders
    <3>2. o.id = n /\ o.for = r
      OBVIOUS
    <3>3. QED
      BY <2>1, <2>5, <3>1, <3>2
  <2>9. (\A m \in lines \cap Answers : Fits(m.id, m.for))'
    BY <2>1, <2>4 DEF Numbered, Answers
  <2>10. QED
    BY <2>6, <2>7, <2>8, <2>9 DEF Numbered
<1>4. CASE RunTimeout(r)
  <2>1. Settle({r}, "failed") /\ "failed" \in Settled /\ UNCHANGED <<seq, orders, lines>>
    BY <1>4 DEF RunTimeout, Settled
  <2>2. QED
    BY <2>1, SettleNumbered
<1>5. QED
  BY <1>1, <1>2, <1>3, <1>4 DEF Request

LEMMA SuperviseNumbered == ASSUME TypeOK, Numbered, Supervise PROVE Numbered'
<1> USE DEF hostVars, pipeVars
<1>1. CASE RestartTimer
  <2>1. UNCHANGED <<reply, idOf, seq, orders>> /\ lines' \subseteq lines \cup {Ready}
    BY <1>1 DEF RestartTimer, Spawned
  <2>2. lines' \cap Answers \subseteq lines
    BY <2>1 DEF Ready, Answers
  <2>3. Pending' = Pending
    BY <2>1 DEF Pending
  <2>4. QED
    BY <2>1, <2>2, <2>3, NumberedKept
<1>2. CASE OnExit
  <2>1. Settle(Pending, "failed") /\ Pending \in SUBSET Caller /\ "failed" \in Settled
    BY <1>2 DEF OnExit, Pending, Settled
  <2>2. UNCHANGED <<seq, orders, lines>>
    BY <1>2 DEF OnExit
  <2>3. QED
    BY <2>1, <2>2, SettleNumbered
<1>3. CASE Stop
  BY <1>3, NumberedKept DEF Stop, Pending
<1>4. CASE Close \/ Crash
  <2> DEFINE S == {r \in Caller : reply[r] \notin Settled \cup {"none"}}
  <2>1. Settle(S, "failed") /\ S \in SUBSET Caller /\ "failed" \in Settled
    BY <1>4 DEF Close, Crash, HostGone, Settled
  <2>2. UNCHANGED <<seq, orders>> /\ lines' \subseteq lines
    BY <1>4 DEF Close, Crash, HostGone
  <2>3. QED
    BY <2>1, <2>2, SettleNumbered
<1>5. QED
  BY <1>1, <1>2, <1>3, <1>4 DEF Supervise

LEMMA ReadNumbered ==
  ASSUME TypeOK, Numbered, ReadReady \/ \E m \in lines : ReadRan(m)
  PROVE  Numbered'
<1>1. CASE ReadReady
  <2>1. /\ Pending' \subseteq Pending /\ lines' \subseteq lines
        /\ UNCHANGED <<seq, idOf, orders>>
    BY <1>1 DEF ReadReady, Pending, TypeOK
  <2>2. QED
    BY <2>1, NumberedKept
<1>2. ASSUME NEW m \in lines, ReadRan(m) PROVE Numbered'
  <2> DEFINE asking == {r \in Pending : idOf[r] = m.id}
             answer == IF m.ok THEN "ok" ELSE "failed"
  <2>1. asking \in SUBSET Caller /\ answer \in Settled /\ Settle(asking, answer)
    BY <1>2 DEF ReadRan, Pending, Settled
  <2>2. UNCHANGED <<seq, orders>> /\ lines' \subseteq lines
    BY <1>2 DEF ReadRan
  <2>3. QED
    BY <2>1, <2>2, SettleNumbered
<1>3. QED
  BY <1>1, <1>2

LEMMA ProcessNumbered ==
  ASSUME TypeOK, Numbered, Process \/ \E o \in orders : RunNow(o)
  PROVE  Numbered'
<1> USE DEF hostVars, pipeVars
<1>1. CASE Process
  <2>1. UNCHANGED <<reply, idOf, seq, lines>> /\ orders' \subseteq orders
    BY <1>1 DEF Process, Die, Exit, StdinCloses, ProcessEnds
  <2>2. QED
    BY <2>1, NumberedKept DEF Pending
<1>2. ASSUME NEW o \in orders, RunNow(o) PROVE Numbered'
  <2>1. /\ UNCHANGED <<reply, idOf, seq>> /\ orders' \subseteq orders
        /\ \E good \in BOOLEAN : lines' \subseteq lines \cup {Ran(o, good)}
    BY <1>2 DEF RunNow
  <2>2. PICK good \in BOOLEAN : lines' \subseteq lines \cup {Ran(o, good)}
    BY <2>1
  <2>3. Ran(o, good).id = o.id /\ Ran(o, good).for = o.for
    BY DEF Ran
  <2>4. \A id, caller : Fits(id, caller)' <=> Fits(id, caller)
    BY <2>1 DEF Fits, Pending
  <2>5. \A m \in lines' \cap Answers : Fits(m.id, m.for)
    BY <2>2, <2>3 DEF Numbered
  <2>6. QED
    BY <2>1, <2>4, <2>5 DEF Numbered, Pending
<1>3. QED
  BY <1>1, <1>2

LEMMA RestNumbered ==
  ASSUME Numbered,
         \/ Loop \/ Around \/ UNCHANGED vars
         \/ \E t \in TaskSet : RunElsewhere(t) \/ Expire(t)
  PROVE  Numbered'
<1>1. UNCHANGED <<reply, idOf, seq, orders, lines>>
  BY DEF Loop, Tick, FinishTask, Around, Foreground, IdleLongEnough, SetGate, RunElsewhere,
         Expire, vars, hostVars, pipeVars
<1>2. QED
  BY <1>1, NumberedKept DEF Pending

LEMMA NumberedAlways == Spec => [](TypeOK /\ Numbered)
<1>1. Init => Numbered
  BY DEF Init, Numbered, Pending, Ready, Answers
<1>2. TypeOK /\ Numbered /\ [Next]_vars => Numbered'
  BY RequestNumbered, SuperviseNumbered, ReadNumbered, ProcessNumbered, RestNumbered DEF Next
<1>3. QED
  BY <1>1, <1>2, InitTyped, NextTyped, PTL DEF Spec

(* Of all steps only the reading of an answer tells a caller that its task  *)
(* has run.                                                                 *)
LEMMA ToldByAnAnswer ==
  ASSUME TypeOK, Next, NEW r \in Pending, reply'[r] = "ok"
  PROVE  \E m \in lines : ReadRan(m) /\ idOf[r] = m.id /\ m.ok
<1> USE DEF hostVars, pipeVars
<1>0. r \in Caller /\ reply[r] = "pending"
  BY DEF Pending
<1>1. CASE Loop \/ Around \/ \E t \in TaskSet : RunElsewhere(t) \/ Expire(t)
  <2>1. reply' = reply
    BY <1>1 DEF Loop, Tick, FinishTask, Around, Foreground, IdleLongEnough, SetGate,
                RunElsewhere, Expire
  <2>2. QED
    BY <2>1, <1>0
<1>2. CASE Process \/ ReadReady \/ \E o \in orders : RunNow(o)
  <2>1. reply'[r] = reply[r]
    BY <1>0, <1>2 DEF Process, Die, Exit, StdinCloses, ProcessEnds, RunNow, ReadReady
  <2>2. QED
    BY <2>1, <1>0
<1>3. CASE Supervise
  <2>1. reply'[r] \in {reply[r], "failed"}
    BY <1>0, <1>3 DEF Supervise, RestartTimer, OnExit, Stop, Close, Crash, HostGone, Settle
  <2>2. QED
    BY <2>1, <1>0
<1>4. ASSUME NEW q \in Caller, Request(q)
      PROVE  FALSE
  <2>1. reply'[r] \in {reply[r], "failed", "woken", "waiting", "pending"}
    BY <1>0, <1>4 DEF Request, Ask, ReadyTimeout, RunTask, RunTimeout, Settle, TypeOK
  <2>2. QED
    BY <2>1, <1>0
<1>5. ASSUME NEW m \in lines, ReadRan(m)
      PROVE  idOf[r] = m.id /\ m.ok
  BY <1>0, <1>5 DEF ReadRan, Settle
<1>6. QED
  BY <1>1, <1>2, <1>3, <1>4, <1>5 DEF Next

(* Who is told by the worker's handle that the task ran (maintenance-       *)
(* child.js) is told on an answer to its own run, whatever was lost,        *)
(* restarted or read late in between.                                       *)
THEOREM AnsweredRight == Spec => AnsweredForItself
<1>1. TypeOK /\ Numbered /\ [Next]_vars
        => [\A r \in Caller : (r \in Pending /\ reply'[r] = "ok") =>
              \E m \in lines \cap Answers : m.for = r /\ m.ok]_vars
  <2> SUFFICES ASSUME TypeOK, Numbered, Next, NEW r \in Pending, reply'[r] = "ok"
               PROVE  \E m \in lines \cap Answers : m.for = r /\ m.ok
    OBVIOUS
  <2>1. PICK m \in lines : ReadRan(m) /\ idOf[r] = m.id /\ m.ok
    BY ToldByAnAnswer
  <2>2. m \in Answers
    BY <2>1 DEF ReadRan, TypeOK
  <2>3. m.for = r
    BY <2>1, <2>2 DEF Numbered, Fits
  <2>4. QED
    BY <2>1, <2>2, <2>3
<1>2. QED
  BY <1>1, NumberedAlways, PTL DEF Spec, AnsweredForItself

-----------------------------------------------------------------------------
(* Once the proxy stops or is gone it stays so, and a worker that has left  *)
(* is not followed by another: the safety half of LeavesWithTheProxy, and   *)
(* what the checks of `stopped` in maintenance-child.js are for.            *)
THEOREM NoneStartedAfter ==
  Spec => [][(host # "up" /\ proc = "none") => (host' # "up" /\ proc' = "none")]_vars
<1>1. Next => ((host # "up" /\ proc = "none") => (host' # "up" /\ proc' = "none"))
  <2> SUFFICES ASSUME Next, host # "up", proc = "none" PROVE host' # "up" /\ proc' = "none"
    OBVIOUS
  <2> USE DEF hostVars
  <2>1. CASE Loop \/ Around \/ ReadReady
    BY <2>1 DEF Loop, Tick, FinishTask, Around, Foreground, IdleLongEnough, SetGate, ReadReady
  <2>2. CASE Supervise \/ Process
    BY <2>2 DEF Supervise, RestartTimer, OnExit, Stop, Close, Crash, HostGone, Process, Die,
                StdinCloses, Exit
  <2>3. ASSUME NEW r \in Caller, Request(r) PROVE host' # "up" /\ proc' = "none"
    BY <2>3 DEF Request, Ask, ReadyTimeout, RunTask, RunTimeout
  <2>4. CASE (\E o \in orders : RunNow(o)) \/ (\E m \in lines : ReadRan(m))
    BY <2>4 DEF RunNow, ReadRan
  <2>5. CASE \E t \in TaskSet : RunElsewhere(t) \/ Expire(t)
    BY <2>5 DEF RunElsewhere, Expire
  <2>6. QED
    BY <2>1, <2>2, <2>3, <2>4, <2>5 DEF Next
<1>2. QED
  BY <1>1, PTL DEF Spec

-----------------------------------------------------------------------------
(* The worker and its supervisor.                                          *)

(* A process under a living proxy is the one the proxy holds, and only a    *)
(* proxy that stops lets it leave.                                         *)
Held ==
  /\ host # "gone" /\ proc # "none" => handle = "child"
  /\ host = "gone" => ~restart
  /\ host = "up" => proc # "stopping" /\ (handle = "none" => restart)

LEMMA HeldStep ==
  ASSUME TypeOK, Held, [Next]_vars
  PROVE  Held'
<1> USE DEF Held, hostVars, pipeVars, loopVars
<1>1. CASE UNCHANGED vars \/ Loop \/ Around \/ ReadReady
  <2>1. UNCHANGED <<host, handle, restart, proc>>
    BY <1>1 DEF vars, Loop, Tick, FinishTask, Around, Foreground, IdleLongEnough, SetGate, ReadReady
  <2>2. QED
    BY <2>1
<1>2. CASE RestartTimer
  <2>1. PICK outcome \in {"child", "stillborn", "deaf", "none"} : Spawned(outcome)
    BY <1>2 DEF RestartTimer
  <2>2. proc = "none" /\ host = "up" /\ host' = "up"
    BY <1>2 DEF RestartTimer, TypeOK
  <2>3. QED
    BY <2>1, <2>2 DEF Spawned
<1>3. CASE OnExit \/ Stop
  BY <1>3 DEF OnExit, Stop, TypeOK
<1>4. CASE Close \/ Crash
  BY <1>4 DEF Close, Crash, HostGone
<1>5. CASE Process
  BY <1>5 DEF Process, Die, StdinCloses, Exit, ProcessEnds
<1>6. ASSUME NEW r \in Caller, Request(r) PROVE Held'
  BY <1>6 DEF Request, Ask, ReadyTimeout, RunTask, RunTimeout
<1>7. ASSUME NEW o \in orders, RunNow(o) PROVE Held'
  BY <1>7 DEF RunNow
<1>8. ASSUME NEW m \in lines, ReadRan(m) PROVE Held'
  BY <1>8 DEF ReadRan
<1>9. ASSUME NEW t \in TaskSet, RunElsewhere(t) \/ Expire(t) PROVE Held'
  BY <1>9 DEF RunElsewhere, Expire
<1>10. QED
  BY <1>1, <1>2, <1>3, <1>4, <1>5, <1>6, <1>7, <1>8, <1>9 DEF Next, Supervise

LEMMA HeldAlways == Spec => [](TypeOK /\ Held)
<1>1. Init => Held
  BY DEF Init, Held
<1>2. QED
  BY <1>1, HeldStep, InitTyped, NextTyped, PTL DEF Spec

(* maintenance-child.js:77-95: a restart never meets a worker that still    *)
(* lives: one proxy never has two.                                         *)
THEOREM OneWorker == Spec => [](restart => proc = "none")
<1>1. TypeOK /\ Held => (restart => proc = "none")
  BY DEF TypeOK, Held
<1>2. QED
  BY <1>1, HeldAlways, PTL

(* maintenance-child.js:77-95, the safety half of KeptAlive: while the proxy *)
(* runs there is a worker, the end of one is still to be heard of, or the   *)
(* next is on its way; only a spawn that failed without an exit has neither. *)
AnotherComes ==
  host = "up" => \/ proc = "up"
                 \/ handle = "child" /\ proc = "none"
                 \/ restart
                 \/ handle = "deaf"

(* While the proxy runs a worker is there or to come (AnotherComes).        *)
THEOREM RestartOnTheWay == Spec => []AnotherComes
<1>1. TypeOK /\ Held => AnotherComes
  BY DEF TypeOK, Held, AnotherComes
<1>2. QED
  BY <1>1, HeldAlways, PTL

-----------------------------------------------------------------------------
(* Answers are final.                                                      *)

(* maintenance-child.js:64-70, 133-143: a request that was answered is not  *)
(* answered again, not by the exit of a worker, the timer, a late line or   *)
(* the end of the proxy: the safety half of EveryRequestSettles.            *)
THEOREM SettledForGood ==
  Spec => [][\A r \in Caller : reply[r] \in Settled => reply'[r] = reply[r]]_vars
<1>1. TypeOK /\ [Next]_vars
        => [\A r \in Caller : reply[r] \in Settled => reply'[r] = reply[r]]_vars
  <2> SUFFICES ASSUME TypeOK, Next, NEW r \in Caller, reply[r] \in Settled
               PROVE  reply'[r] = reply[r]
    OBVIOUS
  <2> USE DEF hostVars, Settled
  <2>1. CASE Loop \/ Around \/ Process \/ RestartTimer \/ Stop
             \/ (\E o \in orders : RunNow(o))
             \/ (\E t \in TaskSet : RunElsewhere(t) \/ Expire(t))
    BY <2>1 DEF Loop, Tick, FinishTask, Around, Foreground, IdleLongEnough, SetGate, Process, Die,
                StdinCloses, Exit, ProcessEnds, RestartTimer, Stop, RunNow, RunElsewhere, Expire
  <2>2. CASE OnExit \/ Close \/ Crash
    BY <2>2 DEF OnExit, Close, Crash, HostGone, Settle, Pending
  <2>3. CASE ReadReady
    BY <2>3 DEF ReadReady
  <2>4. ASSUME NEW q \in Caller, Request(q) PROVE reply'[r] = reply[r]
    <3>1. reply[q] \in Settled => FALSE
      BY <2>4 DEF Request, Ask, ReadyTimeout, RunTask, RunTimeout, Pending
    <3>2. QED
      BY <2>4, <3>1 DEF Request, Ask, ReadyTimeout, RunTask, RunTimeout, Settle, TypeOK
  <2>5. ASSUME NEW m \in lines, ReadRan(m) PROVE reply'[r] = reply[r]
    BY <2>5 DEF ReadRan, Settle, Pending
  <2>6. QED
    BY <2>1, <2>2, <2>3, <2>4, <2>5 DEF Next, Supervise
<1>2. QED
  BY <1>1, TypeCorrect, PTL DEF Spec

-----------------------------------------------------------------------------
(* The course of a cycle.                                                  *)

(* Where a turn of the loop may lead: to the end, or to a later task with   *)
(* every task in between remembered.                                       *)
LEMMA GoOnForward ==
  ASSUME NEW from \in Nat, from # 0, NEW seen, NEW rows,
         NEW over \in BOOLEAN, GoOn(from, seen, rows, over)
  PROVE  /\ seen \subseteq last'
         /\ at' # 0 => /\ at' \in from..Len(Tasks) /\ ~over
                       /\ Tasks[at'] \notin seen \cup rows
                       /\ \A j \in from..at' - 1 : Tasks[j] \in last'
         /\ at' = 0 /\ ~over => \A j \in from..Len(Tasks) : Tasks[j] \in last'
<1> DEFINE due == IF over THEN {} ELSE Due(from, seen, rows)
           passed(i) == {Tasks[j] : j \in from..(i - 1)} \cap rows
<1>1. due \subseteq from..Len(Tasks) /\ Len(Tasks) \in Nat
  BY TasksCounted DEF Due
<1>2. CASE due = {}
  <2>1. at' = 0 /\ last' = IF over THEN seen ELSE seen \cup passed(Len(Tasks) + 1)
    BY <1>2 DEF GoOn
  <2>2. ASSUME ~over, NEW j \in from..Len(Tasks) PROVE Tasks[j] \in last'
    <3>1. Tasks[j] \in seen \cup rows
      BY <1>2, <2>2 DEF Due
    <3>2. j \in from..(Len(Tasks) + 1 - 1)
      BY <1>1
    <3>3. QED
      BY <2>1, <2>2, <3>1, <3>2
  <2>3. QED
    BY <2>1, <2>2
<1>3. CASE due # {}
  <2>1. PICK i \in due : (\A j \in due : i <= j) /\ at' = i /\ last' = seen \cup passed(i)
    BY <1>3 DEF GoOn
  <2>2. ~over /\ i \in from..Len(Tasks) /\ i # 0 /\ Tasks[i] \notin seen \cup rows
    BY <1>1, <1>3 DEF Due
  <2>3. ASSUME NEW j \in from..(i - 1) PROVE Tasks[j] \in last'
    <3>1. j \notin due /\ j \in from..Len(Tasks)
      BY <1>1, <2>1, <2>2
    <3>2. Tasks[j] \in seen \cup rows
      BY <2>2, <3>1 DEF Due
    <3>3. QED
      BY <2>1, <3>2
  <2>4. QED
    BY <2>1, <2>2, <2>3
<1>4. QED
  BY <1>2, <1>3

(* background-worker.js:2039-2061, the safety half of PauseQuiets: under a  *)
(* pause no cycle begins, and the one in progress goes only forward through *)
(* the list, so it ends.                                                   *)
OnlyForward == paused => at' = at \/ at' = 0 \/ (at # 0 /\ at' > at)

(* background-worker.js:2060-2079, the safety half of TurnComes: a cycle    *)
(* passes over no task but one that has run within its cadence, here or by  *)
(* the ledger, and remembers that of each; only a run that outlasted the    *)
(* budget leaves the rest of the list for the next cycle, and it is the one *)
(* the cycle broke behind.                                                  *)
NonePassedOver ==
  at' # at =>
    /\ at' # 0 => at' > at /\ \A j \in at + 1 .. at' - 1 : Tasks[j] \in last'
    /\ at' = 0 /\ proc' # "none" =>
         /\ Tasks[at] \in last'
         /\ cut' \in {0, at}
         /\ cut' = 0 => \A j \in at .. Len(Tasks) : Tasks[j] \in last'

LEMMA CycleStep ==
  ASSUME TypeOK, Next
  PROVE  OnlyForward /\ NonePassedOver
<1> USE DEF hostVars, pipeVars, loopVars, OnlyForward, NonePassedOver
<1>0. at \in Nat /\ Len(Tasks) \in Nat
  BY TasksCounted, UpkeepAssumption DEF TypeOK
<1>1. CASE Tick
  <2>1. GoOn(1, last, fresh, FALSE) /\ at = 0 /\ ~paused
    BY <1>1, Zenon DEF Tick
  <2>2. /\ 1 \in Nat /\ 1 # 0 /\ FALSE \in BOOLEAN
    OBVIOUS
  <2>3. at' # 0 => at' \in 1..Len(Tasks) /\ \A j \in 1..at' - 1 : Tasks[j] \in last'
    BY <2>1, <2>2, GoOnForward
  <2>4. QED
    BY <1>0, <2>1, <2>3
<1>2. CASE FinishTask
  <2>1. /\ GoOn(at + 1, last \cup {Tasks[at]}, fresh', cut' # 0)
        /\ at # 0 /\ cut' \in {0, at}
    BY <1>2 DEF FinishTask
  <2>2. at + 1 \in Nat /\ at + 1 # 0 /\ (cut' # 0) \in BOOLEAN
    BY <1>0, <2>1
  <2>3. /\ last \cup {Tasks[at]} \subseteq last'
        /\ at' # 0 => /\ at' \in at + 1..Len(Tasks)
                      /\ \A j \in at + 1..at' - 1 : Tasks[j] \in last'
        /\ at' = 0 /\ ~(cut' # 0) => \A j \in at + 1..Len(Tasks) : Tasks[j] \in last'
    BY <2>1, <2>2, GoOnForward
  <2>4. cut' = 0 => ~(cut' # 0)
    OBVIOUS
  <2>5. \A j \in at..Len(Tasks) : j = at \/ j \in at + 1..Len(Tasks)
    BY <1>0
  <2>6. at' # 0 => at' > at
    BY <1>0, <2>3
  <2>7. Tasks[at] \in last'
    BY <2>3
  <2>8. QED
    BY <2>1, <2>3, <2>4, <2>5, <2>6, <2>7
<1>3. CASE Die \/ Exit
  BY <1>3 DEF Die, Exit, ProcessEnds
<1>4. ASSUME at' = at PROVE OnlyForward /\ NonePassedOver
  BY <1>4
<1>5. CASE Around \/ ReadReady \/ Supervise \/ StdinCloses
           \/ (\E t \in TaskSet : RunElsewhere(t) \/ Expire(t))
  <2>1. at' = at
    BY <1>5 DEF Around, Foreground, IdleLongEnough, SetGate, ReadReady, StdinCloses, Supervise,
       RestartTimer, OnExit, Stop, Close, Crash, HostGone, RunElsewhere, Expire
  <2>2. QED
    BY <1>4, <2>1
<1>6. CASE (\E r \in Caller : Request(r)) \/ (\E o \in orders : RunNow(o)) \/ (\E m \in lines : ReadRan(m))
  <2>1. at' = at
    BY <1>6 DEF Request, Ask, ReadyTimeout, RunTask, RunTimeout, RunNow, ReadRan
  <2>2. QED
    BY <1>4, <2>1
<1>7. QED
  BY <1>1, <1>2, <1>3, <1>5, <1>6 DEF Next, Loop, Process

(* A pause ends the scheduled work (OnlyForward).                           *)
THEOREM PausedCycleRunsOut == Spec => [][OnlyForward]_vars
<1>1. TypeOK /\ [Next]_vars => [OnlyForward]_vars
  BY CycleStep
<1>2. QED
  BY <1>1, TypeCorrect, PTL DEF Spec

(* No task waits behind one that need not run (NonePassedOver).             *)
THEOREM NoTaskPassedOver == Spec => [][NonePassedOver]_vars
<1>1. TypeOK /\ [Next]_vars => [NonePassedOver]_vars
  BY CycleStep
<1>2. QED
  BY <1>1, TypeCorrect, PTL DEF Spec

=============================================================================
