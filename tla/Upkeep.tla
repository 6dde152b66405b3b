------------------------------- MODULE Upkeep -------------------------------
(***************************************************************************)
(* The upkeep of one machine: the proxy keeps a maintenance worker beside  *)
(* its event loop (proxy/modules/maintenance-child.js), starts it again    *)
(* when it dies, and passes it the operator's "run this task now"          *)
(* (POST /api/maintenance/run in proxy/server.js); the worker              *)
(* (bin/troth-maintenance.js) ticks through its tasks                      *)
(* (shared-core/background-worker.js), yields to the operator's pause      *)
(* (shared-core/maintenance-gate.js) and to the ledger rows of every other *)
(* runner, the lease.                                                      *)
(*                                                                         *)
(* Times are not numbers.  A ledger row of a task is fresh until Expire    *)
(* says its cadence has passed, a timer is an action that may fire, and    *)
(* the growing pause between restarts is left out with the wording of the  *)
(* notes.  The lines of a pipe are a set: they may be read in any order.   *)
(***************************************************************************)
EXTENDS Naturals, Sequences, FiniteSets

CONSTANTS
  Caller,      \* the requests for a run that reach the proxy, one call each
  Tasks,       \* the worker's task list, in its order
  TaskOf,      \* the task each caller asks for
  MaxDeaths    \* bound: deaths of the worker and spawns that come to nothing

ASSUME UpkeepAssumption ==
  /\ Tasks \in Seq(STRING)
  /\ TaskOf \in [Caller -> {Tasks[i] : i \in 1..Len(Tasks)}]
  /\ MaxDeaths \in Nat

VARIABLES
  host,        \* the proxy: "up", "stopping" after stop(), "gone"
  handle,      \* its `child`: "none", "child", or "deaf" (see Spawned)
  restart,     \* restartTimer is set
  announced,   \* taskNames is not empty; never emptied again
  seq,         \* runSeq
  idOf,        \* each caller's id in pendingRuns, 0 when it has no entry
  reply,       \* where each caller's request stands
  proc,        \* the worker process: "none", "up", "stopping"
  orders,      \* run lines the worker was sent and has not answered
  lines,       \* lines the worker wrote and the proxy has not read
  at,          \* the task of the cycle that is in its run, 0 between cycles
  last,        \* the tasks whose lastRun is within their cadence
  recent,      \* foreground activity within the idle threshold
  fresh,       \* the tasks with a ledger row within their cadence
  paused,      \* the gate file exists
  deaths,
  cut          \* history: the task behind which the last run found the budget of
               \* its cycle used up, 0 when it found some left

hostVars == <<host, handle, restart, announced, seq, idOf, reply>>
loopVars == <<at, last, recent>>
pipeVars == <<orders, lines>>
vars == <<hostVars, proc, pipeVars, loopVars, fresh, paused, deaths, cut>>

TaskSet == {Tasks[i] : i \in 1..Len(Tasks)}
Settled == {"ok", "failed"}
Ready == [kind |-> "ready"]
Ran(o, good) == [kind |-> "ran", id |-> o.id, for |-> o.for, ok |-> good]

(* `id` is all the code sends; `for` is a note of the model, which no       *)
(* action reads, saying whose run the line is about.                        *)
Orders == [id : Nat, for : Caller]
Answers == [kind : {"ran"}, id : Nat, for : Caller, ok : BOOLEAN]

Pending == {r \in Caller : reply[r] = "pending"}

(* The runs of S leave pendingRuns and their callers get an answer.         *)
Settle(S, answer) ==
  /\ reply' = [r \in Caller |-> IF r \in S THEN answer ELSE reply[r]]
  /\ idOf' = [r \in Caller |-> IF r \in S THEN 0 ELSE idOf[r]]

\* Mutant: numbered by what is waiting.
NextIdBySize == Cardinality(Pending) + 1

(* Ids are never used again, not even by the run after a restart.           *)
NextId == seq + 1

-----------------------------------------------------------------------------
(* The proxy's side: maintenance-child.js and the request that uses it.    *)

\* Mutant: a spawn that throws is only logged.
SpawnedOnce(outcome) ==
  /\ handle' = IF outcome = "stillborn" THEN "child" ELSE outcome
  /\ restart' = FALSE
  /\ IF outcome = "child"
       THEN proc' = "up" /\ lines' = lines \cup {Ready} /\ last' \in SUBSET fresh
       ELSE UNCHANGED <<proc, lines, last>>

(* spawnOnce.  A spawn that throws is tried again after a pause.  One that  *)
(* fails later only raises 'error', which is logged: no 'exit' follows, so  *)
(* the handle stays, deaf, and nothing starts another.  A worker that comes *)
(* up announces its tasks, and remembers of earlier runs what the ledger    *)
(* holds for its own directory; one whose start fails exits without a word. *)
Spawned(outcome) ==
  /\ handle' = IF outcome = "stillborn" THEN "child" ELSE outcome
  /\ restart' = (outcome = "none")
  /\ IF outcome = "child"
       THEN /\ proc' = "up"
            /\ lines' = lines \cup {Ready}
            /\ last' \in SUBSET fresh
       ELSE UNCHANGED <<proc, lines, last>>

RestartTimer ==
  /\ host = "up" /\ restart
  /\ \E outcome \in {"child", "stillborn", "deaf", "none"} :
       /\ Spawned(outcome)
       /\ IF outcome \in {"stillborn", "none"}
            THEN deaths < MaxDeaths /\ deaths' = deaths + 1
            ELSE UNCHANGED deaths
  /\ UNCHANGED <<host, announced, seq, idOf, reply, orders, at, recent,
                 fresh, paused, cut>>

\* Mutant: the exit leaves `child` as it was.
OnExitKeepsChild ==
  /\ host # "gone" /\ handle = "child" /\ proc = "none"
  /\ Settle(Pending, "failed")
  /\ restart' = (host = "up")
  /\ UNCHANGED <<host, handle, announced, seq, proc, pipeVars, loopVars, fresh, paused,
                 deaths, cut>>

(* The 'exit' event: every run that waits is refused, then a restart is     *)
(* scheduled unless the proxy is stopping.                                  *)
OnExit ==
  /\ host # "gone" /\ handle = "child" /\ proc = "none"
  /\ handle' = "none"
  /\ Settle(Pending, "failed")
  /\ restart' = (host = "up")
  /\ UNCHANGED <<host, announced, seq, proc, pipeVars, loopVars, fresh, paused,
                 deaths, cut>>

(* A request to run a task first waits for the tasks to be announced; it    *)
(* does not wait when they already are, or when no worker is to come.       *)
Ask(r) ==
  /\ host = "up" /\ reply[r] = "none"
  /\ reply' = [reply EXCEPT ![r] =
       IF announced \/ (handle = "none" /\ ~restart) THEN "woken" ELSE "waiting"]
  /\ UNCHANGED <<host, handle, restart, announced, seq, idOf, proc, pipeVars, loopVars,
                 fresh, paused, deaths, cut>>

ReadyTimeout(r) ==
  /\ host # "gone" /\ reply[r] = "waiting"
  /\ reply' = [reply EXCEPT ![r] = "woken"]
  /\ UNCHANGED <<host, handle, restart, announced, seq, idOf, proc, pipeVars, loopVars,
                 fresh, paused, deaths, cut>>

(* An unknown name is a 404 and a missing worker a refusal.  Otherwise the  *)
(* run gets the next id and its line is written; the line is lost when no   *)
(* process reads it any more.                                               *)
RunTask(r) ==
  /\ host # "gone" /\ reply[r] = "woken"
  /\ IF announced /\ handle # "none"
       THEN /\ seq' = NextId
            /\ idOf' = [idOf EXCEPT ![r] = NextId]
            /\ reply' = [reply EXCEPT ![r] = "pending"]
            /\ orders' = IF host = "up" /\ proc = "up"
                           THEN orders \cup {[id |-> NextId, for |-> r]} ELSE orders
       ELSE /\ reply' = [reply EXCEPT ![r] = "failed"]
            /\ UNCHANGED <<seq, idOf, orders>>
  /\ UNCHANGED <<host, handle, restart, announced, proc, lines, loopVars, fresh, paused,
                 deaths, cut>>

\* Mutant: the wait for an answer has no end.
RunTimeoutNever(r) == FALSE

RunTimeout(r) ==
  /\ host # "gone" /\ r \in Pending
  /\ Settle({r}, "failed")
  /\ UNCHANGED <<host, handle, restart, announced, seq, proc, pipeVars, loopVars,
                 fresh, paused, deaths, cut>>

ReadReady ==
  /\ host # "gone" /\ Ready \in lines
  /\ lines' = lines \ {Ready}
  /\ announced' = TRUE
  /\ reply' = [r \in Caller |-> IF reply[r] = "waiting" THEN "woken" ELSE reply[r]]
  /\ UNCHANGED <<host, handle, restart, seq, idOf, proc, orders, loopVars, fresh, paused,
                 deaths, cut>>

(* The answer goes to the run with its id, if one still waits; a run that   *)
(* went well gets its ledger row from the request that asked for it.  The   *)
(* row of a run nobody waits for any more is never written.                 *)
ReadRan(m) ==
  LET asking == {r \in Pending : idOf[r] = m.id}
  IN  /\ host # "gone" /\ m \in lines /\ m # Ready
      /\ lines' = lines \ {m}
      /\ Settle(asking, IF m.ok THEN "ok" ELSE "failed")
      /\ fresh' = IF m.ok THEN fresh \cup {TaskOf[r] : r \in asking} ELSE fresh
      /\ UNCHANGED <<host, handle, restart, announced, seq, proc, orders, loopVars,
                     paused, deaths, cut>>

(* stop(), from the proxy's own shutdown: the pending restart is dropped    *)
(* and the worker's stdin ends.                                             *)
Stop ==
  /\ host = "up"
  /\ host' = "stopping" /\ restart' = FALSE
  /\ UNCHANGED <<handle, announced, seq, idOf, reply, proc, pipeVars, loopVars, fresh,
                 paused, deaths, cut>>

(* The proxy is gone: its shutdown is complete, or it was killed.  Its      *)
(* memory, the unread lines and its callers' connections go with it.        *)
HostGone ==
  /\ host' = "gone"
  /\ handle' = "none" /\ restart' = FALSE /\ announced' = FALSE /\ lines' = {}
  /\ Settle({r \in Caller : reply[r] \notin Settled \cup {"none"}}, "failed")
  /\ UNCHANGED <<seq, proc, orders, loopVars, fresh, paused, deaths, cut>>

Close == host = "stopping" /\ HostGone
Crash == host = "up" /\ HostGone

-----------------------------------------------------------------------------
(* The worker's side: troth-maintenance.js and the loop of startWorker.     *)

(* A process that ends takes its loop, its memory and its unread stdin;     *)
(* what it wrote can still be read.                                         *)
ProcessEnds ==
  /\ proc' = "none"
  /\ orders' = {} /\ last' = {} /\ recent' = TRUE /\ at' = 0
  /\ UNCHANGED <<hostVars, lines, fresh, paused, cut>>

Die ==
  /\ proc # "none" /\ deaths < MaxDeaths
  /\ deaths' = deaths + 1
  /\ ProcessEnds

\* Mutant: only the signal of stop() ends the worker.
StdinClosesUnseen ==
  /\ proc = "up" /\ host = "stopping"
  /\ proc' = "stopping"
  /\ UNCHANGED <<hostVars, pipeVars, loopVars, fresh, paused, deaths, cut>>

(* stdin closes, or SIGTERM arrives: no further tick, and an exit soon; the *)
(* cycle in progress goes on until then.                                    *)
StdinCloses ==
  /\ proc = "up" /\ host # "up"
  /\ proc' = "stopping"
  /\ UNCHANGED <<hostVars, pipeVars, loopVars, fresh, paused, deaths, cut>>

Exit == proc = "stopping" /\ ProcessEnds /\ UNCHANGED deaths

(* runNow: outside the tick, whatever the pause, the lease or the tick's    *)
(* own run of the same task say.                                            *)
RunNow(o) ==
  /\ proc # "none" /\ o \in orders
  /\ orders' = orders \ {o}
  /\ \E good \in BOOLEAN :
       lines' = IF host = "gone" THEN lines ELSE lines \cup {Ran(o, good)}
  /\ UNCHANGED <<hostVars, proc, loopVars, fresh, paused, deaths, cut>>

\* Mutant: a task that is not due ends the cycle.
DueOrBreak(from, seen, rows) ==
  {i \in {from} \cap 1..Len(Tasks) : Tasks[i] \notin seen \cup rows}

(* The tasks a cycle at `from` still has to run.                            *)
Due(from, seen, rows) == {i \in from..Len(Tasks) : Tasks[i] \notin seen \cup rows}

(* One turn of the loop, from task `from` to its next await: a task that    *)
(* ran within its cadence, here or by the ledger anywhere, is passed over,  *)
(* and what the ledger says is remembered; the first other task is started. *)
(* With the budget used up, or no task left, the timer is set again.        *)
GoOn(from, seen, rows, over) ==
  LET due == IF over THEN {} ELSE Due(from, seen, rows)
      passed(i) == {Tasks[j] : j \in from..(i - 1)} \cap rows
  IN  IF due = {}
        THEN at' = 0 /\ last' = IF over THEN seen ELSE seen \cup passed(Len(Tasks) + 1)
        ELSE \E i \in due : /\ \A j \in due : i <= j
                            /\ at' = i /\ last' = seen \cup passed(i)

\* Mutant: the gate is not read.
TickUngated ==
  /\ proc = "up" /\ at = 0 /\ ~recent
  /\ GoOn(1, last, fresh, FALSE)
  /\ UNCHANGED <<hostVars, proc, pipeVars, recent, fresh, paused, deaths, cut>>

(* A tick opens a cycle unless the gate is closed or someone is working.    *)
Tick ==
  /\ proc = "up" /\ at = 0
  /\ ~paused /\ ~recent
  /\ GoOn(1, last, fresh, FALSE)
  /\ UNCHANGED <<hostVars, proc, pipeVars, recent, fresh, paused, deaths, cut>>

(* The run is over, well or not.  Its row is written after it, at best      *)
(* effort; a run that outlasted the budget ends the cycle behind it, and    *)
(* any run may: the drain's own budget is twice the cycle's.                *)
FinishTask ==
  /\ proc # "none" /\ at # 0
  /\ fresh' \in {fresh, fresh \cup {Tasks[at]}}
  /\ cut' \in {0, at}
  /\ GoOn(at + 1, last \cup {Tasks[at]}, fresh', cut' # 0)
  /\ UNCHANGED <<hostVars, proc, pipeVars, recent, paused, deaths>>

-----------------------------------------------------------------------------
(* The operator, the other runners and the passing of time.                 *)

(* The ping of a request that counts as activity; it goes to a live worker. *)
Foreground ==
  /\ host = "up" /\ proc = "up"
  /\ recent' = TRUE
  /\ UNCHANGED <<hostVars, proc, pipeVars, at, last, fresh, paused, deaths,
                 cut>>

IdleLongEnough ==
  /\ proc # "none" /\ recent' = FALSE
  /\ UNCHANGED <<hostVars, proc, pipeVars, at, last, fresh, paused, deaths,
                 cut>>

(* The button, or the file put there or removed by hand.                    *)
SetGate ==
  /\ host # "gone"
  /\ paused' = ~paused
  /\ UNCHANGED <<hostVars, proc, pipeVars, loopVars, fresh, deaths, cut>>

(* The entity daemon, a session hook or another proxy records its own run.  *)
RunElsewhere(t) ==
  /\ host # "gone"
  /\ fresh' = fresh \cup {t}
  /\ UNCHANGED <<hostVars, proc, pipeVars, loopVars, paused, deaths, cut>>

(* The cadence of a task passes, since its row or since this worker's run.  *)
Expire(t) ==
  /\ host # "gone"
  /\ \/ fresh' = fresh \ {t} /\ UNCHANGED last
     \/ last' = last \ {t} /\ UNCHANGED fresh
  /\ UNCHANGED <<hostVars, proc, pipeVars, at, recent, paused, deaths, cut>>

-----------------------------------------------------------------------------
Init ==
  /\ host = "up" /\ announced = FALSE
  /\ seq = 0 /\ idOf = [r \in Caller |-> 0] /\ reply = [r \in Caller |-> "none"]
  /\ handle \in {"child", "deaf", "none"}
  /\ restart = (handle = "none")
  /\ proc \in (IF handle = "child" THEN {"up", "none"} ELSE {"none"})
  /\ lines = (IF proc = "up" THEN {Ready} ELSE {})
  /\ orders = {} /\ last = {} /\ recent = TRUE /\ at = 0
  /\ fresh \in SUBSET TaskSet /\ paused \in BOOLEAN
  /\ deaths = 0 /\ cut = 0

Loop == Tick \/ FinishTask
Request(r) == Ask(r) \/ ReadyTimeout(r) \/ RunTask(r) \/ RunTimeout(r)
Supervise == RestartTimer \/ OnExit \/ Stop \/ Close \/ Crash
Process == Die \/ StdinCloses \/ Exit
Around == Foreground \/ IdleLongEnough \/ SetGate

Next ==
  \/ Loop \/ Supervise \/ Process \/ Around \/ ReadReady
  \/ \E r \in Caller : Request(r)
  \/ \E o \in orders : RunNow(o)
  \/ \E m \in lines : ReadRan(m)
  \/ \E t \in TaskSet : RunElsewhere(t) \/ Expire(t)

Spec == Init /\ [][Next]_vars

(* Timers fire, pipes are read, events are delivered, a closed process      *)
(* exits and a task's run comes to an end.  Nothing makes an operator ask,  *)
(* a worker die, a row age, or a task that was asked for be run.            *)
Fairness ==
  /\ WF_vars(Loop)
  /\ WF_vars(RestartTimer) /\ WF_vars(OnExit) /\ WF_vars(Close)
  /\ WF_vars(StdinCloses) /\ WF_vars(Exit)
  /\ WF_vars(ReadReady)
  /\ \A r \in Caller :
       WF_vars(ReadyTimeout(r)) /\ WF_vars(RunTask(r)) /\ WF_vars(RunTimeout(r))

FairSpec == Spec /\ Fairness

-----------------------------------------------------------------------------
(* Types; a restart is to come only when there is no child, and a task runs *)
(* only in a process.                                                       *)
TypeOK ==
  /\ host \in {"up", "stopping", "gone"} /\ handle \in {"none", "child", "deaf"}
  /\ restart \in BOOLEAN /\ (restart => handle = "none") /\ announced \in BOOLEAN
  /\ seq \in Nat /\ idOf \in [Caller -> Nat]
  /\ reply \in [Caller -> {"none", "waiting", "woken", "pending"} \cup Settled]
  /\ proc \in {"none", "up", "stopping"}
  /\ orders \subseteq Orders /\ lines \subseteq Answers \cup {Ready}
  /\ at \in 0..Len(Tasks) /\ (proc = "none" => at = 0)
  /\ recent \in BOOLEAN /\ paused \in BOOLEAN
  /\ last \subseteq TaskSet /\ fresh \subseteq TaskSet
  /\ deaths \in 0..MaxDeaths /\ cut \in 0..Len(Tasks)

(* Who is told that the task ran has had it run: an answer that a worker    *)
(* wrote before it died, read after the next one came up, is never taken    *)
(* for the answer to a later request.                                       *)
AnsweredForItself ==
  [][\A r \in Caller : (r \in Pending /\ reply'[r] = "ok") =>
       \E m \in lines \cap Answers : m.for = r /\ m.ok]_vars

(* Every request is answered, whatever becomes of the worker it was sent to *)
(* (dead before reading it, dead in the run, never there, stopped): a       *)
(* request starts unasked and stays settled, so it is one or the other      *)
(* again and again.  A proxy that goes takes its callers' connections.      *)
EveryRequestSettles == \A r \in Caller : []<>(reply[r] \in Settled \cup {"none"})

(* The proxy keeps its worker alive: as long as it runs there is a worker   *)
(* again and again, except after a spawn that failed without an exit.       *)
KeptAlive == []<>(proc = "up" \/ host # "up" \/ handle = "deaf")

(* The worker leaves with the proxy, stopped or killed, for good: from some *)
(* point on there is a proxy or there is no worker.                         *)
LeavesWithTheProxy == <>[](host = "up" \/ proc = "none")

(* A pause that lasts ends the scheduled work: the cycle it found in        *)
(* progress is the last.                                                    *)
PauseQuiets == <>[]paused => <>[](at = 0)

(* A task waits for ever only behind runs before it in the list: once the   *)
(* machine is left alone, not paused and with a worker, and cycles no       *)
(* longer break behind a task ahead of it, a task has run here or elsewhere *)
(* again and again (background-worker.js:2060).  The break starts the next  *)
(* cycle at the head of the list: a drain that outlasts the budget whenever *)
(* it runs, for as long as its backlog lasts, keeps the rest waiting (:1313 *)
(* against :21).                                                            *)
LeftAlone == host = "up" /\ handle # "deaf" /\ ~paused /\ ~recent
TurnComes ==
  \A i \in 1..Len(Tasks) :
    <>[](LeftAlone /\ cut \notin 1..(i - 1)) => []<>(Tasks[i] \in last \cup fresh)
=============================================================================
