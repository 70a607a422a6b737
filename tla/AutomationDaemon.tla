--------------------------- MODULE AutomationDaemon ---------------------------
(***************************************************************************)
(* The automation daemon and the command line that shares its database        *)
(* (sheprd-automate: daemon.rs, store.rs, runner.rs, approve.rs, cli/run.rs).  *)
(*                                                                          *)
(* One statement on the database is one step, whether the daemon, a run's     *)
(* thread or a command makes it.  The daemon may be killed between any two    *)
(* of its steps: its memory and its runs' threads are gone, the database      *)
(* stays.  It may be started again whenever none holds the lock.              *)
(*                                                                          *)
(* A script is its text and the worktree scripts its `run` steps use; both    *)
(* together are the fingerprint an approval is pinned to.  The text of a file  *)
(* that is gone or does not plan is None; such a file is not loaded.  Each script has one    *)
(* scheduled trigger, which a manual run starts too; its schedule is the set   *)
(* of its occurrences, and `due` is what FiringSchedule shows it computes.      *)
(***************************************************************************)
EXTENDS Integers, Sequences, FiniteSets, FiniteSetsExt

CONSTANTS
  Scripts,          \* paths
  Texts, Works,     \* texts of a script; worktree scripts
  Given,            \* the forms a script may have at first
  Occurrences,      \* times the trigger is due
  MaxRuns,          \* bound on the runs recorded
  MaxRequests,      \* bound on the waiting requests
  Budgets,          \* bounds on what happens around the daemon, one of which each behaviour keeps
  FailuresToPause,  \* FAILURES_TO_PAUSE
  None

Hashes == [text : Texts, work : Works]
Ends == {"completed", "stopped", "failed", "halted"}
RunIds == 1..MaxRuns
CommandKinds == {"approve", "pause", "resume", "disable", "enable", "pause all", "resume all",
                 "run now", "stop", "shutdown"}

ASSUME ConstantsAssumption ==
  /\ None \notin Texts \cup Hashes \cup Scripts \cup Nat
  /\ Given \subseteq Hashes
  /\ Occurrences \subseteq Nat /\ MaxRuns \in Nat /\ MaxRequests \in Nat
  /\ FailuresToPause \in Nat \ {0}
  (* The kinds of commands given and how many, the edits of files, the faults,  *)
  (* how often the clock is set back, how far it runs, and the runs recorded.  *)
  /\ Budgets \subseteq [kinds : SUBSET CommandKinds, commands : Nat, edits : Nat, crashes : Nat,
                        setBacks : Nat, until : Nat, runs : 0..MaxRuns]

VARIABLES
  disk,      \* disk[s]: the files of a script
  clock,     \* the wall clock
  approved,  \* approvals: the approved hash of s, or None
  switch,    \* switches: what is chosen for s
  pausedAll, \* daemon.paused_all
  cursor,    \* cursors: when the trigger of s was last checked, or None
  row,       \* scripts: what s was last seen as, or None
  runs,      \* runs, in the order of their ids
  requests,  \* requests not taken yet
  pc,        \* where the daemon is
  stopping,  \* it is in shut_down
  fresh,     \* it has not scanned yet
  now,       \* the time of this pass
  loaded,    \* Daemon.loaded: the hash of s, or None
  live,      \* Daemon.live: the run of s, or 0
  stops,     \* runs whose stop flag is set
  todo,      \* scripts this pass has yet to schedule
  taken,     \* requests of this pass not acted on yet
  local,     \* the locals of the operation it is in
  done,      \* the channel of ended runs
  job,       \* job[r]: the thread of run r
  cli,       \* the command being carried out
  budget,    \* what is left of the bounds
  allowed,   \* history: <<script, hash>> approved at some time
  missed,    \* history: <<s, o>>: o passed while s was paused and no daemon ran
  raced,     \* history: the last cursor was read between a resume's two writes
  disabled,  \* history: scripts the user disabled and did not enable since
  excused,   \* history: scripts whose pause may be missing, see PausedAfterFailures
  asked      \* history: a shutdown request ended the loop, not an error or a kill

files == <<disk, clock>>
choices == <<approved, switch, pausedAll>>
database == <<choices, cursor, row, runs, requests>>
memory == <<stopping, fresh, now, loaded, live, stops, todo, taken, local>>
threads == <<done, job>>
history == <<allowed, missed, raced, disabled, excused, asked>>
vars == <<files, database, pc, memory, threads, cli, budget, history>>

NoLocal == [script |-> None, on |-> FALSE, all |-> FALSE, at |-> None, hash |-> None,
            switch |-> [paused |-> FALSE, disabled |-> FALSE]]
NoCommand == [kind |-> "none", step |-> 0, script |-> None, hash |-> None,
              switch |-> [paused |-> FALSE, disabled |-> FALSE]]

Hash(s) == \* Fingerprint::of, for a script that plans
  IF disk[s].text = None THEN None ELSE disk[s]
Daemon == pc # "down"

-----------------------------------------------------------------------------
(* The process *)

(* What the process takes with it: Daemon's fields and the runs' threads. *)
Forget ==
  /\ pc' = "down"
  /\ stopping' = FALSE /\ fresh' = TRUE /\ now' = 0
  /\ loaded' = [s \in Scripts |-> None]
  /\ live' = [s \in Scripts |-> 0]
  /\ stops' = {} /\ todo' = {} /\ taken' = <<>> /\ local' = NoLocal
  /\ done' = <<>> /\ job' = [r \in RunIds |-> "none"]

LeftRunning == runs \* mutant: the previous daemon's runs are left as they are

Interrupted == \* interrupt_running
  [r \in DOMAIN runs |-> IF runs[r].state = "running" THEN [runs[r] EXCEPT !.state = "interrupted"]
                         ELSE runs[r]]

(* serve up to its loop.  The lock admits one daemon. *)
Serve ==
  /\ pc = "down"
  /\ pc' = "tick"
  /\ runs' = Interrupted
  /\ asked' = FALSE
  /\ UNCHANGED <<files, choices, cursor, row, requests, memory, threads, cli, budget, allowed, missed,
                 raced, disabled, excused>>

(* The script whose finish is cut short. *)
Finishing == IF pc \in {"failures", "switch", "pause"} THEN {local.script} ELSE {}

(* The daemon is killed, or the host goes down. *)
Crash ==
  /\ Daemon /\ budget.crashes > 0
  /\ Forget
  /\ budget' = [budget EXCEPT !.crashes = @ - 1]
  /\ excused' = excused \cup Finishing
  /\ asked' = FALSE
  /\ UNCHANGED <<files, database, cli, allowed, missed, raced, disabled>>

(* The end of the loop: every run is asked to stop. *)
BeginShutdown ==
  /\ stopping' = TRUE
  /\ stops' = {live[s] : s \in Scripts} \ {0}
  /\ pc' = "drain"

(* A statement of the loop fails; `serve` ends with the error. *)
StoreFails ==
  /\ pc \in {"tick", "requests", "act", "schedule", "approval", "cursor", "set", "failures", "switch",
             "pause"}
  /\ ~stopping
  /\ budget.crashes > 0
  /\ budget' = [budget EXCEPT !.crashes = @ - 1]
  /\ BeginShutdown
  /\ local' = NoLocal /\ taken' = <<>> /\ todo' = {}
  /\ excused' = excused \cup Finishing
  /\ UNCHANGED <<files, database, fresh, now, loaded, live, threads, cli, allowed, missed, raced,
                 disabled, asked>>

(* shut_down: until no run is live, or for SHUTDOWN_WAIT; then the process   *)
(* ends, and the lock is free.                                              *)
Exit ==
  /\ stopping /\ pc = "drain"
  /\ Forget
  /\ UNCHANGED <<files, database, cli, budget, history>>

-----------------------------------------------------------------------------
(* One pass of the loop *)

(* The rows of scripts that did not change are put back as they are; one     *)
(* that does not plan gets a row too; those of files that are gone are        *)
(* forgotten.                                                               *)
PutScripts ==
  \E gone \in SUBSET {s \in Scripts : Hash(s) = None} :
    row' = [s \in Scripts |-> IF s \in gone THEN None
                             ELSE IF loaded[s] # None /\ loaded[s] = Hash(s) THEN row[s]
                             ELSE disk[s]]

(* refresh: every script is read again. *)
Refresh == loaded' = [s \in Scripts |-> Hash(s)] /\ PutScripts

Tick ==
  /\ pc = "tick"
  /\ now' = clock
  /\ \/ Refresh
     \/ ~fresh /\ UNCHANGED <<loaded, row>>
  /\ fresh' = FALSE
  /\ pc' = "requests"
  /\ UNCHANGED <<files, choices, cursor, runs, requests, stopping, live, stops, todo, taken, local,
                 threads, cli, budget, history>>

(* handle_requests: one statement takes every waiting request. *)
TakeRequests ==
  /\ pc = "requests"
  /\ taken' = requests /\ requests' = <<>>
  /\ IF \E i \in DOMAIN requests : requests[i].kind = "run now" THEN Refresh
                                                               ELSE UNCHANGED <<loaded, row>>
  /\ pc' = "act"
  /\ UNCHANGED <<files, choices, cursor, runs, stopping, fresh, now, live, stops, todo, local, threads,
                 cli, budget, history>>

(* start, up to its fingerprint: a script that is not loaded or still runs   *)
(* is left alone.  The worktree scripts are read now.                        *)
Startable(s) == loaded[s] # None /\ live[s] = 0 /\ Len(runs) < budget.runs
Fingerprint(s) == [text |-> loaded[s].text, work |-> disk[s].work]

BeginStart(s, at, back) ==
  IF Startable(s)
    THEN /\ local' = [local EXCEPT !.script = s, !.at = at, !.hash = Fingerprint(s)]
         /\ pc' = "start"
    ELSE /\ local' = [NoLocal EXCEPT !.all = local.all]
         /\ pc' = back

ActOnRequest ==
  /\ pc = "act" /\ taken # <<>>
  /\ LET request == Head(taken) IN
       \/ /\ request.kind = "run now"
          /\ BeginStart(request.script, None, "act")
          /\ taken' = Tail(taken)
          /\ UNCHANGED <<stopping, stops, todo, asked>>
       \/ /\ request.kind = "stop"
          /\ stops' = IF \E s \in Scripts : live[s] = request.run THEN stops \cup {request.run} ELSE stops
          /\ taken' = Tail(taken)
          /\ UNCHANGED <<pc, stopping, todo, local, asked>>
       \/ /\ request.kind = "shutdown"
          /\ BeginShutdown
          /\ taken' = <<>>
          /\ asked' = TRUE
          /\ UNCHANGED <<todo, local>>
  /\ UNCHANGED <<files, database, fresh, now, loaded, live, threads, cli, budget, allowed, missed, raced,
                 disabled, excused>>

(* The requests are dealt with; paused_all is read once for the pass. *)
ReadPausedAll ==
  /\ pc = "act" /\ taken = <<>>
  /\ local' = [NoLocal EXCEPT !.all = pausedAll]
  /\ todo' = {s \in Scripts : loaded[s] # None}
  /\ pc' = "schedule"
  /\ UNCHANGED <<files, database, stopping, fresh, now, loaded, live, stops, taken, threads, cli, budget,
                 history>>

(* schedule: the switch, the approval, the cursor, each its own read. *)
ReadSwitch(s) ==
  /\ pc = "schedule" /\ s \in todo
  /\ todo' = todo \ {s}
  /\ local' = [local EXCEPT !.script = s, !.on = ~switch[s].paused /\ ~switch[s].disabled /\ ~local.all]
  /\ pc' = "approval"
  /\ UNCHANGED <<files, database, stopping, fresh, now, loaded, live, stops, taken, threads, cli, budget,
                 history>>

ReadApproval ==
  /\ pc = "approval"
  /\ local' = [local EXCEPT !.on = @ /\ approved[local.script] = loaded[local.script]]
  /\ pc' = "cursor"
  /\ UNCHANGED <<files, database, stopping, fresh, now, loaded, live, stops, todo, taken, threads, cli,
                 budget, history>>

(* due: the latest occurrence after the last check, if there is one. *)
Due(checked, at) ==
  LET passed == {o \in Occurrences : checked < o /\ o <= at}
  IN  IF passed = {} THEN None ELSE Max(passed)

Firing(s) == IF cursor[s] = None \/ ~local.on THEN None ELSE Due(cursor[s], now)

ReadCursor ==
  /\ pc = "cursor"
  /\ local' = [local EXCEPT !.at = Firing(local.script)]
  /\ pc' = "set"
  /\ raced' = (cli.kind \in {"resume", "enable"} /\ cli.step = 3 /\ cli.script = local.script)
  /\ UNCHANGED <<files, database, stopping, fresh, now, loaded, live, stops, todo, taken, threads, cli,
                 budget, allowed, missed, disabled, excused, asked>>

SetCursor ==
  /\ pc = "set"
  /\ cursor' = [cursor EXCEPT ![local.script] = now]
  /\ IF local.at = None THEN local' = [local EXCEPT !.script = None] /\ pc' = "schedule"
                        ELSE BeginStart(local.script, local.at, "schedule")
  /\ UNCHANGED <<files, choices, row, runs, requests, stopping, fresh, now, loaded, live, stops, todo,
                 taken, threads, cli, budget, history>>

Return == IF local.at = None THEN "act" ELSE "schedule"
EndStart == local' = [NoLocal EXCEPT !.all = local.all] /\ pc' = Return

ApprovedWhenLoaded == approved[local.script] = loaded[local.script] \* mutant: an old fingerprint
(* start: the approval of exactly this fingerprint. *)
ApprovedNow == approved[local.script] = local.hash

CheckApproval ==
  /\ pc = "start"
  /\ IF ApprovedNow THEN pc' = "record" /\ UNCHANGED local ELSE EndStart
  /\ UNCHANGED <<files, database, stopping, fresh, now, loaded, live, stops, todo, taken, threads, cli,
                 budget, history>>

NotUnique(s, at) == TRUE \* mutant: a plain INSERT

(* UNIQUE (path, trigger, scheduled); NULL is never a duplicate. *)
Unique(s, at) ==
  at # None => \A r \in DOMAIN runs : ~(runs[r].script = s /\ runs[r].scheduled = at)

(* start_run, and the run's thread. *)
RecordRun ==
  /\ pc = "record"
  /\ IF Unique(local.script, local.at)
       THEN LET r == Len(runs) + 1 IN
            /\ runs' = Append(runs, [script |-> local.script, hash |-> local.hash,
                                     scheduled |-> local.at, state |-> "running"])
            /\ live' = [live EXCEPT ![local.script] = r]
            /\ job' = [job EXCEPT ![r] = "running"]
       ELSE UNCHANGED <<runs, live, job>>
  /\ EndStart
  /\ UNCHANGED <<files, choices, cursor, row, requests, stopping, fresh, now, loaded, stops, todo, taken,
                 done, cli, budget, history>>

(* A read or the insert fails: the error is logged and nothing starts. *)
StartFails ==
  /\ pc \in {"start", "record"}
  /\ budget.crashes > 0
  /\ budget' = [budget EXCEPT !.crashes = @ - 1]
  /\ EndStart
  /\ UNCHANGED <<files, database, stopping, fresh, now, loaded, live, stops, todo, taken, threads, cli,
                 history>>

ScheduleDone ==
  /\ pc = "schedule" /\ todo = {}
  /\ pc' = "drain" /\ local' = NoLocal
  /\ UNCHANGED <<files, database, stopping, fresh, now, loaded, live, stops, todo, taken, threads, cli,
                 budget, history>>

FinishKeepsLive == \* mutant: the run stays in Daemon.live
  /\ pc = "drain" /\ done # <<>>
  /\ runs' = [runs EXCEPT ![Head(done).run].state = Head(done).state]
  /\ local' = [NoLocal EXCEPT !.script = Head(done).script]
  /\ done' = Tail(done)
  /\ pc' = "failures"
  /\ UNCHANGED <<files, choices, cursor, row, requests, stopping, fresh, now, loaded, live, stops, todo,
                 taken, job, cli, budget, history>>

(* finish: the run's end is recorded, then the failures in a row are counted. *)
FinishRun ==
  /\ pc = "drain" /\ done # <<>>
  /\ LET ended == Head(done) IN
       /\ live' = [live EXCEPT ![ended.script] = 0]
       /\ runs' = [runs EXCEPT ![ended.run].state = ended.state]
       /\ local' = [NoLocal EXCEPT !.script = ended.script]
  /\ done' = Tail(done)
  /\ pc' = "failures"
  /\ UNCHANGED <<files, choices, cursor, row, requests, stopping, fresh, now, loaded, stops, todo, taken,
                 job, cli, budget, history>>

Finished(s) == {r \in DOMAIN runs : runs[r].script = s /\ runs[r].state # "running"}
Failed(r) == runs[r].state \in {"failed", "halted", "stopped"}

(* failures_in_a_row: the ended runs newer than the newest that did not fail. *)
FailuresInARow(s) ==
  Cardinality({r \in Finished(s) : \A q \in Finished(s) : q >= r => Failed(q)})

ExactlyEnoughFailures(s) == FailuresInARow(s) = FailuresToPause \* mutant: a count that was missed stays missed
EnoughFailures(s) == FailuresInARow(s) >= FailuresToPause

CountFailures ==
  /\ pc = "failures"
  /\ IF EnoughFailures(local.script)
       THEN pc' = "switch" /\ UNCHANGED <<local, excused>>
       ELSE pc' = "drain" /\ local' = NoLocal /\ excused' = excused \ {local.script}
  /\ UNCHANGED <<files, database, stopping, fresh, now, loaded, live, stops, todo, taken, threads, cli,
                 budget, allowed, missed, raced, disabled, asked>>

ReadSwitchToPause ==
  /\ pc = "switch"
  /\ IF switch[local.script].paused
       THEN pc' = "drain" /\ local' = NoLocal /\ excused' = excused \ {local.script}
       ELSE pc' = "pause" /\ local' = [local EXCEPT !.switch = switch[local.script]] /\ UNCHANGED excused
  /\ UNCHANGED <<files, database, stopping, fresh, now, loaded, live, stops, todo, taken, threads, cli,
                 budget, allowed, missed, raced, disabled, asked>>

PauseScript ==
  /\ pc = "pause"
  /\ switch' = [switch EXCEPT ![local.script] = [local.switch EXCEPT !.paused = TRUE]]
  /\ excused' = excused \ {local.script}
  /\ pc' = "drain" /\ local' = NoLocal
  /\ UNCHANGED <<files, approved, pausedAll, cursor, row, runs, requests, stopping, fresh, now, loaded,
                 live, stops, todo, taken, threads, cli, budget, allowed, missed, raced, disabled, asked>>

Sleep ==
  /\ pc = "drain" /\ done = <<>> /\ ~stopping
  /\ pc' = "tick"
  /\ UNCHANGED <<files, database, memory, threads, cli, budget, history>>

(* finish_run fails: the run left Daemon.live, its row still says running. *)
FinishFails ==
  /\ pc = "drain" /\ done # <<>> /\ ~stopping
  /\ budget.crashes > 0
  /\ budget' = [budget EXCEPT !.crashes = @ - 1]
  /\ live' = [live EXCEPT ![Head(done).script] = 0]
  /\ stopping' = TRUE
  /\ stops' = {live'[s] : s \in Scripts} \ {0}
  /\ done' = Tail(done)
  /\ UNCHANGED <<files, database, pc, fresh, now, loaded, todo, taken, local, job, cli, history>>

-----------------------------------------------------------------------------
(* A run's thread *)

(* execute ends: every outcome of its steps, of a stop or of a cap. *)
JobEnds(r, state) ==
  /\ job[r] = "running" \/ (job[r] = "budget" /\ state = "halted")
  /\ job' = [job EXCEPT ![r] = "none"]
  /\ done' = Append(done, [script |-> runs[r].script, run |-> r, state |-> state])
  /\ UNCHANGED <<files, database, pc, memory, cli, budget, history>>

(* Halt::ScriptTokens: before it ends, the run pauses its script. *)
BudgetSpent(r) ==
  /\ job[r] = "running"
  /\ job' = [job EXCEPT ![r] = "budget"]
  /\ switch' = [switch EXCEPT ![runs[r].script] = [paused |-> TRUE, disabled |-> FALSE]]
  /\ UNCHANGED <<files, approved, pausedAll, cursor, row, runs, requests, pc, memory, done, cli, budget,
                 history>>

-----------------------------------------------------------------------------
(* The command line *)

Begin(kind) ==
  /\ cli.kind = "none" /\ kind \in budget.kinds /\ budget.commands > 0
  /\ budget' = [budget EXCEPT !.commands = @ - 1]

Done == cli' = NoCommand

(* approve: what the person reads, then the approval, the cursors, the row. *)
BeginApprove(s) ==
  /\ Begin("approve") /\ Hash(s) # None
  /\ cli' = [NoCommand EXCEPT !.kind = "approve", !.step = 2, !.script = s, !.hash = Hash(s)]
  /\ UNCHANGED <<files, database, pc, memory, threads, history>>

WriteApproval ==
  /\ cli.kind = "approve" /\ cli.step = 2
  /\ approved' = [approved EXCEPT ![cli.script] = cli.hash]
  /\ allowed' = allowed \cup {<<cli.script, cli.hash>>}
  /\ cli' = [cli EXCEPT !.step = 3]
  /\ UNCHANGED <<files, switch, pausedAll, cursor, row, runs, requests, pc, memory, threads, budget,
                 missed, raced, disabled, excused, asked>>

PutRow ==
  /\ cli.kind = "approve" /\ cli.step = 4
  /\ row' = [row EXCEPT ![cli.script] = cli.hash]
  /\ Done
  /\ UNCHANGED <<files, choices, cursor, runs, requests, pc, memory, threads, budget, history>>

(* pause, resume, disable, enable: the switch is read, then written whole. *)
BeginSwitch(kind, s) ==
  /\ kind \in {"pause", "resume", "disable", "enable"}
  /\ Begin(kind) /\ row[s] # None
  /\ cli' = [NoCommand EXCEPT !.kind = kind, !.step = 2, !.script = s, !.switch = switch[s]]
  /\ UNCHANGED <<files, database, pc, memory, threads, history>>

Switched(old, kind) ==
  CASE kind = "pause" -> [old EXCEPT !.paused = TRUE]
    [] kind = "resume" -> [old EXCEPT !.paused = FALSE]
    [] kind = "disable" -> [old EXCEPT !.disabled = TRUE]
    [] kind = "enable" -> [old EXCEPT !.disabled = FALSE]

ClearsApproval(kind) == kind = "approve" \* mutant: a resumed script keeps its cursor
Clears(kind) == kind \in {"approve", "resume", "enable"}

WriteSwitch ==
  /\ cli.kind \in {"pause", "resume", "disable", "enable"} /\ cli.step = 2
  /\ switch' = [switch EXCEPT ![cli.script] = Switched(cli.switch, cli.kind)]
  /\ IF Clears(cli.kind) THEN cli' = [cli EXCEPT !.step = 3] ELSE Done
  /\ disabled' = CASE cli.kind = "disable" -> disabled \cup {cli.script}
                    [] cli.kind = "enable" -> disabled \ {cli.script}
                    [] OTHER -> disabled
  /\ excused' = excused \cup {cli.script}
  /\ UNCHANGED <<files, approved, pausedAll, cursor, row, runs, requests, pc, memory, threads, budget,
                 allowed, missed, raced, asked>>

(* clear_cursors *)
ClearCursor ==
  /\ cli.step = 3
  /\ cursor' = [cursor EXCEPT ![cli.script] = None]
  /\ IF cli.kind = "approve" THEN cli' = [cli EXCEPT !.step = 4] ELSE Done
  /\ UNCHANGED <<files, choices, row, runs, requests, pc, memory, threads, budget, history>>

SwitchAll(kind) ==
  /\ kind \in {"pause all", "resume all"}
  /\ Begin(kind)
  /\ pausedAll' = (kind = "pause all")
  /\ UNCHANGED <<files, approved, switch, cursor, row, runs, requests, pc, memory, threads, cli, history>>

(* run-now, stop, shutdown: the check, then the request. *)
BeginRequest(kind, s) ==
  /\ \/ kind = "run now" /\ row[s] # None /\ approved[s] = row[s]
     \/ kind = "stop" /\ \E r \in DOMAIN runs : runs[r].script = s /\ runs[r].state = "running"
     \/ kind = "shutdown" /\ Daemon
  /\ Begin(kind) /\ Len(requests) < MaxRequests
  /\ cli' = [NoCommand EXCEPT !.kind = kind, !.step = 2, !.script = s]
  /\ UNCHANGED <<files, database, pc, memory, threads, history>>

PushRequest ==
  /\ cli.kind \in {"run now", "stop", "shutdown"}
  /\ requests' = Append(requests,
        [kind |-> cli.kind, script |-> cli.script,
         run |-> IF cli.kind = "stop" THEN Max({r \in DOMAIN runs : runs[r].script = cli.script}) ELSE 0])
  /\ Done
  /\ UNCHANGED <<files, choices, cursor, row, runs, pc, memory, threads, budget, history>>

-----------------------------------------------------------------------------
(* The host *)

Edit(s) ==
  /\ budget.edits > 0
  /\ \E text \in Texts \cup {None}, work \in Works : disk' = [disk EXCEPT ![s] = [text |-> text, work |-> work]]
  /\ budget' = [budget EXCEPT !.edits = @ - 1]
  /\ UNCHANGED <<clock, database, pc, memory, threads, cli, history>>

Off(s) == switch[s].paused \/ switch[s].disabled

(* Time passes; what falls due while nobody looks is remembered. *)
Advance ==
  /\ clock < budget.until
  /\ clock' = clock + 1
  /\ missed' = missed \cup
       (IF Daemon \/ clock + 1 \notin Occurrences THEN {}
        ELSE {<<s, clock + 1, "script">> : s \in {x \in Scripts : Off(x) /\ approved[x] = Hash(x)}}
             \cup {<<s, clock + 1, "all">> : s \in {x \in Scripts : pausedAll /\ approved[x] = Hash(x)}})
  /\ UNCHANGED <<disk, database, pc, memory, threads, cli, budget, allowed, raced, disabled, excused, asked>>

(* The clock is corrected; what it will pass again is not over yet. *)
SetBack ==
  /\ clock > 0 /\ budget.setBacks > 0
  /\ clock' = clock - 1
  /\ budget' = [budget EXCEPT !.setBacks = @ - 1]
  /\ missed' = {m \in missed : m[2] < clock}
  /\ UNCHANGED <<disk, database, pc, memory, threads, cli, allowed, raced, disabled, excused, asked>>

-----------------------------------------------------------------------------
Init ==
  /\ disk \in [Scripts -> Given]
  /\ clock = 0
  /\ approved = [s \in Scripts |-> None]
  /\ switch = [s \in Scripts |-> [paused |-> FALSE, disabled |-> FALSE]]
  /\ pausedAll = FALSE
  /\ cursor = [s \in Scripts |-> None]
  /\ row = [s \in Scripts |-> None]
  /\ runs = <<>> /\ requests = <<>>
  /\ pc = "down" /\ stopping = FALSE /\ fresh = TRUE /\ now = 0
  /\ loaded = [s \in Scripts |-> None]
  /\ live = [s \in Scripts |-> 0]
  /\ stops = {} /\ todo = {} /\ taken = <<>> /\ local = NoLocal
  /\ done = <<>> /\ job = [r \in RunIds |-> "none"]
  /\ cli = NoCommand
  /\ budget \in Budgets
  /\ allowed = {} /\ missed = {} /\ raced = FALSE /\ disabled = {} /\ excused = {}
  /\ asked = FALSE

Pass ==
  \/ Tick \/ TakeRequests \/ ActOnRequest \/ ReadPausedAll
  \/ \E s \in Scripts : ReadSwitch(s)
  \/ ReadApproval \/ ReadCursor \/ SetCursor \/ CheckApproval \/ RecordRun \/ ScheduleDone
  \/ FinishRun \/ CountFailures \/ ReadSwitchToPause \/ PauseScript \/ Sleep \/ Exit

Fault == Crash \/ StoreFails \/ StartFails \/ FinishFails

Thread(r) == BudgetSpent(r) \/ \E state \in Ends : JobEnds(r, state)

Command ==
  \/ \E s \in Scripts : BeginApprove(s)
  \/ \E kind \in CommandKinds, s \in Scripts : BeginSwitch(kind, s) \/ BeginRequest(kind, s)
  \/ \E kind \in CommandKinds : SwitchAll(kind)
  \/ WriteApproval \/ PutRow \/ WriteSwitch \/ ClearCursor \/ PushRequest

Host == Advance \/ SetBack \/ \E s \in Scripts : Edit(s)

Next == Serve \/ Pass \/ Fault \/ (\E r \in RunIds : Thread(r)) \/ Command \/ Host

Spec == Init /\ [][Next]_vars

(* The installed service starts a daemon at first and again after a crash or *)
(* an error, not after a shutdown; the loop and the threads, which a wall    *)
(* time bounds, go on.                                                       *)
FairSpec ==
  /\ Spec
  /\ WF_vars(Serve /\ ~asked) /\ WF_vars(Pass)
  /\ \A r \in RunIds : WF_vars(Thread(r))

-----------------------------------------------------------------------------
(* Properties *)

SwitchRows == [paused : BOOLEAN, disabled : BOOLEAN]

(* The rows, the daemon's memory and the command in progress have their      *)
(* types; a live run is one of the runs recorded.                            *)
TypeOK ==
  /\ disk \in [Scripts -> [text : Texts \cup {None}, work : Works]]
  /\ clock \in Nat /\ now \in Nat
  /\ approved \in [Scripts -> Hashes \cup {None}]
  /\ switch \in [Scripts -> SwitchRows]
  /\ pausedAll \in BOOLEAN
  /\ cursor \in [Scripts -> Nat \cup {None}]
  /\ row \in [Scripts -> [text : Texts \cup {None}, work : Works] \cup {None}]
  /\ runs \in Seq([script : Scripts, hash : Hashes, scheduled : Occurrences \cup {None},
                   state : Ends \cup {"running", "interrupted"}])
  /\ loaded \in [Scripts -> Hashes \cup {None}]
  /\ live \in [Scripts -> {0} \cup DOMAIN runs]
  /\ job \in [RunIds -> {"none", "running", "budget"}]
  /\ Len(runs) <= MaxRuns

Ledger == INSTANCE RunLedger WITH Times <- Occurrences

(* The daemon keeps the promises of RunLedger through crashes, restarts,     *)
(* edits and a clock that is set back: one run of a script at a time, only   *)
(* in an approved form, one run per firing, no run revived (serve, start,    *)
(* start_run, interrupt_running, finish_run).                                *)
KeepsLedger == Ledger!Spec

(* While a daemon serves, a row says running exactly as long as its script   *)
(* is held back by that run: no script waits for a run that is gone, and no  *)
(* run goes on without its script knowing (interrupt_running, Daemon.live).  *)
RunningIsLive ==
  Daemon /\ ~stopping =>
    \A r \in DOMAIN runs : (runs[r].state = "running") <=> (live[runs[r].script] = r)

(* A run's thread works for the run its script is held back by, once: it is   *)
(* either going on or its end is in the channel, until finish.               *)
ThreadPerLiveRun ==
  \A s \in Scripts : live[s] # 0 =>
    (job[live[s]] # "none") # (\E i \in DOMAIN done : done[i].run = live[s])

(* FAILURES_TO_PAUSE failed runs in a row leave the script paused, until the *)
(* user switches it.  An exit between finish_run and set_switch may lose the  *)
(* pause; the next failure brings it back (finish).                          *)
PausedAfterFailures ==
  \A s \in Scripts :
    FailuresInARow(s) >= FailuresToPause /\ s \notin excused /\ s \notin Finishing => switch[s].paused

NewRun == Len(runs') > Len(runs)
Newest == runs'[Len(runs')]

(* What fell due while a script was paused or disabled and no daemon ran is  *)
(* not made up for after a resume, unless the daemon reads the cursor        *)
(* between the resume's two writes (cli/run.rs, Pause | Resume).             *)
PausedTimeIsOver ==
  [][NewRun => raced \/ <<Newest.script, Newest.scheduled, "script">> \notin missed]_vars

(* Every recorded run ends: it finishes, or a later daemon gives it up.  Only *)
(* the row of a run that outlives a shutdown's wait stays, and only while no *)
(* daemon is started again (finish_run, interrupt_running, shut_down).       *)
RunsSettle ==
  \A r \in RunIds :
    (r \in DOMAIN runs /\ runs[r].state = "running")
      ~> \/ r \in DOMAIN runs /\ runs[r].state # "running"
         \/ asked /\ ~Daemon

(* docs/automations.md: "Nothing fires for the time a script was paused,     *)
(* disabled or not yet approved".  Violated: resume --all leaves the cursors *)
(* alone, so a daemon started afterwards fires for the time before.          *)
AllPausedTimeIsOver ==
  [][NewRun => <<Newest.script, Newest.scheduled, "all">> \notin missed]_vars

(* cli/run.rs: "Fire nothing for the time it was paused."  Violated by a     *)
(* daemon that starts between set_switch and clear_cursors.                  *)
NothingForPausedTime ==
  [][NewRun => <<Newest.script, Newest.scheduled, "script">> \notin missed]_vars

(* docs/automations.md: disable and enable "Stop or restart scheduling".     *)
(* Violated: a run that spends its budget writes the switch with disabled    *)
(* false.                                                                   *)
DisabledUntilEnabled == \A s \in disabled : switch[s].disabled

(* store.rs: the rows are "Scripts as the daemon last saw them".  Violated: a *)
(* script edited, approved and edited back between two scans keeps the row    *)
(* its approval wrote, so run-now and status take it for approved.           *)
RowsAsLastSeen ==
  [][pc = "requests" /\ pc' = "act" /\ (\E i \in DOMAIN requests : requests[i].kind = "run now")
     => \A s \in Scripts : loaded'[s] # None => row'[s] = loaded'[s]]_vars
====
