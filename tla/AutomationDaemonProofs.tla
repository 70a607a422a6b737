------------------------ MODULE AutomationDaemonProofs ------------------------
(***************************************************************************)
(* Proofs about AutomationDaemon, for any scripts, schedules and budgets.  *)
(***************************************************************************)
EXTENDS AutomationDaemon, FiniteSetTheorems, TLAPS

Files == [text : Texts \cup {None}, work : Works]
Rows == [script : Scripts, hash : Hashes, scheduled : Occurrences \cup {None},
         state : Ends \cup {"running", "interrupted"}]
Locals == [script : Scripts \cup {None}, on : BOOLEAN, all : BOOLEAN,
           at : Occurrences \cup {None}, hash : Hashes \cup {None}, switch : SwitchRows]
Commands == [kind : CommandKinds \cup {"none"}, step : {0, 2, 3, 4}, script : Scripts \cup {None},
             hash : Hashes \cup {None}, switch : SwitchRows]
Requests == [kind : {"run now", "stop", "shutdown"}, script : Scripts, run : Nat]
Endings == [script : Scripts, run : RunIds, state : Ends]
Bounds == [kinds : SUBSET CommandKinds, commands : Nat, edits : Nat, crashes : Nat,
           setBacks : Nat, until : Nat, runs : 0..MaxRuns]
Places == {"down", "tick", "requests", "act", "schedule", "approval", "cursor", "set", "start",
           "record", "drain", "failures", "switch", "pause"}

\* TypeOK, with the types of what the daemon and the command hold between
\* their steps.
Types ==
  /\ disk \in [Scripts -> Files] /\ clock \in Nat /\ now \in Nat
  /\ approved \in [Scripts -> Hashes \cup {None}]
  /\ switch \in [Scripts -> SwitchRows] /\ pausedAll \in BOOLEAN
  /\ cursor \in [Scripts -> Nat \cup {None}]
  /\ row \in [Scripts -> Files \cup {None}]
  /\ runs \in Seq(Rows) /\ Len(runs) <= MaxRuns
  /\ requests \in Seq(Requests) /\ taken \in Seq(Requests)
  /\ pc \in Places /\ stopping \in BOOLEAN
  /\ loaded \in [Scripts -> Hashes \cup {None}]
  /\ live \in [Scripts -> {0} \cup DOMAIN runs]
  /\ todo \subseteq Scripts /\ local \in Locals
  /\ done \in Seq(Endings) /\ job \in [RunIds -> {"none", "running", "budget"}]
  /\ cli \in Commands /\ budget \in Bounds

\* What a command still holds at each of its steps.
Held ==
  /\ cli.kind # "none" => cli.script \in Scripts
  /\ cli.kind = "approve" => cli.hash \in Hashes
  /\ cli.step = 3 => cli.kind \in {"approve", "resume", "enable"}
  /\ cli.kind = "stop" => \E r \in DOMAIN runs : runs[r].script = cli.script

\* What the daemon still holds at each of its steps.
Working ==
  /\ pc = "down" => /\ ~stopping /\ done = <<>>
                    /\ \A s \in Scripts : live[s] = 0
                    /\ \A r \in RunIds : job[r] = "none"
  /\ stopping => pc \in {"drain", "failures", "switch", "pause"}
  /\ pc \in {"approval", "cursor", "set", "start", "record", "failures", "switch", "pause"} =>
       local.script \in Scripts
  /\ pc \in {"start", "record"} =>
       local.hash \in Hashes /\ live[local.script] = 0 /\ Len(runs) < MaxRuns

\* What every step of the proofs below may take for granted.
Base == Types /\ Held /\ Working

\* An approval that can start a run was given by a person.
Approvals ==
  /\ allowed \subseteq Scripts \X Hashes
  /\ \A s \in Scripts : approved[s] # None => <<s, approved[s]>> \in allowed
  /\ pc = "record" => <<local.script, local.hash>> \in allowed

\* The run a script is held back by is one of its own, and goes on.
LiveRuns ==
  \A s \in Scripts : live[s] # 0 => runs[live[s]].script = s /\ runs[live[s]].state = "running"

\* Threads and their ends are those of live runs, each once.
Threads ==
  /\ \A i \in DOMAIN done : live[done[i].script] = done[i].run
  /\ \A i, j \in DOMAIN done : done[i].run = done[j].run => i = j
  /\ \A r \in RunIds : job[r] # "none" =>
       /\ r \in DOMAIN runs /\ live[runs[r].script] = r
       /\ \A i \in DOMAIN done : done[i].run # r

RunsInv == LiveRuns /\ Threads /\ RunningIsLive /\ ThreadPerLiveRun

\* Between a resume's two writes.
Resuming(s) == cli.kind \in {"resume", "enable"} /\ cli.step = 3 /\ cli.script = s

\* Places between a pass's reading of the clock and the end of its checks.
Checking == {"requests", "act", "schedule", "approval", "cursor", "set", "start", "record"}

CursorPast(s, o) == cursor[s] = None \/ cursor[s] >= o \/ Resuming(s)

\* A time that passed while a script was off is behind its cursor, unless the
\* script is off still; a check under way that found it on knows the cursor.
Over ==
  /\ missed \subseteq Scripts \X Occurrences \X {"script", "all"}
  /\ \A m \in missed : m[2] <= clock /\ (pc \in Checking => m[2] <= now)
  /\ \A m \in missed : m[3] = "script" => Off(m[1]) \/ CursorPast(m[1], m[2])
  /\ \A m \in missed : m[3] = "script" /\ pc \in {"approval", "cursor"} /\ local.on /\ local.script = m[1] =>
       CursorPast(m[1], m[2])
  /\ pc \in {"set", "start", "record"} => raced \/ <<local.script, local.at, "script">> \notin missed

\* The inductive invariant: what the daemon's record of its runs rests on, and
\* what its pauses and its schedule rest on.
Serving == Base /\ Approvals /\ RunsInv
IInv == Serving /\ PausedAfterFailures /\ Over

-----------------------------------------------------------------------------
(* Numbers, sequences and files. *)

\* A set of naturals has a least member.
LEMMA Least ==
  ASSUME NEW T \in SUBSET Nat, T # {}
  PROVE  \E x \in T : \A y \in T : x <= y
<1>1. PICK x \in T : \A y \in T : ~(<<y, x>> \in OpToRel(<, Nat))
  BY NatLessThanWellFounded, WFMin, T \subseteq Nat
<1>2. \A y \in T : ~(y < x)
  BY <1>1 DEF OpToRel
<1> QED
  BY <1>2

\* A bounded one has a greatest.
LEMMA MaxIn ==
  ASSUME NEW S \in SUBSET Nat, NEW n \in Nat, S # {}, \A x \in S : x <= n
  PROVE  Max(S) \in S /\ \A y \in S : y <= Max(S)
<1> DEFINE T == {k \in Nat : \A x \in S : x <= k}
<1>1. T \in SUBSET Nat /\ n \in T
  OBVIOUS
<1>2. PICK t \in T : \A y \in T : t <= y
  <2> HIDE DEF T
  <2> QED BY <1>1, Least
<1>3. t \in S
  <2> SUFFICES ASSUME t \notin S
               PROVE  FALSE
    OBVIOUS
  <2>1. t \in Nat /\ \A x \in S : x \in Nat /\ x <= t /\ x # t
    OBVIOUS
  <2>2. \A x \in S : x <= t - 1
    BY <2>1
  <2>3. t - 1 \in Nat
    <3>1. PICK x \in S : TRUE
      OBVIOUS
    <3> QED
      BY <2>1, <2>2, <3>1
  <2>4. t - 1 \in T
    BY <2>2, <2>3
  <2> QED
    BY <1>2, <2>1, <2>4
<1>4. \E z \in S : \A y \in S : z >= y
  BY <1>3
<1> QED
  BY <1>4 DEF Max

\* Adding a run.
LEMMA AppendRun ==
  ASSUME NEW S, NEW s \in Seq(S), NEW x \in S
  PROVE  /\ Append(s, x) \in Seq(S) /\ Len(Append(s, x)) = Len(s) + 1
         /\ DOMAIN Append(s, x) = 1 .. Len(s) + 1 /\ DOMAIN s = 1 .. Len(s)
         /\ \A i \in DOMAIN s : Append(s, x)[i] = s[i]
         /\ Append(s, x)[Len(s) + 1] = x
OBVIOUS

\* Taking the first end from the channel.
LEMMA TailOf ==
  ASSUME NEW S, NEW s \in Seq(S), s # <<>>
  PROVE  /\ Head(s) \in S /\ Head(s) = s[1] /\ 1 \in DOMAIN s
         /\ Tail(s) \in Seq(S)
         /\ \A i \in DOMAIN Tail(s) : i + 1 \in DOMAIN s /\ Tail(s)[i] = s[i + 1] /\ i + 1 # 1
         /\ \A i \in DOMAIN s : i # 1 => i - 1 \in DOMAIN Tail(s) /\ Tail(s)[i - 1] = s[i]
OBVIOUS

\* A run's end recorded.
Ended(s, r, state) == [s EXCEPT ![r].state = state]

\* It touches the state of that run alone.
LEMMA EndRun ==
  ASSUME NEW s \in Seq(Rows), NEW r, NEW state \in Ends \cup {"running", "interrupted"}
  PROVE  /\ Ended(s, r, state) \in Seq(Rows) /\ Len(Ended(s, r, state)) = Len(s)
         /\ DOMAIN Ended(s, r, state) = DOMAIN s
         /\ \A i \in DOMAIN s :
              /\ Ended(s, r, state)[i].script = s[i].script
              /\ Ended(s, r, state)[i].state = IF i = r THEN state ELSE s[i].state
<1> DEFINE t == Ended(s, r, state)
<1>1. DOMAIN s = 1 .. Len(s) /\ Len(s) \in Nat /\ \A i \in DOMAIN s : s[i] \in Rows
  OBVIOUS
<1>2. DOMAIN t = DOMAIN s
  BY DEF Ended
<1>3. \A i \in DOMAIN s : t[i] = IF i = r THEN [s[i] EXCEPT !.state = state] ELSE s[i]
  BY DEF Ended
<1>4. \A i \in DOMAIN s : /\ t[i] \in Rows /\ t[i].script = s[i].script
                          /\ t[i].state = IF i = r THEN state ELSE s[i].state
  BY <1>1, <1>3 DEF Rows
<1>5. t = [i \in 1 .. Len(s) |-> t[i]]
  BY <1>1, <1>2 DEF Ended
<1> HIDE DEF t
<1>6. t \in Seq(Rows) /\ Len(t) = Len(s)
  BY <1>1, <1>2, <1>4, <1>5
<1> QED
  BY <1>2, <1>4, <1>6 DEF t

\* A fingerprint is a hash, or there is none.
LEMMA HashType ==
  ASSUME Types, NEW s \in Scripts
  PROVE  Hash(s) \in Hashes \cup {None} /\ disk[s] \in Files
BY DEF Types, Hash, Files, Hashes

-----------------------------------------------------------------------------
(* Types, and what is held between steps. *)

\* A step of a command or of the host leaves the daemon where it is.
LEMMA AroundKeeps ==
  ASSUME Base, UNCHANGED <<pc, runs, memory, threads>>, budget' \in Bounds,
         disk' \in [Scripts -> Files], clock' \in Nat,
         approved' \in [Scripts -> Hashes \cup {None}],
         switch' \in [Scripts -> SwitchRows], pausedAll' \in BOOLEAN,
         cursor' \in [Scripts -> Nat \cup {None}], row' \in [Scripts -> Files \cup {None}],
         requests' \in Seq(Requests), cli' \in Commands, Held'
  PROVE  Base'
<1>1. Types'
  BY DEF Base, Types, memory, threads
<1>2. Working'
  BY DEF Base, Working, memory, threads
<1> QED
  BY <1>1, <1>2 DEF Base

\* The locals a step starts from.
LEMMA NoneTypes ==
  /\ NoLocal \in Locals /\ NoCommand \in Commands /\ NoCommand.kind = "none" /\ NoCommand.step = 0
  /\ \A all \in BOOLEAN : [NoLocal EXCEPT !.all = all] \in Locals
  /\ \A s \in Scripts : /\ [NoLocal EXCEPT !.script = s] \in Locals
                         /\ [NoLocal EXCEPT !.script = s].script = s
BY DEF NoLocal, NoCommand, Locals, Commands, SwitchRows

\* What is left of a bound after one use.
LEMMA Spent ==
  ASSUME NEW b \in Bounds
  PROVE  /\ b.commands > 0 => [b EXCEPT !.commands = b.commands - 1] \in Bounds
         /\ b.crashes > 0 => [b EXCEPT !.crashes = b.crashes - 1] \in Bounds
         /\ b.edits > 0 => [b EXCEPT !.edits = b.edits - 1] \in Bounds
         /\ b.setBacks > 0 => [b EXCEPT !.setBacks = b.setBacks - 1] \in Bounds
         /\ b.runs \in Nat /\ b.runs <= MaxRuns
<1>1. /\ b.commands \in Nat /\ b.crashes \in Nat /\ b.edits \in Nat /\ b.setBacks \in Nat
      /\ b.runs \in 0 .. MaxRuns
  BY DEF Bounds
<1>2. \A n \in Nat : /\ [b EXCEPT !.commands = n] \in Bounds /\ [b EXCEPT !.crashes = n] \in Bounds
                     /\ [b EXCEPT !.edits = n] \in Bounds /\ [b EXCEPT !.setBacks = n] \in Bounds
  BY DEF Bounds
<1>3. \A n \in Nat : n > 0 => n - 1 \in Nat
  OBVIOUS
<1>4. b.runs \in Nat /\ b.runs <= MaxRuns
  BY <1>1, ConstantsAssumption
<1>5. /\ b.commands > 0 => b.commands - 1 \in Nat
      /\ b.crashes > 0 => b.crashes - 1 \in Nat
      /\ b.edits > 0 => b.edits - 1 \in Nat
      /\ b.setBacks > 0 => b.setBacks - 1 \in Nat
  BY <1>1, <1>3
<1> QED
  BY <1>2, <1>4, <1>5

\* A command given costs one.
LEMMA BeginKeeps ==
  ASSUME Base, NEW kind, Begin(kind)
  PROVE  budget' \in Bounds /\ kind \in CommandKinds
<1>1. budget \in Bounds
  BY DEF Base, Types
<1>2. budget' = [budget EXCEPT !.commands = budget.commands - 1] /\ budget.commands > 0
      /\ kind \in budget.kinds
  BY <1>1 DEF Begin, Bounds
<1>3. kind \in CommandKinds
  BY <1>1, <1>2 DEF Bounds
<1> QED
  BY <1>1, <1>2, <1>3, Spent

\* What the person approves is what the file holds now.
LEMMA BeginApproveBase ==
  ASSUME Base, NEW s \in Scripts, BeginApprove(s)
  PROVE  Base'
<1> DEFINE c == [NoCommand EXCEPT !.kind = "approve", !.step = 2, !.script = s, !.hash = Hash(s)]
<1>1. Hash(s) \in Hashes
  BY HashType DEF Base, BeginApprove
<1>2. /\ cli' = c /\ Begin("approve")
      /\ UNCHANGED <<files, database, pc, memory, threads, history>>
  BY DEF BeginApprove
<1>3. /\ c \in Commands /\ c.kind = "approve" /\ c.step = 2 /\ c.script = s /\ c.hash = Hash(s)
  BY <1>1 DEF NoCommand, Commands, CommandKinds, SwitchRows
<1> HIDE DEF c
<1>4. Held'
  BY <1>1, <1>2, <1>3 DEF Held
<1> QED
  BY <1>2, <1>3, <1>4, BeginKeeps, AroundKeeps DEF Base, Types, files, database, choices

\* A switch command holds the switch it read.
LEMMA BeginSwitchBase ==
  ASSUME Base, NEW kind, NEW s \in Scripts, BeginSwitch(kind, s)
  PROVE  Base'
<1> DEFINE c == [NoCommand EXCEPT !.kind = kind, !.step = 2, !.script = s, !.switch = switch[s]]
<1>1. switch[s] \in SwitchRows
  BY DEF Base, Types
<1>2. /\ cli' = c /\ Begin(kind) /\ kind \in {"pause", "resume", "disable", "enable"}
      /\ UNCHANGED <<files, database, pc, memory, threads, history>>
  BY DEF BeginSwitch
<1>3. /\ c \in Commands /\ c.kind = kind /\ c.step = 2 /\ c.script = s
  BY <1>1, <1>2 DEF NoCommand, Commands, CommandKinds
<1> HIDE DEF c
<1>4. Held'
  BY <1>2, <1>3 DEF Held
<1> QED
  BY <1>2, <1>3, <1>4, BeginKeeps, AroundKeeps DEF Base, Types, files, database, choices

\* A stop is asked of a script that has a run.
LEMMA BeginRequestBase ==
  ASSUME Base, NEW kind, NEW s \in Scripts, BeginRequest(kind, s)
  PROVE  Base'
<1> DEFINE c == [NoCommand EXCEPT !.kind = kind, !.step = 2, !.script = s]
<1>1. /\ cli' = c /\ Begin(kind) /\ kind \in {"run now", "stop", "shutdown"}
      /\ UNCHANGED <<files, database, pc, memory, threads, history>>
  BY DEF BeginRequest
<1>2. kind = "stop" => \E r \in DOMAIN runs : runs[r].script = s
  BY DEF BeginRequest
<1>3. /\ c \in Commands /\ c.kind = kind /\ c.step = 2 /\ c.script = s
  BY <1>1 DEF NoCommand, Commands, CommandKinds, SwitchRows
<1> HIDE DEF c
<1>4. Held'
  <2>1. cli'.kind = kind /\ cli'.step = 2 /\ cli'.script = s /\ runs' = runs
    BY <1>1, <1>3 DEF database
  <2>2. kind \notin {"none", "approve"}
    BY <1>1
  <2>3. cli'.kind = "stop" => \E r \in DOMAIN runs' : runs'[r].script = cli'.script
    BY <1>2, <2>1
  <2> QED
    BY <2>1, <2>2, <2>3 DEF Held
<1> QED
  BY <1>1, <1>3, <1>4, BeginKeeps, AroundKeeps DEF Base, Types, files, database, choices

\* The approval is of what was read.
LEMMA WriteApprovalBase ==
  ASSUME Base, WriteApproval
  PROVE  Base'
<1>1. /\ cli.kind = "approve" /\ cli' = [cli EXCEPT !.step = 3]
      /\ approved' = [approved EXCEPT ![cli.script] = cli.hash]
      /\ UNCHANGED <<files, switch, pausedAll, cursor, row, runs, requests, pc, memory, threads, budget>>
  BY DEF WriteApproval
<1>2. cli \in Commands /\ cli.script \in Scripts /\ cli.hash \in Hashes
  BY <1>1 DEF Base, Types, Held
<1>3. /\ cli' \in Commands /\ cli'.kind = "approve" /\ cli'.script = cli.script
      /\ cli'.hash = cli.hash
  BY <1>1, <1>2 DEF Commands
<1>4. Held'
  BY <1>1, <1>2, <1>3 DEF Held
<1> QED
  BY <1>1, <1>2, <1>3, <1>4, AroundKeeps DEF Base, Types, files

\* The approval's row is what was approved.
LEMMA PutRowBase ==
  ASSUME Base, PutRow
  PROVE  Base'
<1>1. /\ cli.kind = "approve" /\ cli' = NoCommand
      /\ row' = [row EXCEPT ![cli.script] = cli.hash]
      /\ UNCHANGED <<files, choices, cursor, runs, requests, pc, memory, threads, budget>>
  BY DEF PutRow, Done
<1>2. cli.hash \in Files
  BY <1>1 DEF Base, Types, Held, Files, Hashes
<1>3. row' \in [Scripts -> Files \cup {None}]
  BY <1>1, <1>2 DEF Base, Types
<1>4. Held'
  BY <1>1, NoneTypes DEF Held
<1> QED
  BY <1>1, <1>3, <1>4, NoneTypes, AroundKeeps DEF Base, Types, files, choices

\* A switch is written whole, as it was read but for what the command changes.
LEMMA WriteSwitchBase ==
  ASSUME Base, WriteSwitch
  PROVE  Base'
<1> DEFINE w == Switched(cli.switch, cli.kind)
<1>1. /\ cli.kind \in {"pause", "resume", "disable", "enable"}
      /\ switch' = [switch EXCEPT ![cli.script] = w]
      /\ IF Clears(cli.kind) THEN cli' = [cli EXCEPT !.step = 3] ELSE cli' = NoCommand
      /\ UNCHANGED <<files, approved, pausedAll, cursor, row, runs, requests, pc, memory, threads, budget>>
  BY DEF WriteSwitch, Done
<1>2. cli \in Commands /\ cli.script \in Scripts
  BY <1>1 DEF Base, Types, Held
<1>3. w \in SwitchRows
  BY <1>1, <1>2 DEF Switched, SwitchRows, Commands
<1> HIDE DEF w
<1>4. switch' \in [Scripts -> SwitchRows]
  BY <1>1, <1>3 DEF Base, Types
<1>5. CASE Clears(cli.kind)
  <2>1. /\ cli' \in Commands /\ cli'.kind = cli.kind /\ cli'.script = cli.script
    BY <1>1, <1>2, <1>5 DEF Commands
  <2>2. Held'
    BY <1>1, <1>2, <1>5, <2>1 DEF Held, Clears
  <2> QED
    BY <1>1, <1>4, <2>1, <2>2, AroundKeeps DEF Base, Types, files
<1>6. CASE ~Clears(cli.kind)
  <2>1. Held'
    BY <1>1, <1>6, NoneTypes DEF Held
  <2> QED
    BY <1>1, <1>4, <1>6, <2>1, NoneTypes, AroundKeeps DEF Base, Types, files
<1> QED
  BY <1>5, <1>6

\* The cursor is cleared for the script the command is about.
LEMMA ClearCursorBase ==
  ASSUME Base, ClearCursor
  PROVE  Base'
<1>1. /\ cli.step = 3 /\ cursor' = [cursor EXCEPT ![cli.script] = None]
      /\ IF cli.kind = "approve" THEN cli' = [cli EXCEPT !.step = 4] ELSE cli' = NoCommand
      /\ UNCHANGED <<files, choices, row, runs, requests, pc, memory, threads, budget>>
  BY DEF ClearCursor, Done
<1>2. cli \in Commands /\ Held
  BY DEF Base, Types
<1>3. cursor' \in [Scripts -> Nat \cup {None}]
  BY <1>1 DEF Base, Types
<1>4. CASE cli.kind = "approve"
  <2>1. /\ cli' \in Commands /\ cli'.kind = "approve" /\ cli'.script = cli.script
        /\ cli'.hash = cli.hash /\ cli'.step = 4
    BY <1>1, <1>2, <1>4 DEF Commands
  <2>2. Held'
    BY <1>1, <1>2, <1>4, <2>1 DEF Held
  <2> QED
    BY <1>1, <1>3, <2>1, <2>2, AroundKeeps DEF Base, Types, files, choices
<1>5. CASE cli.kind # "approve"
  <2>1. Held'
    BY <1>1, <1>5, NoneTypes DEF Held
  <2> QED
    BY <1>1, <1>3, <1>5, <2>1, NoneTypes, AroundKeeps DEF Base, Types, files, choices
<1> QED
  BY <1>4, <1>5

\* Pausing everything leaves the scripts alone.
LEMMA SwitchAllBase ==
  ASSUME Base, NEW kind, SwitchAll(kind)
  PROVE  Base'
<1>1. /\ Begin(kind) /\ pausedAll' = (kind = "pause all")
      /\ UNCHANGED <<files, approved, switch, cursor, row, runs, requests, pc, memory, threads, cli>>
  BY DEF SwitchAll
<1>2. Held'
  BY <1>1 DEF Base, Held
<1>3. pausedAll' \in BOOLEAN
  BY <1>1
<1> QED
  BY <1>1, <1>2, <1>3, BeginKeeps, AroundKeeps DEF Base, Types, files

\* The run a stop names is one of the runs.
LEMMA PushRequestBase ==
  ASSUME Base, PushRequest
  PROVE  Base'
<1> DEFINE mine == {r \in DOMAIN runs : runs[r].script = cli.script}
           q == [kind |-> cli.kind, script |-> cli.script,
                 run |-> IF cli.kind = "stop" THEN Max(mine) ELSE 0]
<1>1. /\ cli.kind \in {"run now", "stop", "shutdown"} /\ cli' = NoCommand
      /\ requests' = Append(requests, q)
      /\ UNCHANGED <<files, choices, cursor, row, runs, pc, memory, threads, budget>>
  BY DEF PushRequest, Done
<1>2. runs \in Seq(Rows) /\ requests \in Seq(Requests) /\ cli.script \in Scripts
  BY <1>1 DEF Base, Types, Held
<1>3. cli.kind = "stop" => Max(mine) \in Nat
  <2> SUFFICES ASSUME cli.kind = "stop"
               PROVE  Max(mine) \in Nat
    OBVIOUS
  <2>1. mine # {}
    BY DEF Base, Held
  <2>2. mine \in SUBSET Nat /\ Len(runs) \in Nat /\ \A x \in mine : x <= Len(runs)
    BY <1>2
  <2>3. Max(mine) \in mine
    <3> HIDE DEF mine
    <3> QED
      BY <2>1, <2>2, MaxIn
  <2> QED
    BY <2>2, <2>3
<1> HIDE DEF mine
<1>4. q \in Requests
  BY <1>1, <1>2, <1>3 DEF Requests
<1> HIDE DEF q
<1>5. requests' \in Seq(Requests)
  <2>1. requests' = Append(requests, q)
    BY <1>1
  <2> QED
    BY <1>2, <1>4, <2>1, AppendRun
<1>6. Held'
  <2>1. cli' = NoCommand
    BY <1>1
  <2> QED
    BY <2>1, NoneTypes DEF Held
<1> QED
  BY <1>1, <1>5, <1>6, NoneTypes, AroundKeeps DEF Base, Types, files, choices

\* Files and the clock change under a daemon that does not look.
LEMMA HostBase ==
  ASSUME Base, Host
  PROVE  Base'
<1>1. Held' /\ UNCHANGED <<pc, runs, memory, threads, database, cli>>
  BY DEF Base, Held, Host, Advance, SetBack, Edit, database
<1>2. ASSUME NEW s \in Scripts, Edit(s)
      PROVE  disk' \in [Scripts -> Files] /\ budget' \in Bounds /\ clock' = clock
  <2>1. PICK text \in Texts \cup {None}, work \in Works :
           disk' = [disk EXCEPT ![s] = [text |-> text, work |-> work]]
    BY <1>2 DEF Edit
  <2>2. [text |-> text, work |-> work] \in Files
    BY DEF Files
  <2>3. disk' \in [Scripts -> Files]
    BY <2>1, <2>2 DEF Base, Types
  <2>4. budget \in Bounds /\ budget.edits > 0 /\ budget' = [budget EXCEPT !.edits = budget.edits - 1]
    BY <1>2 DEF Edit, Base, Types, Bounds
  <2> QED
    BY <1>2, <2>3, <2>4, Spent DEF Edit
<1>3. ASSUME Advance \/ SetBack
      PROVE  disk' = disk /\ budget' \in Bounds /\ clock' \in Nat
  <2>1. budget \in Bounds /\ clock \in Nat
    BY DEF Base, Types
  <2>2. CASE Advance
    BY <2>1, <2>2 DEF Advance
  <2>3. CASE SetBack
    <3>1. budget' = [budget EXCEPT !.setBacks = budget.setBacks - 1]
      BY <2>1, <2>3 DEF SetBack, Bounds
    <3>2. budget' \in Bounds
      BY <2>1, <2>3, <3>1, Spent DEF SetBack
    <3>3. clock' \in Nat
      BY <2>1, <2>3 DEF SetBack
    <3> QED
      BY <2>3, <3>2, <3>3 DEF SetBack
  <2> QED
    BY <1>3, <2>2, <2>3
<1> QED
  BY <1>1, <1>2, <1>3, AroundKeeps DEF Host, Base, Types, database, choices

\* A command holds what it held while runs are only added or ended.
LEMMA HeldStays ==
  ASSUME Held, cli' = cli, DOMAIN runs \subseteq DOMAIN runs',
         \A r \in DOMAIN runs : runs'[r].script = runs[r].script
  PROVE  Held'
<1>1. cli.kind = "stop" => \E r \in DOMAIN runs' : runs'[r].script = cli.script
  BY DEF Held
<1> QED
  BY <1>1 DEF Held

\* A step of the daemon that leaves the runs and their threads alone.
LEMMA PassKeeps ==
  ASSUME Base, UNCHANGED <<files, approved, pausedAll, runs, live, done, job, cli>>,
         budget' \in Bounds, switch' \in [Scripts -> SwitchRows],
         cursor' \in [Scripts -> Nat \cup {None}], row' \in [Scripts -> Files \cup {None}],
         requests' \in Seq(Requests), taken' \in Seq(Requests), now' \in Nat,
         loaded' \in [Scripts -> Hashes \cup {None}], todo' \subseteq Scripts, local' \in Locals,
         pc' \in Places \ {"down"}, stopping' \in BOOLEAN,
         stopping' => pc' \in {"drain", "failures", "switch", "pause"},
         pc' \in {"approval", "cursor", "set", "start", "record", "failures", "switch", "pause"} =>
           local'.script \in Scripts,
         pc' \in {"start", "record"} =>
           local'.hash \in Hashes /\ live[local'.script] = 0 /\ Len(runs) < MaxRuns
  PROVE  Base'
<1>1. Types'
  BY DEF Base, Types, files
<1>2. Held'
  BY HeldStays DEF Base
<1>3. Working'
  BY DEF Working
<1> QED
  BY <1>1, <1>2, <1>3 DEF Base

\* A daemon that is gone leaves the database and the commands.
LEMMA ForgetBase ==
  ASSUME Base, Forget, UNCHANGED <<files, database, cli>>, budget' \in Bounds
  PROVE  Base'
<1>1. /\ pc' = "down" /\ stopping' = FALSE /\ now' = 0
      /\ loaded' = [s \in Scripts |-> None] /\ live' = [s \in Scripts |-> 0]
      /\ todo' = {} /\ taken' = <<>> /\ local' = NoLocal
      /\ done' = <<>> /\ job' = [r \in RunIds |-> "none"]
  BY DEF Forget
<1>2. Types'
  <2>1. /\ loaded' \in [Scripts -> Hashes \cup {None}] /\ live' \in [Scripts -> {0} \cup DOMAIN runs]
        /\ job' \in [RunIds -> {"none", "running", "budget"}]
    BY <1>1
  <2>2. local' \in Locals /\ todo' \subseteq Scripts /\ pc' \in Places /\ stopping' \in BOOLEAN
        /\ now' \in Nat
    BY <1>1, NoneTypes DEF Places
  <2>3. taken' \in Seq(Requests) /\ done' \in Seq(Endings)
    BY <1>1
  <2>4. UNCHANGED <<disk, clock, approved, switch, pausedAll, cursor, row, runs, requests, cli>>
    BY DEF files, database, choices
  <2> QED
    BY <2>1, <2>2, <2>3, <2>4 DEF Base, Types
<1>3. Held'
  BY HeldStays DEF Base, database
<1>4. Working'
  BY <1>1 DEF Working
<1> QED
  BY <1>2, <1>3, <1>4 DEF Base

\* A fault costs one.
LEMMA FaultCosts ==
  ASSUME Base, budget.crashes > 0, budget' = [budget EXCEPT !.crashes = @ - 1]
  PROVE  budget' \in Bounds
<1>1. budget \in Bounds
  BY DEF Base, Types
<1>2. budget' = [budget EXCEPT !.crashes = budget.crashes - 1]
  BY <1>1 DEF Bounds
<1> QED
  BY <1>1, <1>2, Spent

\* A crash and an exit alike.
LEMMA GoneBase ==
  ASSUME Base, Crash \/ Exit
  PROVE  Base'
<1>1. CASE Crash
  BY <1>1, FaultCosts, ForgetBase DEF Crash
<1>2. CASE Exit
  BY <1>2, ForgetBase DEF Exit, Base, Types
<1> QED
  BY <1>1, <1>2

\* interrupt_running leaves no run going on, and changes nothing else.
LEMMA InterruptedType ==
  ASSUME Types
  PROVE  /\ Interrupted \in Seq(Rows) /\ DOMAIN Interrupted = DOMAIN runs
         /\ Len(Interrupted) = Len(runs)
         /\ \A r \in DOMAIN runs :
              /\ Interrupted[r].script = runs[r].script
              /\ Interrupted[r].state =
                   IF runs[r].state = "running" THEN "interrupted" ELSE runs[r].state
<1> DEFINE t == Interrupted
<1>1. runs \in Seq(Rows) /\ DOMAIN runs = 1 .. Len(runs) /\ Len(runs) \in Nat
      /\ \A r \in DOMAIN runs : runs[r] \in Rows
  BY DEF Types
<1>2. t = [r \in 1 .. Len(runs) |-> t[r]] /\ DOMAIN t = DOMAIN runs
  BY <1>1 DEF Interrupted
<1>3. \A r \in DOMAIN runs :
         /\ t[r] \in Rows /\ t[r].script = runs[r].script
         /\ t[r].state = IF runs[r].state = "running" THEN "interrupted" ELSE runs[r].state
  BY <1>1 DEF Interrupted, Rows
<1> HIDE DEF t
<1>4. t \in Seq(Rows) /\ Len(t) = Len(runs)
  BY <1>1, <1>2, <1>3
<1> QED
  BY <1>2, <1>3, <1>4 DEF t

\* A new daemon starts with no run of its own.
LEMMA ServeBase ==
  ASSUME Base, Serve
  PROVE  Base'
<1>1. /\ pc = "down" /\ pc' = "tick" /\ runs' = Interrupted
      /\ UNCHANGED <<files, choices, cursor, row, requests, memory, threads, cli, budget>>
  BY DEF Serve
<1>2. /\ runs' \in Seq(Rows) /\ DOMAIN runs' = DOMAIN runs /\ Len(runs') = Len(runs)
      /\ \A r \in DOMAIN runs : runs'[r].script = runs[r].script
  BY <1>1, InterruptedType DEF Base
<1>3. Types'
  BY <1>1, <1>2 DEF Base, Types, files, choices, memory, threads, Places
<1>4. Held'
  BY <1>1, <1>2, HeldStays DEF Base
<1>5. Working'
  BY <1>1 DEF Base, Working, memory
<1> QED
  BY <1>3, <1>4, <1>5 DEF Base

\* A failed statement ends the loop.
LEMMA StoreFailsBase ==
  ASSUME Base, StoreFails
  PROVE  Base'
<1>1. /\ stopping' = TRUE /\ pc' = "drain" /\ local' = NoLocal /\ taken' = <<>> /\ todo' = {}
      /\ budget.crashes > 0 /\ budget' = [budget EXCEPT !.crashes = @ - 1]
      /\ UNCHANGED <<files, database, fresh, now, loaded, live, threads, cli>>
  BY DEF StoreFails, BeginShutdown
<1>2. budget' \in Bounds
  BY <1>1, FaultCosts
<1> QED
  BY <1>1, <1>2, NoneTypes, PassKeeps DEF Base, Types, database, choices, threads, Places

\* Every script that plans is loaded as its file is; every script has a row.
LEMMA RefreshType ==
  ASSUME Types, Refresh
  PROVE  loaded' \in [Scripts -> Hashes \cup {None}] /\ row' \in [Scripts -> Files \cup {None}]
<1>1. loaded' = [s \in Scripts |-> Hash(s)]
  BY DEF Refresh
<1>2. PICK gone \in SUBSET {s \in Scripts : Hash(s) = None} :
         row' = [s \in Scripts |-> IF s \in gone THEN None
                                  ELSE IF loaded[s] # None /\ loaded[s] = Hash(s) THEN row[s]
                                  ELSE disk[s]]
  BY DEF Refresh, PutScripts
<1>3. \A s \in Scripts : Hash(s) \in Hashes \cup {None} /\ disk[s] \in Files /\ row[s] \in Files \cup {None}
  BY HashType DEF Types
<1>4. loaded' \in [Scripts -> Hashes \cup {None}]
  BY <1>1, <1>3
<1>5. row' \in [Scripts -> Files \cup {None}]
  BY <1>2, <1>3
<1> QED
  BY <1>4, <1>5

\* A pass reads the clock and looks at the files.
LEMMA TickBase ==
  ASSUME Base, Tick
  PROVE  Base'
<1>1. /\ pc = "tick" /\ pc' = "requests" /\ now' = clock
      /\ UNCHANGED <<files, choices, cursor, runs, requests, stopping, live, stops, todo, taken, local,
                     threads, cli, budget>>
  BY DEF Tick
<1>2. loaded' \in [Scripts -> Hashes \cup {None}] /\ row' \in [Scripts -> Files \cup {None}]
  BY RefreshType DEF Tick, Base, Types
<1>3. ~stopping
  BY <1>1 DEF Base, Working
<1> QED
  BY <1>1, <1>2, <1>3, PassKeeps DEF Base, Types, choices, threads, Places

\* Every waiting request is taken.
LEMMA TakeRequestsBase ==
  ASSUME Base, TakeRequests
  PROVE  Base'
<1>1. /\ pc = "requests" /\ pc' = "act" /\ taken' = requests /\ requests' = <<>>
      /\ UNCHANGED <<files, choices, cursor, runs, stopping, fresh, now, live, stops, todo, local, threads,
                     cli, budget>>
  BY DEF TakeRequests
<1>2. loaded' \in [Scripts -> Hashes \cup {None}] /\ row' \in [Scripts -> Files \cup {None}]
  BY RefreshType DEF TakeRequests, Base, Types
<1>3. ~stopping
  BY <1>1 DEF Base, Working
<1> QED
  BY <1>1, <1>2, <1>3, PassKeeps DEF Base, Types, choices, threads, Places

\* start either has what it needs to go on, or goes back.
LEMMA BeginStartType ==
  ASSUME Base, NEW s \in Scripts, NEW at \in Occurrences \cup {None}, NEW back, BeginStart(s, at, back)
  PROVE  /\ local' \in Locals
         /\ \/ /\ pc' = "start" /\ local'.script = s /\ local'.hash \in Hashes
               /\ live[s] = 0 /\ Len(runs) < MaxRuns
            \/ pc' = back
         /\ pc' = "start" => local'.at = at \/ pc' = back
<1>1. local \in Locals /\ local.all \in BOOLEAN
  BY DEF Base, Types, Locals
<1>2. CASE Startable(s)
  <2> DEFINE h == Fingerprint(s)
  <2>1. h \in Hashes
    <3>1. loaded[s] \in Hashes /\ disk[s] \in Files
      BY <1>2 DEF Startable, Base, Types
    <3> QED
      BY <3>1 DEF Fingerprint, Hashes, Files
  <2>2. local' = [local EXCEPT !.script = s, !.at = at, !.hash = h] /\ pc' = "start"
    BY <1>2 DEF BeginStart
  <2> HIDE DEF h
  <2>3. local' \in Locals /\ local'.script = s /\ local'.hash = h /\ local'.at = at
    BY <1>1, <2>1, <2>2 DEF Locals
  <2>4. live[s] = 0 /\ Len(runs) < MaxRuns
    <3>1. budget \in Bounds /\ Len(runs) \in Nat /\ MaxRuns \in Nat
      BY ConstantsAssumption DEF Base, Types
    <3>2. budget.runs \in Nat /\ budget.runs <= MaxRuns
      BY <3>1, Spent
    <3> QED
      BY <1>2, <3>1, <3>2 DEF Startable
  <2> QED
    BY <2>1, <2>2, <2>3, <2>4
<1>3. CASE ~Startable(s)
  <2>1. local' = [NoLocal EXCEPT !.all = local.all] /\ pc' = back
    BY <1>3 DEF BeginStart
  <2> QED
    BY <1>1, <2>1, NoneTypes
<1> QED
  BY <1>2, <1>3

\* A request starts a run, flags one or ends the daemon.
LEMMA ActOnRequestBase ==
  ASSUME Base, ActOnRequest
  PROVE  Base'
<1> DEFINE request == Head(taken)
<1>1. /\ pc = "act" /\ taken # <<>>
      /\ UNCHANGED <<files, database, fresh, now, loaded, live, threads, cli, budget>>
  BY DEF ActOnRequest
<1>2. request \in Requests /\ Tail(taken) \in Seq(Requests)
  BY <1>1, TailOf DEF Base, Types
<1>3. request.script \in Scripts
  BY <1>2 DEF Requests
<1>4. ~stopping
  BY <1>1 DEF Base, Working
<1> HIDE DEF request
<1>5. CASE /\ BeginStart(request.script, None, "act")
           /\ taken' = Tail(taken) /\ UNCHANGED <<stopping, stops, todo>>
  <2>1. /\ local' \in Locals
        /\ \/ /\ pc' = "start" /\ local'.script = request.script /\ local'.hash \in Hashes
              /\ live[request.script] = 0 /\ Len(runs) < MaxRuns
           \/ pc' = "act"
    BY <1>3, <1>5, BeginStartType
  <2> QED
    BY <1>1, <1>2, <1>3, <1>4, <1>5, <2>1, PassKeeps DEF Base, Types, database, choices, threads, Places
<1>6. CASE taken' = Tail(taken) /\ UNCHANGED <<pc, stopping, todo, local>>
  BY <1>1, <1>2, <1>4, <1>6, PassKeeps DEF Base, Types, database, choices, threads, Places
<1>7. CASE BeginShutdown /\ taken' = <<>> /\ UNCHANGED <<todo, local>>
  BY <1>1, <1>7, PassKeeps DEF Base, Types, database, choices, threads, Places, BeginShutdown
<1> QED
  BY <1>5, <1>6, <1>7 DEF ActOnRequest, request

\* The pass has the loaded scripts to go through.
LEMMA ReadPausedAllBase ==
  ASSUME Base, ReadPausedAll
  PROVE  Base'
<1>1. /\ pc = "act" /\ pc' = "schedule" /\ local' = [NoLocal EXCEPT !.all = pausedAll]
      /\ todo' = {s \in Scripts : loaded[s] # None}
      /\ UNCHANGED <<files, database, stopping, fresh, now, loaded, live, stops, taken, threads, cli, budget>>
  BY DEF ReadPausedAll
<1>2. local' \in Locals
  BY <1>1, NoneTypes DEF Base, Types
<1>3. ~stopping
  BY <1>1 DEF Base, Working
<1>4. todo' \subseteq Scripts
  BY <1>1
<1> QED
  BY <1>1, <1>2, <1>3, <1>4, PassKeeps DEF Base, Types, database, choices, threads, Places

\* The check is about the script whose switch it read.
LEMMA ReadSwitchBase ==
  ASSUME Base, NEW s \in Scripts, ReadSwitch(s)
  PROVE  Base'
<1> DEFINE on == ~switch[s].paused /\ ~switch[s].disabled /\ ~local.all
<1>1. /\ pc = "schedule" /\ pc' = "approval" /\ todo' = todo \ {s}
      /\ local' = [local EXCEPT !.script = s, !.on = on]
      /\ UNCHANGED <<files, database, stopping, fresh, now, loaded, live, stops, taken, threads, cli, budget>>
  BY DEF ReadSwitch
<1>2. on \in BOOLEAN
  OBVIOUS
<1> HIDE DEF on
<1>3. local' \in Locals /\ local'.script = s
  BY <1>1, <1>2 DEF Base, Types, Locals
<1>4. ~stopping
  BY <1>1 DEF Base, Working
<1>5. todo' \subseteq Scripts
  BY <1>1 DEF Base, Types
<1> QED
  BY <1>1, <1>3, <1>4, <1>5, PassKeeps DEF Base, Types, database, choices, threads, Places

\* So is the approval it reads.
LEMMA ReadApprovalBase ==
  ASSUME Base, ReadApproval
  PROVE  Base'
<1> DEFINE on == local.on /\ approved[local.script] = loaded[local.script]
<1>1. /\ pc = "approval" /\ pc' = "cursor" /\ local' = [local EXCEPT !.on = on]
      /\ UNCHANGED <<files, database, stopping, fresh, now, loaded, live, stops, todo, taken, threads, cli,
                     budget>>
  BY DEF ReadApproval, Base, Types, Locals
<1>2. on \in BOOLEAN
  BY DEF Base, Types, Locals
<1> HIDE DEF on
<1>3. local.script \in Scripts /\ ~stopping
  BY <1>1 DEF Base, Working
<1>4. local' \in Locals /\ local'.script = local.script
  BY <1>1, <1>2 DEF Base, Types, Locals
<1> QED
  BY <1>1, <1>3, <1>4, PassKeeps DEF Base, Types, database, choices, threads, Places

\* What is due is an occurrence after the last check.
LEMMA DueType ==
  ASSUME NEW checked \in Nat, NEW at \in Nat
  PROVE  Due(checked, at) # None => Due(checked, at) \in Occurrences /\ checked < Due(checked, at)
<1> DEFINE passed == {o \in Occurrences : checked < o /\ o <= at}
<1>1. CASE passed = {}
  BY <1>1 DEF Due
<1>2. CASE passed # {}
  <2>1. passed \in SUBSET Nat /\ \A x \in passed : x <= at
    BY ConstantsAssumption
  <2>2. Max(passed) \in passed
    <3> HIDE DEF passed
    <3> QED
      BY <1>2, <2>1, MaxIn
  <2>3. Due(checked, at) = Max(passed)
    BY <1>2 DEF Due
  <2> QED
    BY <2>2, <2>3
<1> QED
  BY <1>1, <1>2

\* A firing is found only for a script that is on, after its cursor.
LEMMA FiringType ==
  ASSUME Base, NEW s \in Scripts
  PROVE  /\ Firing(s) \in Occurrences \cup {None}
         /\ Firing(s) # None =>
              local.on /\ cursor[s] \in Nat /\ Firing(s) \in Nat /\ cursor[s] < Firing(s)
<1>1. cursor[s] \in Nat \cup {None} /\ now \in Nat
  BY DEF Base, Types
<1>2. CASE cursor[s] = None \/ ~local.on
  BY <1>2 DEF Firing
<1>3. CASE ~(cursor[s] = None \/ ~local.on)
  <2>1. Firing(s) = Due(cursor[s], now) /\ cursor[s] \in Nat
    BY <1>1, <1>3 DEF Firing
  <2> QED
    BY <1>1, <1>3, <2>1, DueType, ConstantsAssumption
<1> QED
  BY <1>2, <1>3

\* The firing found is an occurrence of the schedule.
LEMMA ReadCursorBase ==
  ASSUME Base, ReadCursor
  PROVE  Base'
<1> DEFINE at == Firing(local.script)
<1>1. /\ pc = "cursor" /\ pc' = "set" /\ local' = [local EXCEPT !.at = at]
      /\ UNCHANGED <<files, database, stopping, fresh, now, loaded, live, stops, todo, taken, threads, cli,
                     budget>>
  BY DEF ReadCursor
<1>2. local.script \in Scripts /\ ~stopping
  BY <1>1 DEF Base, Working
<1>3. at \in Occurrences \cup {None}
  BY <1>2, FiringType
<1> HIDE DEF at
<1>4. local' \in Locals /\ local'.script = local.script
  BY <1>1, <1>3 DEF Base, Types, Locals
<1> QED
  BY <1>1, <1>2, <1>4, PassKeeps DEF Base, Types, database, choices, threads, Places

\* The cursor moves on before a run starts.
LEMMA SetCursorBase ==
  ASSUME Base, SetCursor
  PROVE  Base'
<1>1. /\ pc = "set" /\ cursor' = [cursor EXCEPT ![local.script] = now]
      /\ UNCHANGED <<files, choices, row, runs, requests, stopping, fresh, now, loaded, live, stops, todo,
                     taken, threads, cli, budget>>
  BY DEF SetCursor
<1>2. local.script \in Scripts /\ ~stopping /\ local \in Locals /\ local.at \in Occurrences \cup {None}
  BY <1>1 DEF Base, Working, Types, Locals
<1>3. cursor' \in [Scripts -> Nat \cup {None}]
  BY <1>1 DEF Base, Types
<1>4. CASE local' = [local EXCEPT !.script = None] /\ pc' = "schedule"
  <2>1. local' \in Locals
    BY <1>2, <1>4 DEF Locals
  <2> QED
    BY <1>1, <1>2, <1>3, <1>4, <2>1, PassKeeps DEF Base, Types, choices, threads, Places
<1>5. CASE BeginStart(local.script, local.at, "schedule")
  <2>1. /\ local' \in Locals
        /\ \/ /\ pc' = "start" /\ local'.script = local.script /\ local'.hash \in Hashes
              /\ live[local.script] = 0 /\ Len(runs) < MaxRuns
           \/ pc' = "schedule"
    BY <1>2, <1>5, BeginStartType
  <2> QED
    BY <1>1, <1>2, <1>3, <2>1, PassKeeps DEF Base, Types, choices, threads, Places
<1> QED
  BY <1>4, <1>5 DEF SetCursor

\* start returns to the requests or to the schedule.
LEMMA EndStartType ==
  ASSUME Base, EndStart
  PROVE  local' \in Locals /\ pc' \in {"act", "schedule"}
<1>1. local.all \in BOOLEAN
  BY DEF Base, Types, Locals
<1> QED
  BY <1>1, NoneTypes DEF EndStart, Return

\* A form that is not approved ends the start.
LEMMA CheckApprovalBase ==
  ASSUME Base, CheckApproval
  PROVE  Base'
<1>1. /\ pc = "start"
      /\ UNCHANGED <<files, database, stopping, fresh, now, loaded, live, stops, todo, taken, threads, cli,
                     budget>>
  BY DEF CheckApproval
<1>2. local \in Locals /\ local' \in Locals /\ ~stopping
      /\ (pc' \in {"act", "schedule"} \/ (pc' = "record" /\ local' = local))
  <2>1. local \in Locals /\ ~stopping
    BY <1>1 DEF Base, Types, Working
  <2>2. CASE pc' = "record" /\ local' = local
    BY <2>1, <2>2
  <2>3. CASE EndStart
    <3>1. local' \in Locals /\ pc' \in {"act", "schedule"}
      BY <2>3, EndStartType
    <3> QED
      BY <2>1, <3>1
  <2> QED
    BY <2>2, <2>3 DEF CheckApproval
<1>3. local.script \in Scripts /\ local.hash \in Hashes /\ live[local.script] = 0 /\ Len(runs) < MaxRuns
  BY <1>1 DEF Base, Working
<1> QED
  BY <1>1, <1>2, <1>3, PassKeeps DEF Base, Types, database, choices, threads, Places

\* A start that fails starts nothing.
LEMMA StartFailsBase ==
  ASSUME Base, StartFails
  PROVE  Base'
<1>1. /\ pc \in {"start", "record"} /\ budget.crashes > 0
      /\ budget' = [budget EXCEPT !.crashes = @ - 1] /\ EndStart
      /\ UNCHANGED <<files, database, stopping, fresh, now, loaded, live, stops, todo, taken, threads, cli>>
  BY DEF StartFails
<1>2. budget' \in Bounds
  BY <1>1, FaultCosts
<1>3. local' \in Locals /\ pc' \in {"act", "schedule"} /\ ~stopping
  BY <1>1, EndStartType DEF Base, Working
<1> QED
  BY <1>1, <1>2, <1>3, PassKeeps DEF Base, Types, database, choices, threads, Places

\* The loop goes round.
LEMMA ScheduleDoneBase ==
  ASSUME Base, ScheduleDone \/ Sleep
  PROVE  Base'
<1>1. /\ local' \in Locals /\ pc' \in {"drain", "tick"} /\ ~stopping
      /\ UNCHANGED <<files, database, stopping, fresh, now, loaded, live, stops, todo, taken, threads, cli,
                     budget>>
  BY NoneTypes DEF ScheduleDone, Sleep, memory, Base, Types, Working
<1> QED
  BY <1>1, PassKeeps DEF Base, Types, database, choices, threads, Places

\* The failures counted are those of the run just ended.
LEMMA FailuresBase ==
  ASSUME Base, CountFailures \/ ReadSwitchToPause \/ PauseScript
  PROVE  Base'
<1>1. /\ pc \in {"failures", "switch", "pause"}
      /\ UNCHANGED <<files, approved, pausedAll, cursor, row, runs, requests, stopping, fresh, now, loaded,
                     live, stops, todo, taken, threads, cli, budget>>
  BY DEF CountFailures, ReadSwitchToPause, PauseScript, database, choices
<1>2. local.script \in Scripts /\ local \in Locals /\ switch[local.script] \in SwitchRows
      /\ switch \in [Scripts -> SwitchRows]
  BY <1>1 DEF Base, Working, Types
<1>3. CASE CountFailures
  <2>1. /\ local' \in Locals /\ switch' = switch
        /\ ((pc' = "switch" /\ local' = local) \/ pc' = "drain")
    BY <1>2, <1>3, NoneTypes DEF CountFailures, database, choices
  <2> QED
    BY <1>1, <1>2, <2>1, PassKeeps DEF Base, Types, threads, Places
<1>4. CASE ReadSwitchToPause
  <2>1. [local EXCEPT !.switch = switch[local.script]] \in Locals
        /\ [local EXCEPT !.switch = switch[local.script]].script = local.script
    BY <1>2 DEF Locals
  <2>2. /\ local' \in Locals /\ switch' = switch
        /\ ((pc' = "pause" /\ local'.script = local.script) \/ pc' = "drain")
    BY <1>2, <1>4, <2>1, NoneTypes DEF ReadSwitchToPause, database, choices
  <2> QED
    BY <1>1, <1>2, <2>2, PassKeeps DEF Base, Types, threads, Places
<1>5. CASE PauseScript
  <2>1. [local.switch EXCEPT !.paused = TRUE] \in SwitchRows
    BY <1>2 DEF Locals, SwitchRows
  <2>2. switch' \in [Scripts -> SwitchRows]
    BY <1>2, <1>5, <2>1 DEF PauseScript
  <2>3. local' = NoLocal /\ pc' = "drain"
    BY <1>5 DEF PauseScript
  <2> QED
    BY <1>1, <2>2, <2>3, NoneTypes, PassKeeps DEF Base, Types, threads, Places
<1> QED
  BY <1>3, <1>4, <1>5

\* A run is recorded for the script the start is about.
LEMMA RecordRunBase ==
  ASSUME Base, RecordRun
  PROVE  Base'
<1> DEFINE r == Len(runs) + 1
           new == [script |-> local.script, hash |-> local.hash, scheduled |-> local.at,
                   state |-> "running"]
<1>1. /\ pc = "record" /\ EndStart
      /\ UNCHANGED <<files, choices, cursor, row, requests, stopping, fresh, now, loaded, stops, todo,
                     taken, done, cli, budget>>
  BY DEF RecordRun
<1>2. /\ local.script \in Scripts /\ local.hash \in Hashes /\ live[local.script] = 0
      /\ Len(runs) < MaxRuns /\ ~stopping
  BY <1>1 DEF Base, Working
<1>3. local \in Locals /\ local' \in Locals /\ pc' \in {"act", "schedule"}
      /\ runs \in Seq(Rows) /\ live \in [Scripts -> {0} \cup DOMAIN runs]
      /\ job \in [RunIds -> {"none", "running", "budget"}]
  BY <1>1, EndStartType DEF Base, Types
<1>4. CASE UNCHANGED <<runs, live, job>>
  BY <1>1, <1>2, <1>3, <1>4, PassKeeps DEF Base, Types, choices, Places
<1>5. CASE /\ runs' = Append(runs, new)
           /\ live' = [live EXCEPT ![local.script] = r]
           /\ job' = [job EXCEPT ![r] = "running"]
  <2>1. new \in Rows
    BY <1>2, <1>3 DEF Rows, Locals
  <2> HIDE DEF new
  <2>2. /\ runs' \in Seq(Rows) /\ Len(runs') = r /\ DOMAIN runs' = 1 .. r /\ DOMAIN runs = 1 .. Len(runs)
        /\ \A i \in DOMAIN runs : runs'[i] = runs[i]
    BY <1>3, <1>5, <2>1, AppendRun
  <2>3. Len(runs) \in Nat /\ MaxRuns \in Nat
    BY <1>3, ConstantsAssumption
  <2>4. r \in DOMAIN runs' /\ DOMAIN runs \subseteq DOMAIN runs' /\ r <= MaxRuns
    BY <1>2, <2>2, <2>3
  <2>5. live' \in [Scripts -> {0} \cup DOMAIN runs']
    BY <1>3, <1>5, <2>4
  <2>6. job' \in [RunIds -> {"none", "running", "budget"}]
    BY <1>3, <1>5
  <2>7. Types'
    BY <1>1, <1>3, <2>2, <2>4, <2>5, <2>6 DEF Base, Types, files, choices, Places
  <2>8. Held'
    BY <1>1, <2>2, <2>4, HeldStays DEF Base
  <2>9. Working'
    BY <1>1, <1>2, <1>3 DEF Working
  <2> QED
    BY <2>7, <2>8, <2>9 DEF Base
<1> QED
  BY <1>4, <1>5 DEF RecordRun

\* The end is recorded for the run the channel names.
LEMMA FinishRunBase ==
  ASSUME Base, FinishRun
  PROVE  Base'
<1> DEFINE ended == Head(done)
<1>1. /\ pc = "drain" /\ done # <<>> /\ done' = Tail(done) /\ pc' = "failures"
      /\ live' = [live EXCEPT ![ended.script] = 0]
      /\ runs' = [runs EXCEPT ![ended.run].state = ended.state]
      /\ local' = [NoLocal EXCEPT !.script = ended.script]
      /\ UNCHANGED <<files, choices, cursor, row, requests, stopping, fresh, now, loaded, stops, todo,
                     taken, job, cli, budget>>
  BY DEF FinishRun
<1>2. ended \in Endings /\ Tail(done) \in Seq(Endings)
  BY <1>1, TailOf DEF Base, Types
<1>3. ended.script \in Scripts /\ ended.state \in Ends
  BY <1>2 DEF Endings
<1> HIDE DEF ended
<1>4. runs \in Seq(Rows) /\ live \in [Scripts -> {0} \cup DOMAIN runs]
  BY DEF Base, Types
<1>5. /\ runs' \in Seq(Rows) /\ Len(runs') = Len(runs) /\ DOMAIN runs' = DOMAIN runs
      /\ \A i \in DOMAIN runs : runs'[i].script = runs[i].script
  <2>1. ended.state \in Ends \cup {"running", "interrupted"}
    BY <1>3
  <2>2. runs' = Ended(runs, ended.run, ended.state)
    BY <1>1 DEF Ended
  <2> QED
    BY <1>4, <2>1, <2>2, EndRun
<1>6. live' \in [Scripts -> {0} \cup DOMAIN runs']
  BY <1>1, <1>4, <1>5
<1>7. local' \in Locals /\ local'.script = ended.script
  BY <1>1, <1>3, NoneTypes
<1>8. Types'
  BY <1>1, <1>2, <1>5, <1>6, <1>7 DEF Base, Types, files, choices, Places
<1>9. Held'
  BY <1>1, <1>5, HeldStays DEF Base
<1>10. Working'
  BY <1>1, <1>3, <1>7 DEF Working
<1> QED
  BY <1>8, <1>9, <1>10 DEF Base

\* An end that cannot be recorded ends the loop.
LEMMA FinishFailsBase ==
  ASSUME Base, FinishFails
  PROVE  Base'
<1> DEFINE ended == Head(done)
<1>1. /\ pc = "drain" /\ done # <<>> /\ done' = Tail(done) /\ pc' = "drain" /\ stopping' = TRUE
      /\ budget.crashes > 0 /\ budget' = [budget EXCEPT !.crashes = @ - 1]
      /\ live' = [live EXCEPT ![ended.script] = 0]
      /\ UNCHANGED <<files, database, fresh, now, loaded, todo, taken, local, job, cli>>
  BY DEF FinishFails
<1>2. Tail(done) \in Seq(Endings)
  BY <1>1, TailOf DEF Base, Types
<1>3. live' \in [Scripts -> {0} \cup DOMAIN runs]
  BY <1>1 DEF Base, Types
<1>4. budget' \in Bounds
  BY <1>1, FaultCosts
<1>5. Types'
  BY <1>1, <1>2, <1>3, <1>4 DEF Base, Types, files, database, choices, Places
<1>6. Held'
  BY <1>1, HeldStays DEF Base, database
<1>7. Working'
  BY <1>1 DEF Working
<1> QED
  BY <1>5, <1>6, <1>7 DEF Base

\* A run's thread goes on, or its end is in the channel.
LEMMA ThreadBase ==
  ASSUME Base, Threads, NEW r \in RunIds, Thread(r)
  PROVE  Base'
<1>1. /\ pc # "down" \/ job[r] = "none"
      /\ job[r] # "none" /\ r \in DOMAIN runs
  BY DEF Base, Working, Threads, Thread, BudgetSpent, JobEnds
<1>2. ASSUME NEW state \in Ends, JobEnds(r, state), r \in DOMAIN runs
      PROVE  Base'
  <2> DEFINE e == [script |-> runs[r].script, run |-> r, state |-> state]
  <2>1. /\ job' = [job EXCEPT ![r] = "none"] /\ done' = Append(done, e)
        /\ UNCHANGED <<files, database, pc, memory, cli, budget, history>>
    BY <1>2 DEF JobEnds
  <2>2. e \in Endings
    <3>1. runs[r] \in Rows
      BY <1>2 DEF Base, Types
    <3>2. runs[r].script \in Scripts
      BY <3>1 DEF Rows
    <3> QED
      BY <1>2, <3>2 DEF Endings
  <2> HIDE DEF e
  <2>3. done' \in Seq(Endings) /\ job' \in [RunIds -> {"none", "running", "budget"}]
    BY <2>1, <2>2, AppendRun DEF Base, Types
  <2>4. Types'
    BY <2>1, <2>3 DEF Base, Types, files, database, choices, memory
  <2>5. Held'
    BY <2>1, HeldStays DEF Base, database
  <2>6. Working'
    BY <1>1, <2>1 DEF Base, Working, database, memory
  <2> QED
    BY <2>4, <2>5, <2>6 DEF Base
<1>3. ASSUME BudgetSpent(r), r \in DOMAIN runs
      PROVE  Base'
  <2>1. /\ job' = [job EXCEPT ![r] = "budget"]
        /\ switch' = [switch EXCEPT ![runs[r].script] = [paused |-> TRUE, disabled |-> FALSE]]
        /\ UNCHANGED <<files, approved, pausedAll, cursor, row, runs, requests, pc, memory, done, cli,
                       budget, history>>
    BY <1>3 DEF BudgetSpent
  <2>2. [paused |-> TRUE, disabled |-> FALSE] \in SwitchRows
    BY DEF SwitchRows
  <2>3. switch' \in [Scripts -> SwitchRows] /\ job' \in [RunIds -> {"none", "running", "budget"}]
    BY <2>1, <2>2 DEF Base, Types
  <2>4. Types'
    BY <2>1, <2>3 DEF Base, Types, files, memory
  <2>5. Held'
    BY <2>1, HeldStays DEF Base
  <2>6. Working'
    BY <1>1, <2>1 DEF Base, Working, memory
  <2> QED
    BY <2>4, <2>5, <2>6 DEF Base
<1> QED
  BY <1>1, <1>2, <1>3 DEF Thread
-----------------------------------------------------------------------------
(* Every step keeps the types. *)

\* A command or the host leaves the daemon and the runs where they are.
LEMMA AroundStill ==
  ASSUME Command \/ Host
  PROVE  UNCHANGED <<pc, runs, memory, threads>>
<1>1. ASSUME NEW s \in Scripts, BeginApprove(s) PROVE UNCHANGED <<pc, runs, memory, threads>>
  BY <1>1 DEF BeginApprove, database
<1>2. ASSUME NEW kind \in CommandKinds, NEW s \in Scripts, BeginSwitch(kind, s) \/ BeginRequest(kind, s)
      PROVE  UNCHANGED <<pc, runs, memory, threads>>
  BY <1>2 DEF BeginSwitch, BeginRequest, database
<1>3. ASSUME NEW kind \in CommandKinds, SwitchAll(kind) PROVE UNCHANGED <<pc, runs, memory, threads>>
  BY <1>3 DEF SwitchAll
<1>4. ASSUME WriteApproval \/ PutRow \/ WriteSwitch \/ ClearCursor \/ PushRequest
      PROVE  UNCHANGED <<pc, runs, memory, threads>>
  BY <1>4 DEF WriteApproval, PutRow, WriteSwitch, ClearCursor, PushRequest
<1>5. ASSUME Host PROVE UNCHANGED <<pc, runs, memory, threads>>
  BY <1>5 DEF Host, Advance, SetBack, Edit, database
<1> QED
  BY <1>1, <1>2, <1>3, <1>4, <1>5 DEF Command

\* Each step keeps what the others rely on.
LEMMA BaseSteps ==
  ASSUME Base, Threads, [Next]_vars
  PROVE  Base'
<1>1. CASE Serve
  BY <1>1, ServeBase
<1>2. CASE Pass
  <2>1. ASSUME NEW s \in Scripts, ReadSwitch(s) PROVE Base'
    BY <2>1, ReadSwitchBase
  <2> QED
    BY <1>2, <2>1, TickBase, TakeRequestsBase, ActOnRequestBase, ReadPausedAllBase, ReadApprovalBase,
       ReadCursorBase, SetCursorBase, CheckApprovalBase, RecordRunBase, ScheduleDoneBase, FinishRunBase,
       FailuresBase, GoneBase DEF Pass
<1>3. CASE Fault
  BY <1>3, GoneBase, StoreFailsBase, StartFailsBase, FinishFailsBase DEF Fault
<1>4. ASSUME NEW r \in RunIds, Thread(r) PROVE Base'
  BY <1>4, ThreadBase
<1>5. CASE Command
  <2>1. ASSUME NEW s \in Scripts, BeginApprove(s) PROVE Base'
    BY <2>1, BeginApproveBase
  <2>2. ASSUME NEW kind \in CommandKinds, NEW s \in Scripts, BeginSwitch(kind, s) \/ BeginRequest(kind, s)
        PROVE  Base'
    BY <2>2, BeginSwitchBase, BeginRequestBase
  <2>3. ASSUME NEW kind \in CommandKinds, SwitchAll(kind) PROVE Base'
    BY <2>3, SwitchAllBase
  <2> QED
    BY <1>5, <2>1, <2>2, <2>3, WriteApprovalBase, PutRowBase, WriteSwitchBase, ClearCursorBase,
       PushRequestBase DEF Command
<1>6. CASE Host
  BY <1>6, HostBase
<1>7. CASE UNCHANGED vars
  <2>1. UNCHANGED <<disk, clock, approved, switch, pausedAll, cursor, row, runs, requests, pc, stopping, now,
                    loaded, live, todo, taken, local, done, job, cli, budget>>
    BY <1>7 DEF vars, files, database, choices, memory, threads
  <2>2. Types'
    BY <2>1 DEF Base, Types
  <2>3. Held'
    BY <2>1, HeldStays DEF Base
  <2>4. Working'
    BY <2>1 DEF Base, Working
  <2> QED
    BY <2>2, <2>3, <2>4 DEF Base
<1> QED
  BY <1>1, <1>2, <1>3, <1>4, <1>5, <1>6, <1>7 DEF Next


\* No daemon runs at first, and nothing is approved.
LEMMA BaseInit ==
  ASSUME Init
  PROVE  Base
<1>1. NoLocal \in Locals /\ NoCommand \in Commands
  BY NoneTypes
<1>2. [paused |-> FALSE, disabled |-> FALSE] \in SwitchRows
  BY DEF SwitchRows
<1>3. disk \in [Scripts -> Files]
  BY ConstantsAssumption DEF Init, Files, Hashes
<1>4. budget \in Bounds /\ clock \in Nat /\ now \in Nat
  BY ConstantsAssumption DEF Init, Bounds
<1>5. /\ approved \in [Scripts -> Hashes \cup {None}] /\ switch \in [Scripts -> SwitchRows]
      /\ cursor \in [Scripts -> Nat \cup {None}] /\ row \in [Scripts -> Files \cup {None}]
      /\ loaded \in [Scripts -> Hashes \cup {None}]
      /\ job \in [RunIds -> {"none", "running", "budget"}]
      /\ pausedAll \in BOOLEAN /\ stopping \in BOOLEAN /\ pc \in Places /\ todo \subseteq Scripts
  BY <1>2 DEF Init, Places
<1>6. /\ runs \in Seq(Rows) /\ Len(runs) <= MaxRuns /\ requests \in Seq(Requests)
      /\ taken \in Seq(Requests) /\ done \in Seq(Endings)
  BY ConstantsAssumption DEF Init
<1>7. live \in [Scripts -> {0} \cup DOMAIN runs]
  BY DEF Init
<1>8. Types
  BY <1>1, <1>3, <1>4, <1>5, <1>6, <1>7 DEF Init, Types
<1>9. Held
  BY NoneTypes DEF Init, Held
<1>10. Working
  BY DEF Init, Working
<1> QED
  BY <1>8, <1>9, <1>10 DEF Base

-----------------------------------------------------------------------------
(* Runs, the scripts they hold back, and their threads. *)

\* A step that touches no run and starts no daemon.
RunsQuiet ==
  /\ UNCHANGED <<runs, live, done, job>>
  /\ Daemon' => Daemon
  /\ stopping => stopping'

\* Such a step keeps the runs in line.
LEMMA QuietRuns ==
  ASSUME RunsInv, RunsQuiet
  PROVE  RunsInv'
<1> USE DEF RunsQuiet
<1>1. LiveRuns'
  BY DEF RunsInv, LiveRuns
<1>2. Threads'
  BY DEF RunsInv, Threads
<1>3. RunningIsLive'
  BY DEF RunsInv, RunningIsLive, Daemon
<1>4. ThreadPerLiveRun'
  BY DEF RunsInv, ThreadPerLiveRun
<1> QED
  BY <1>1, <1>2, <1>3, <1>4 DEF RunsInv

\* Most steps of a pass are of that kind.
LEMMA PassIsQuiet ==
  ASSUME Base,
         \/ Tick \/ TakeRequests \/ ActOnRequest \/ ReadPausedAll \/ ReadApproval \/ ReadCursor \/ SetCursor
         \/ CheckApproval \/ ScheduleDone \/ CountFailures \/ ReadSwitchToPause \/ PauseScript \/ Sleep \/ StoreFails \/ StartFails
         \/ \E s \in Scripts : ReadSwitch(s)
  PROVE  RunsQuiet
<1>1. CASE Tick
  BY <1>1 DEF Tick, RunsQuiet, Daemon, database, threads
<1>2. CASE TakeRequests
  BY <1>2 DEF TakeRequests, RunsQuiet, Daemon, database, threads
<1>3. CASE ActOnRequest
  <2>1. pc = "act" /\ UNCHANGED <<database, live, threads>>
    BY <1>3 DEF ActOnRequest
  <2>2. stopping' = stopping \/ stopping' = TRUE
    BY <1>3 DEF ActOnRequest, BeginShutdown
  <2> QED
    BY <2>1, <2>2 DEF RunsQuiet, Daemon, database, threads
<1>4. CASE ReadPausedAll
  BY <1>4 DEF ReadPausedAll, RunsQuiet, Daemon, database, threads
<1>5. CASE ReadApproval
  BY <1>5 DEF ReadApproval, RunsQuiet, Daemon, database, threads
<1>6. CASE ReadCursor
  BY <1>6 DEF ReadCursor, RunsQuiet, Daemon, database, threads
<1>7. CASE SetCursor
  BY <1>7 DEF SetCursor, RunsQuiet, Daemon, database, threads, BeginStart
<1>8. CASE CheckApproval
  BY <1>8 DEF CheckApproval, RunsQuiet, Daemon, database, threads, EndStart, Return
<1>9. CASE ScheduleDone
  BY <1>9 DEF ScheduleDone, RunsQuiet, Daemon, database, threads
<1>10. CASE CountFailures
  BY <1>10 DEF CountFailures, RunsQuiet, Daemon, database, threads
<1>11. CASE ReadSwitchToPause
  BY <1>11 DEF ReadSwitchToPause, RunsQuiet, Daemon, database, threads
<1>12. CASE PauseScript
  BY <1>12 DEF PauseScript, RunsQuiet, Daemon, database, threads
<1>13. CASE Sleep
  BY <1>13 DEF Sleep, RunsQuiet, Daemon, database, threads, memory
<1>14. CASE StoreFails
  BY <1>14 DEF StoreFails, RunsQuiet, Daemon, database, threads, BeginShutdown
<1>15. CASE StartFails
  BY <1>15 DEF StartFails, RunsQuiet, Daemon, database, threads, EndStart, Return
<1>16. CASE \E s \in Scripts : ReadSwitch(s)
  <2>1. PICK s \in Scripts : ReadSwitch(s)
    BY <1>16
  <2>2. pc = "schedule" /\ UNCHANGED <<database, stopping, live, threads>>
    BY <2>1 DEF ReadSwitch
  <2> QED
    BY <2>2 DEF RunsQuiet, Daemon, database, threads
<1> QED
  BY <1>1, <1>2, <1>3, <1>4, <1>5, <1>6, <1>7, <1>8, <1>9, <1>10, <1>11, <1>12, <1>13, <1>14, <1>15, <1>16

\* A daemon that is gone has no run and no thread.
LEMMA GoneRuns ==
  ASSUME Base, Forget, UNCHANGED runs
  PROVE  RunsInv'
<1>1. /\ pc' = "down" /\ live' = [s \in Scripts |-> 0] /\ done' = <<>>
      /\ job' = [r \in RunIds |-> "none"]
  BY DEF Forget
<1> QED
  BY <1>1 DEF RunsInv, LiveRuns, Threads, RunningIsLive, ThreadPerLiveRun, Daemon

\* A new daemon finds no run of its own going on.
LEMMA ServeRuns ==
  ASSUME Base, Serve
  PROVE  RunsInv'
<1>1. /\ pc = "down" /\ runs' = Interrupted /\ UNCHANGED <<live, done, job, stopping>>
  BY DEF Serve, memory, threads
<1>2. /\ done' = <<>>
      /\ \A s \in Scripts : live'[s] = 0
      /\ \A r \in RunIds : job'[r] = "none"
  BY <1>1 DEF Base, Working
<1>3. \A r \in DOMAIN runs' : runs'[r].state # "running" /\ runs'[r].script \in Scripts /\ r # 0
  <2>1. runs' \in Seq(Rows) /\ DOMAIN runs' = DOMAIN runs
        /\ \A r \in DOMAIN runs : runs'[r].state # "running"
    BY <1>1, InterruptedType DEF Base
  <2>2. \A r \in DOMAIN runs' : runs'[r] \in Rows /\ r # 0
    BY <2>1
  <2> QED
    BY <2>1, <2>2 DEF Rows
<1>4. RunningIsLive'
  BY <1>2, <1>3 DEF RunningIsLive
<1>5. LiveRuns'
  BY <1>2 DEF LiveRuns
<1>6. Threads'
  BY <1>2 DEF Threads
<1>7. ThreadPerLiveRun'
  BY <1>2 DEF ThreadPerLiveRun
<1> QED
  BY <1>4, <1>5, <1>6, <1>7 DEF RunsInv

\* What RunsInv says of one script, one ending and one thread.
LEMMA RunsFacts ==
  ASSUME Base, RunsInv
  PROVE  /\ DOMAIN runs = 1 .. Len(runs) /\ Len(runs) \in Nat /\ DOMAIN runs \subseteq RunIds
         /\ \A s \in Scripts : live[s] = 0 \/ live[s] \in DOMAIN runs
         /\ \A s \in Scripts : live[s] # 0 =>
              runs[live[s]].script = s /\ runs[live[s]].state = "running"
         /\ \A r \in DOMAIN runs : r # 0 /\ runs[r].script \in Scripts
         /\ \A i \in DOMAIN done :
              /\ done[i].script \in Scripts /\ done[i].run \in DOMAIN runs
              /\ live[done[i].script] = done[i].run /\ done[i].state \in Ends
<1>1. runs \in Seq(Rows) /\ Len(runs) <= MaxRuns /\ live \in [Scripts -> {0} \cup DOMAIN runs]
      /\ done \in Seq(Endings) /\ MaxRuns \in Nat
  BY ConstantsAssumption DEF Base, Types
<1>2. DOMAIN runs = 1 .. Len(runs) /\ Len(runs) \in Nat
  BY <1>1
<1>3. DOMAIN runs \subseteq RunIds /\ \A r \in DOMAIN runs : r # 0
  BY <1>1, <1>2 DEF RunIds
<1>4. \A r \in DOMAIN runs : runs[r].script \in Scripts
  <2>1. \A r \in DOMAIN runs : runs[r] \in Rows
    BY <1>1
  <2> QED
    BY <2>1 DEF Rows
<1>5. \A s \in Scripts : live[s] = 0 \/ live[s] \in DOMAIN runs
  BY <1>1
<1>6. \A s \in Scripts : live[s] # 0 =>
        runs[live[s]].script = s /\ runs[live[s]].state = "running"
  BY DEF RunsInv, LiveRuns
<1>7. \A i \in DOMAIN done : done[i].script \in Scripts /\ done[i].run \in RunIds /\ done[i].state \in Ends
  <2>1. \A i \in DOMAIN done : done[i] \in Endings
    BY <1>1
  <2> QED
    BY <2>1 DEF Endings
<1>8. \A i \in DOMAIN done : live[done[i].script] = done[i].run
  BY DEF RunsInv, Threads
<1>9. \A i \in DOMAIN done : done[i].run # 0
  BY <1>1, <1>7 DEF RunIds
<1>10. \A i \in DOMAIN done : done[i].run \in DOMAIN runs
  BY <1>5, <1>7, <1>8, <1>9
<1> QED
  BY <1>2, <1>3, <1>4, <1>5, <1>6, <1>7, <1>8, <1>10

\* A new run holds back a script that had none.
LEMMA RecordRunRuns ==
  ASSUME Base, RunsInv, RecordRun
  PROVE  RunsInv'
<1> DEFINE r == Len(runs) + 1
           s == local.script
           new == [script |-> local.script, hash |-> local.hash, scheduled |-> local.at,
                   state |-> "running"]
<1>1. pc = "record" /\ EndStart /\ UNCHANGED <<stopping, done>>
  BY DEF RecordRun
<1>2. s \in Scripts /\ live[s] = 0 /\ ~stopping /\ Len(runs) < MaxRuns
      /\ local.hash \in Hashes /\ local.at \in Occurrences \cup {None}
  BY <1>1 DEF Base, Working, Types, Locals
<1>3. CASE UNCHANGED <<runs, live, job>>
  BY <1>1, <1>3, QuietRuns DEF RunsQuiet, Daemon
<1>4. CASE /\ runs' = Append(runs, new)
           /\ live' = [live EXCEPT ![s] = r]
           /\ job' = [job EXCEPT ![r] = "running"]
  <2>1. runs \in Seq(Rows) /\ new \in Rows /\ new.script = s /\ new.state = "running"
    BY <1>2 DEF Base, Types, Rows
  <2> HIDE DEF new
  <2>2. /\ DOMAIN runs' = 1 .. r /\ runs'[r] = new
        /\ \A q \in DOMAIN runs : runs'[q] = runs[q]
    BY <1>4, <2>1, AppendRun
  <2>3. live \in [Scripts -> {0} \cup DOMAIN runs] /\ job \in [RunIds -> {"none", "running", "budget"}]
        /\ MaxRuns \in Nat
    BY ConstantsAssumption DEF Base, Types
  <2>4. r \in DOMAIN runs' /\ r \in RunIds /\ r \notin DOMAIN runs /\ r # 0
        /\ DOMAIN runs' = DOMAIN runs \cup {r}
    BY <1>2, <2>2, <2>3, RunsFacts DEF RunIds
  <2> HIDE DEF r
  <2>5. live'[s] = r /\ (\A x \in Scripts : x # s => live'[x] = live[x])
    BY <1>2, <1>4, <2>3
  <2>6. job'[r] = "running" /\ (\A q \in RunIds : q # r => job'[q] = job[q])
    BY <1>4, <2>3, <2>4
  <2> HIDE DEF s
  <2>7. \A i \in DOMAIN done : done[i].script # s /\ done[i].run # r
    BY <1>2, <2>4, RunsFacts
  <2>8. \A q \in DOMAIN runs : live[runs[q].script] = q => runs[q].script # s
    BY <1>2, RunsFacts
  <2>9. LiveRuns'
    BY <2>1, <2>2, <2>5, RunsFacts DEF LiveRuns
  <2>10. Threads'
    <3>1. (\A i \in DOMAIN done : live[done[i].script] = done[i].run)'
      BY <1>1, <2>5, <2>7, RunsFacts
    <3>2. (\A i, j \in DOMAIN done : done[i].run = done[j].run => i = j)'
      BY <1>1 DEF RunsInv, Threads
    <3>3. ASSUME NEW q \in RunIds, job'[q] # "none"
          PROVE  (/\ q \in DOMAIN runs /\ live[runs[q].script] = q
                  /\ \A i \in DOMAIN done : done[i].run # q)'
      <4>1. CASE q = r
        BY <1>1, <2>1, <2>2, <2>4, <2>5, <2>7, <4>1
      <4>2. CASE q # r
        <5>1. /\ q \in DOMAIN runs /\ live[runs[q].script] = q
              /\ \A i \in DOMAIN done : done[i].run # q
          BY <2>6, <3>3, <4>2 DEF RunsInv, Threads
        <5> QED
          BY <1>1, <2>2, <2>4, <2>5, <2>8, <5>1, RunsFacts
      <4> QED
        BY <4>1, <4>2
    <3> QED
      BY <3>1, <3>2, <3>3 DEF Threads
  <2>11. RunningIsLive'
    <3>1. \A q \in DOMAIN runs : (runs[q].state = "running") <=> (live[runs[q].script] = q)
      BY <1>1, <1>2 DEF RunsInv, RunningIsLive, Daemon
    <3>2. \A q \in DOMAIN runs : (runs'[q].state = "running") <=> (live'[runs'[q].script] = q)
      BY <1>2, <2>2, <2>4, <2>5, <3>1, RunsFacts
    <3> QED
      BY <2>1, <2>2, <2>4, <2>5, <3>2 DEF RunningIsLive
  <2>12. ThreadPerLiveRun'
    <3>1. ASSUME NEW x \in Scripts, live'[x] # 0
          PROVE  ((job[live[x]] # "none") # (\E i \in DOMAIN done : done[i].run = live[x]))'
      <4>1. CASE x = s
        BY <1>1, <2>5, <2>6, <2>7, <4>1
      <4>2. CASE x # s
        <5>1. live'[x] = live[x] /\ live[x] \in DOMAIN runs /\ live[x] # r
          BY <2>4, <2>5, <3>1, <4>2, RunsFacts
        <5>2. job'[live[x]] = job[live[x]]
          BY <2>6, <5>1, RunsFacts
        <5>3. (job[live[x]] # "none") # (\E i \in DOMAIN done : done[i].run = live[x])
          BY <3>1, <5>1 DEF RunsInv, ThreadPerLiveRun
        <5> QED
          BY <1>1, <5>1, <5>2, <5>3
      <4> QED
        BY <4>1, <4>2
    <3> QED
      BY <3>1 DEF ThreadPerLiveRun
  <2> QED
    BY <2>9, <2>10, <2>11, <2>12 DEF RunsInv
<1> QED
  BY <1>3, <1>4 DEF RecordRun

\* The end taken from the channel frees its script; the rest is as it was.
LEMMA FreedRuns ==
  ASSUME Base, RunsInv, done # <<>>, done' = Tail(done), UNCHANGED job,
         live' = [live EXCEPT ![done[1].script] = 0], DOMAIN runs' = DOMAIN runs,
         \A r \in DOMAIN runs : /\ runs'[r].script = runs[r].script
                                /\ r # done[1].run => runs'[r].state = runs[r].state
  PROVE  LiveRuns' /\ Threads' /\ ThreadPerLiveRun'
<1> DEFINE s == done[1].script
           e == done[1].run
<1>1. /\ 1 \in DOMAIN done /\ done \in Seq(Endings)
      /\ \A i \in DOMAIN Tail(done) : i + 1 \in DOMAIN done /\ Tail(done)[i] = done[i + 1] /\ i + 1 # 1
      /\ \A i \in DOMAIN done : i # 1 => i - 1 \in DOMAIN Tail(done) /\ Tail(done)[i - 1] = done[i]
      /\ \A i \in DOMAIN Tail(done) : i \in Nat
  BY TailOf DEF Base, Types
<1>2. s \in Scripts /\ e \in DOMAIN runs /\ live[s] = e /\ live \in [Scripts -> {0} \cup DOMAIN runs]
  BY <1>1, RunsFacts DEF Base, Types
<1>3. live'[s] = 0 /\ (\A x \in Scripts : x # s => live'[x] = live[x])
  BY <1>2
<1>4. \A i \in DOMAIN done : i # 1 => done[i].run # e /\ done[i].script # s
  <2>1. \A i \in DOMAIN done : i # 1 => done[i].run # e
    BY <1>1 DEF RunsInv, Threads
  <2> QED
    BY <1>2, <2>1, RunsFacts
<1>5. \A x \in Scripts : x # s /\ live[x] # 0 => live[x] # e
  BY <1>2, RunsFacts
<1> HIDE DEF s, e
<1>6. LiveRuns'
  <2>1. ASSUME NEW x \in Scripts, live'[x] # 0
        PROVE  runs'[live'[x]].script = x /\ runs'[live'[x]].state = "running"
    <3>1. x # s /\ live'[x] = live[x] /\ live[x] \in DOMAIN runs /\ live[x] # e
      BY <1>3, <1>5, <2>1, RunsFacts
    <3> QED
      BY <2>1, <3>1, RunsFacts DEF e
  <2> QED
    BY <2>1 DEF LiveRuns
<1>7. Threads'
  <2>1. ASSUME NEW i \in DOMAIN done'
        PROVE  live'[done'[i].script] = done'[i].run
    <3>1. i + 1 \in DOMAIN done /\ done'[i] = done[i + 1] /\ i + 1 # 1
      BY <1>1
    <3> QED
      BY <1>3, <1>4, <3>1, RunsFacts
  <2>2. ASSUME NEW i \in DOMAIN done', NEW j \in DOMAIN done', done'[i].run = done'[j].run
        PROVE  i = j
    <3>1. /\ i + 1 \in DOMAIN done /\ done'[i] = done[i + 1] /\ i \in Nat
          /\ j + 1 \in DOMAIN done /\ done'[j] = done[j + 1] /\ j \in Nat
      BY <1>1
    <3>2. i + 1 = j + 1
      BY <2>2, <3>1 DEF RunsInv, Threads
    <3> QED
      BY <3>1, <3>2
  <2>3. ASSUME NEW r \in RunIds, job'[r] # "none"
        PROVE  /\ r \in DOMAIN runs' /\ live'[runs'[r].script] = r
               /\ \A i \in DOMAIN done' : done'[i].run # r
    <3>1. /\ r \in DOMAIN runs /\ live[runs[r].script] = r
          /\ \A i \in DOMAIN done : done[i].run # r
      BY <2>3 DEF RunsInv, Threads
    <3>2. runs[r].script \in Scripts /\ runs[r].script # s
      BY <1>1, <1>2, <3>1, RunsFacts DEF e
    <3>3. \A i \in DOMAIN done' : done'[i].run # r
      BY <1>1, <3>1
    <3> QED
      BY <1>3, <3>1, <3>2, <3>3
  <2> QED
    BY <2>1, <2>2, <2>3 DEF Threads
<1>8. ThreadPerLiveRun'
  <2>1. ASSUME NEW x \in Scripts, live'[x] # 0
        PROVE  (job'[live'[x]] # "none") # (\E i \in DOMAIN done' : done'[i].run = live'[x])
    <3>1. x # s /\ live'[x] = live[x] /\ live[x] # 0 /\ live[x] # e
      BY <1>3, <1>5, <2>1
    <3>2. (job[live[x]] # "none") # (\E i \in DOMAIN done : done[i].run = live[x])
      BY <3>1 DEF RunsInv, ThreadPerLiveRun
    <3>3. ASSUME NEW i \in DOMAIN done, done[i].run = live[x]
          PROVE  \E j \in DOMAIN done' : done'[j].run = live[x]
      <4>1. i # 1
        BY <3>1, <3>3 DEF e
      <4> QED
        BY <1>1, <3>3, <4>1
    <3>4. ASSUME NEW j \in DOMAIN done', done'[j].run = live[x]
          PROVE  \E i \in DOMAIN done : done[i].run = live[x]
      BY <1>1, <3>4
    <3> QED
      BY <3>1, <3>2, <3>3, <3>4
  <2> QED
    BY <2>1 DEF ThreadPerLiveRun
<1> QED
  BY <1>6, <1>7, <1>8

\* finish: the run ends and its script is free, in one.
LEMMA FinishRunRuns ==
  ASSUME Base, RunsInv, FinishRun
  PROVE  /\ RunsInv'
         /\ Ledger!Running(done[1].run)
         /\ done[1].script \in Scripts /\ done[1].run \in DOMAIN runs /\ done[1].state \in Ends
         /\ runs[done[1].run].script = done[1].script
         /\ runs' = Ended(runs, done[1].run, done[1].state)
<1> DEFINE ended == done[1]
<1>1. /\ pc = "drain" /\ done # <<>> /\ done' = Tail(done) /\ pc' = "failures"
      /\ live' = [live EXCEPT ![Head(done).script] = 0]
      /\ runs' = Ended(runs, Head(done).run, Head(done).state)
      /\ UNCHANGED <<stopping, job>>
  BY DEF FinishRun, Ended
<1>2. Head(done) = ended /\ 1 \in DOMAIN done
  BY <1>1, TailOf DEF Base, Types
<1>3. /\ ended.script \in Scripts /\ ended.run \in DOMAIN runs /\ live[ended.script] = ended.run
      /\ ended.state \in Ends
  BY <1>2, RunsFacts
<1>4. runs[ended.run].script = ended.script /\ runs[ended.run].state = "running" /\ ended.run # 0
  BY <1>3, RunsFacts
<1>5. ended.state \in Ends \cup {"running", "interrupted"} /\ ended.state # "running"
  BY <1>3 DEF Ends
<1>6. runs \in Seq(Rows) /\ live \in [Scripts -> {0} \cup DOMAIN runs]
  BY DEF Base, Types
<1>7. /\ DOMAIN runs' = DOMAIN runs
      /\ \A r \in DOMAIN runs : /\ runs'[r].script = runs[r].script
                                /\ runs'[r].state = IF r = ended.run THEN ended.state ELSE runs[r].state
  <2> HIDE DEF ended
  <2> QED
    BY <1>1, <1>2, <1>5, <1>6, EndRun
<1>8. LiveRuns' /\ Threads' /\ ThreadPerLiveRun'
  BY <1>1, <1>2, <1>7, FreedRuns
<1>9. RunningIsLive'
  <2> HIDE DEF ended
  <2>1. live'[ended.script] = 0 /\ (\A x \in Scripts : x # ended.script => live'[x] = live[x])
    BY <1>1, <1>2, <1>3, <1>6
  <2>2. ASSUME Daemon', ~stopping', NEW r \in DOMAIN runs'
        PROVE  (runs'[r].state = "running") <=> (live'[runs'[r].script] = r)
    <3>1. r \in DOMAIN runs /\ r # 0 /\ runs[r].script \in Scripts
      BY <1>7, <2>2, RunsFacts
    <3>2. (runs[r].state = "running") <=> (live[runs[r].script] = r)
      BY <1>1, <2>2, <3>1 DEF RunsInv, RunningIsLive, Daemon
    <3> QED
      BY <1>3, <1>4, <1>5, <1>7, <2>1, <3>1, <3>2
  <2> QED
    BY <2>2 DEF RunningIsLive
<1>10. Ledger!Running(ended.run)
  BY <1>3, <1>4 DEF Ledger!Running
<1> QED
  BY <1>1, <1>2, <1>3, <1>4, <1>8, <1>9, <1>10 DEF RunsInv

\* An end that is not recorded frees its script too; the daemon is stopping.
LEMMA FinishFailsRuns ==
  ASSUME Base, RunsInv, FinishFails
  PROVE  RunsInv'
<1>1. /\ done # <<>> /\ done' = Tail(done) /\ stopping' = TRUE
      /\ live' = [live EXCEPT ![Head(done).script] = 0] /\ UNCHANGED <<runs, job>>
  BY DEF FinishFails, database
<1>2. Head(done) = done[1]
  BY <1>1, TailOf DEF Base, Types
<1>3. LiveRuns' /\ Threads' /\ ThreadPerLiveRun'
  BY <1>1, <1>2, FreedRuns
<1>4. RunningIsLive'
  BY <1>1 DEF RunningIsLive
<1> QED
  BY <1>3, <1>4 DEF RunsInv

\* A thread's end goes into the channel once.
LEMMA JobEndsRuns ==
  ASSUME Base, RunsInv, NEW r \in RunIds, NEW state \in Ends, JobEnds(r, state)
  PROVE  RunsInv'
<1> DEFINE e == [script |-> runs[r].script, run |-> r, state |-> state]
           n == Len(done) + 1
<1>1. /\ job[r] # "none" /\ job' = [job EXCEPT ![r] = "none"] /\ done' = Append(done, e)
      /\ UNCHANGED <<runs, live, pc, stopping>>
  BY DEF JobEnds, database, memory
<1>2. /\ r \in DOMAIN runs /\ live[runs[r].script] = r
      /\ \A i \in DOMAIN done : done[i].run # r
  BY <1>1 DEF RunsInv, Threads
<1>3. runs[r].script \in Scripts /\ runs[r].script = e.script /\ e.run = r /\ r # 0
  BY <1>2, RunsFacts
<1>4. e \in Endings
  BY <1>3 DEF Endings
<1> HIDE DEF e
<1>5. /\ DOMAIN done' = 1 .. n /\ DOMAIN done = 1 .. Len(done) /\ done'[n] = e /\ Len(done) \in Nat
      /\ \A i \in DOMAIN done : done'[i] = done[i]
  BY <1>1, <1>4, AppendRun DEF Base, Types
<1>6. n \in DOMAIN done' /\ n \notin DOMAIN done /\ DOMAIN done' = DOMAIN done \cup {n}
  BY <1>5
<1> HIDE DEF n
<1>7. job'[r] = "none" /\ (\A q \in RunIds : q # r => job'[q] = job[q])
  BY <1>1 DEF Base, Types
<1>8. LiveRuns' /\ RunningIsLive'
  BY <1>1 DEF RunsInv, LiveRuns, RunningIsLive, Daemon
<1>9. Threads'
  <2>1. (\A i \in DOMAIN done : live[done[i].script] = done[i].run)'
    BY <1>1, <1>2, <1>3, <1>5, <1>6 DEF RunsInv, Threads
  <2>2. (\A i, j \in DOMAIN done : done[i].run = done[j].run => i = j)'
    <3>1. \A i, j \in DOMAIN done : done[i].run = done[j].run => i = j
      BY DEF RunsInv, Threads
    <3>2. done'[n].run = r /\ \A i \in DOMAIN done : done'[i].run = done[i].run /\ done[i].run # r
      BY <1>2, <1>3, <1>5
    <3>3. ASSUME NEW i \in DOMAIN done', NEW j \in DOMAIN done', done'[i].run = done'[j].run
          PROVE  i = j
      BY <1>6, <3>1, <3>2, <3>3
    <3> QED
      BY <3>3
  <2>3. ASSUME NEW q \in RunIds, job'[q] # "none"
        PROVE  (/\ q \in DOMAIN runs /\ live[runs[q].script] = q
                /\ \A i \in DOMAIN done : done[i].run # q)'
    <3>1. q # r /\ job[q] # "none"
      BY <1>7, <2>3
    <3>2. /\ q \in DOMAIN runs /\ live[runs[q].script] = q
          /\ \A i \in DOMAIN done : done[i].run # q
      BY <3>1 DEF RunsInv, Threads
    <3> QED
      BY <1>1, <1>3, <1>5, <1>6, <3>1, <3>2
  <2> QED
    BY <2>1, <2>2, <2>3 DEF Threads
<1>10. ThreadPerLiveRun'
  <2>1. ASSUME NEW x \in Scripts, live'[x] # 0
        PROVE  (job'[live'[x]] # "none") # (\E i \in DOMAIN done' : done'[i].run = live'[x])
    <3>1. live'[x] = live[x] /\ live[x] \in RunIds
      BY <1>1, <2>1, RunsFacts
    <3>2. CASE live[x] = r
      BY <1>3, <1>5, <1>6, <1>7, <3>1, <3>2
    <3>3. CASE live[x] # r
      <4>1. (job[live[x]] # "none") # (\E i \in DOMAIN done : done[i].run = live[x])
        BY <2>1, <3>1 DEF RunsInv, ThreadPerLiveRun
      <4>2. (\E i \in DOMAIN done' : done'[i].run = live[x]) <=> (\E i \in DOMAIN done : done[i].run = live[x])
        BY <1>3, <1>5, <1>6, <3>3
      <4>3. job'[live[x]] = job[live[x]]
        BY <1>7, <3>1, <3>3
      <4> QED
        BY <3>1, <4>1, <4>2, <4>3
    <3> QED
      BY <3>2, <3>3
  <2> QED
    BY <2>1 DEF ThreadPerLiveRun
<1> QED
  BY <1>8, <1>9, <1>10 DEF RunsInv

\* A run over its budget goes on until its thread ends.
LEMMA BudgetSpentRuns ==
  ASSUME Base, RunsInv, NEW r \in RunIds, BudgetSpent(r)
  PROVE  RunsInv'
<1>1. /\ job[r] = "running" /\ job' = [job EXCEPT ![r] = "budget"]
      /\ UNCHANGED <<runs, live, done, pc, stopping>>
  BY DEF BudgetSpent, memory
<1>2. \A q \in RunIds : (job'[q] # "none") <=> (job[q] # "none")
  BY <1>1 DEF Base, Types
<1>3. LiveRuns' /\ RunningIsLive'
  BY <1>1 DEF RunsInv, LiveRuns, RunningIsLive, Daemon
<1>4. Threads'
  BY <1>1, <1>2 DEF RunsInv, Threads
<1>5. ThreadPerLiveRun'
  <2>1. ASSUME NEW x \in Scripts, live'[x] # 0
        PROVE  (job'[live'[x]] # "none") # (\E i \in DOMAIN done' : done'[i].run = live'[x])
    <3>1. live[x] \in RunIds
      BY <1>1, <2>1, RunsFacts
    <3>2. (job[live[x]] # "none") # (\E i \in DOMAIN done : done[i].run = live[x])
      BY <1>1, <2>1 DEF RunsInv, ThreadPerLiveRun
    <3> QED
      BY <1>1, <1>2, <3>1, <3>2
  <2> QED
    BY <2>1 DEF ThreadPerLiveRun
<1> QED
  BY <1>3, <1>4, <1>5 DEF RunsInv

\* Each step keeps the runs, the scripts they hold back and the threads in line.
LEMMA RunsSteps ==
  ASSUME Base, RunsInv, [Next]_vars
  PROVE  RunsInv'
<1>1. CASE Serve
  BY <1>1, ServeRuns
<1>2. CASE Pass
  <2>1. CASE RecordRun
    BY <2>1, RecordRunRuns
  <2>2. CASE FinishRun
    BY <2>2, FinishRunRuns
  <2>3. CASE Exit
    BY <2>3, GoneRuns DEF Exit, database
  <2>4. CASE ~(RecordRun \/ FinishRun \/ Exit)
    BY <1>2, <2>4, PassIsQuiet, QuietRuns DEF Pass
  <2> QED
    BY <2>1, <2>2, <2>3, <2>4
<1>3. CASE Fault
  <2>1. CASE Crash
    BY <2>1, GoneRuns DEF Crash, database
  <2>2. CASE FinishFails
    BY <2>2, FinishFailsRuns
  <2>3. CASE StoreFails \/ StartFails
    BY <2>3, PassIsQuiet, QuietRuns
  <2> QED
    BY <1>3, <2>1, <2>2, <2>3 DEF Fault
<1>4. ASSUME NEW r \in RunIds, Thread(r) PROVE RunsInv'
  BY <1>4, BudgetSpentRuns, JobEndsRuns DEF Thread
<1>5. CASE Command \/ Host
  <2>1. UNCHANGED <<pc, runs, memory, threads>>
    BY <1>5, AroundStill
  <2> QED
    BY <2>1, QuietRuns DEF RunsQuiet, Daemon, memory, threads
<1>6. CASE UNCHANGED vars
  BY <1>6, QuietRuns DEF RunsQuiet, Daemon, vars, database, memory, threads
<1> QED
  BY <1>1, <1>2, <1>3, <1>4, <1>5, <1>6 DEF Next

\* No run goes on at first.
LEMMA RunsInit ==
  ASSUME Init
  PROVE  RunsInv
<1>1. /\ pc = "down" /\ live = [s \in Scripts |-> 0] /\ done = <<>> /\ job = [r \in RunIds |-> "none"]
  BY DEF Init
<1> QED
  BY <1>1 DEF RunsInv, LiveRuns, Threads, RunningIsLive, ThreadPerLiveRun, Daemon

-----------------------------------------------------------------------------
(* Approvals, and the ledger of RunLedger. *)

\* A step that approves nothing and records nothing keeps the approvals.
LEMMA ApprovalsKept ==
  ASSUME Approvals, UNCHANGED <<approved, allowed>>,
         pc' = "record" => pc = "record" /\ local' = local
  PROVE  Approvals'
BY DEF Approvals

\* Each step keeps the record of what was approved.
LEMMA ApprovalsSteps ==
  ASSUME Base, Approvals, [Next]_vars
  PROVE  Approvals'
<1>1. CASE Serve
  BY <1>1, ApprovalsKept DEF Serve, choices, history
<1>2. CASE Pass
  <2>1. CASE CheckApproval
    <3>1. UNCHANGED <<approved, allowed>> /\ pc = "start"
      BY <2>1 DEF CheckApproval, database, choices, history
    <3>2. CASE ApprovedNow /\ pc' = "record" /\ local' = local
      <4>1. local.script \in Scripts /\ local.hash \in Hashes /\ approved[local.script] = local.hash
        BY <3>1, <3>2 DEF Base, Working, ApprovedNow
      <4>2. local.hash # None
        BY <4>1, ConstantsAssumption
      <4>3. <<local.script, local.hash>> \in allowed
        BY <4>1, <4>2 DEF Approvals
      <4> QED
        BY <3>1, <3>2, <4>3 DEF Approvals
    <3>3. CASE EndStart
      BY <3>1, <3>3, ApprovalsKept DEF EndStart, Return
    <3> QED
      BY <2>1, <3>2, <3>3 DEF CheckApproval
  <2>2. ASSUME NEW s \in Scripts, ReadSwitch(s) PROVE Approvals'
    BY <2>2, ApprovalsKept DEF ReadSwitch, database, choices, history
  <2>3. CASE ActOnRequest
    <3>1. UNCHANGED <<approved, allowed>>
      BY <2>3 DEF ActOnRequest, database, choices, history
    <3>2. pc' # "record"
      BY <2>3 DEF ActOnRequest, BeginStart, BeginShutdown
    <3> QED
      BY <3>1, <3>2, ApprovalsKept
  <2>4. CASE SetCursor
    <3>1. UNCHANGED <<approved, allowed>>
      BY <2>4 DEF SetCursor, choices, history
    <3>2. pc' # "record"
      BY <2>4 DEF SetCursor, BeginStart
    <3> QED
      BY <3>1, <3>2, ApprovalsKept
  <2>5. CASE Tick \/ TakeRequests \/ ReadPausedAll \/ ReadApproval
    BY <2>5, ApprovalsKept DEF Tick, TakeRequests, ReadPausedAll, ReadApproval, database, choices, history
  <2>6. CASE ReadCursor \/ ScheduleDone \/ FinishRun \/ CountFailures
    BY <2>6, ApprovalsKept DEF ReadCursor, ScheduleDone, FinishRun, CountFailures, database, choices, history
  <2>7. CASE ReadSwitchToPause \/ PauseScript \/ Sleep
    BY <2>7, ApprovalsKept DEF ReadSwitchToPause, PauseScript, Sleep, database, choices, history
  <2>8. CASE Exit
    BY <2>8, ApprovalsKept DEF Exit, Forget, database, choices, history
  <2>9. CASE RecordRun
    BY <2>9, ApprovalsKept DEF RecordRun, EndStart, Return, choices, history
  <2> QED
    BY <1>2, <2>1, <2>2, <2>3, <2>4, <2>5, <2>6, <2>7, <2>8, <2>9 DEF Pass
<1>3. CASE Fault
  <2>1. CASE Crash
    BY <2>1, ApprovalsKept DEF Crash, Forget, database, choices
  <2>2. CASE StoreFails
    BY <2>2, ApprovalsKept DEF StoreFails, BeginShutdown, database, choices
  <2>3. CASE StartFails
    BY <2>3, ApprovalsKept DEF StartFails, EndStart, Return, database, choices, history
  <2>4. CASE FinishFails
    BY <2>4, ApprovalsKept DEF FinishFails, database, choices, history
  <2> QED
    BY <1>3, <2>1, <2>2, <2>3, <2>4 DEF Fault
<1>4. ASSUME NEW r \in RunIds, Thread(r) PROVE Approvals'
  <2>1. CASE BudgetSpent(r)
    BY <2>1, ApprovalsKept DEF BudgetSpent, memory, history
  <2>2. ASSUME NEW state \in Ends, JobEnds(r, state) PROVE Approvals'
    BY <2>2, ApprovalsKept DEF JobEnds, database, choices, memory, history
  <2> QED
    BY <1>4, <2>1, <2>2 DEF Thread
<1>5. CASE Command \/ Host
  <2>1. UNCHANGED <<pc, local>>
    BY <1>5, AroundStill DEF memory
  <2>2. CASE WriteApproval
    <3>1. /\ approved' = [approved EXCEPT ![cli.script] = cli.hash]
          /\ allowed' = allowed \cup {<<cli.script, cli.hash>>}
      BY <2>2 DEF WriteApproval
    <3>2. cli.script \in Scripts /\ cli.hash \in Hashes /\ approved \in [Scripts -> Hashes \cup {None}]
      BY <2>2 DEF WriteApproval, Base, Held, Types
    <3>3. \A s \in Scripts : approved'[s] = IF s = cli.script THEN cli.hash ELSE approved[s]
      BY <3>1, <3>2
    <3>4. \A s \in Scripts : approved'[s] # None => <<s, approved'[s]>> \in allowed'
      BY <3>1, <3>3 DEF Approvals
    <3>5. allowed' \subseteq Scripts \X Hashes
      BY <3>1, <3>2 DEF Approvals
    <3> QED
      BY <2>1, <3>1, <3>4, <3>5 DEF Approvals
  <2>3. CASE ~WriteApproval
    <3>1. UNCHANGED <<approved, allowed>>
      <4>1. ASSUME NEW s \in Scripts, BeginApprove(s) PROVE UNCHANGED <<approved, allowed>>
        BY <4>1 DEF BeginApprove, database, choices, history
      <4>2. ASSUME NEW kind \in CommandKinds, NEW s \in Scripts, BeginSwitch(kind, s) \/ BeginRequest(kind, s)
            PROVE  UNCHANGED <<approved, allowed>>
        BY <4>2 DEF BeginSwitch, BeginRequest, database, choices, history
      <4>3. ASSUME NEW kind \in CommandKinds, SwitchAll(kind) PROVE UNCHANGED <<approved, allowed>>
        BY <4>3 DEF SwitchAll, history
      <4>4. ASSUME PutRow \/ WriteSwitch \/ ClearCursor \/ PushRequest
            PROVE  UNCHANGED <<approved, allowed>>
        BY <4>4 DEF PutRow, WriteSwitch, ClearCursor, PushRequest, choices, history
      <4>5. ASSUME Host PROVE UNCHANGED <<approved, allowed>>
        BY <4>5 DEF Host, Advance, SetBack, Edit, database, choices, history
      <4> QED
        BY <1>5, <2>3, <4>1, <4>2, <4>3, <4>4, <4>5 DEF Command
    <3> QED
      BY <2>1, <3>1, ApprovalsKept
  <2> QED
    BY <2>2, <2>3
<1>6. CASE UNCHANGED vars
  BY <1>6, ApprovalsKept DEF vars, database, choices, memory, history
<1> QED
  BY <1>1, <1>2, <1>3, <1>4, <1>5, <1>6 DEF Next

\* A step that is none of the ledger's leaves it alone.
LEMMA LedgerStill ==
  ASSUME Base, [Next]_vars, ~Serve, ~RecordRun, ~FinishRun, ~WriteApproval
  PROVE  UNCHANGED <<runs, allowed>>
<1> DEFINE Still == UNCHANGED <<runs, allowed>>
<1>1. CASE Pass
  <2>1. ASSUME NEW s \in Scripts, ReadSwitch(s) PROVE Still
    BY <2>1 DEF ReadSwitch, database, history
  <2>2. CASE Tick \/ TakeRequests \/ ActOnRequest \/ ReadPausedAll \/ ReadApproval \/ ReadCursor
    BY <2>2 DEF Tick, TakeRequests, ActOnRequest, ReadPausedAll, ReadApproval, ReadCursor, database, history
  <2>3. CASE SetCursor \/ CheckApproval \/ ScheduleDone \/ CountFailures \/ ReadSwitchToPause
    BY <2>3 DEF SetCursor, CheckApproval, ScheduleDone, CountFailures, ReadSwitchToPause, database, history
  <2>4. CASE PauseScript \/ Sleep \/ Exit
    BY <2>4 DEF PauseScript, Sleep, Exit, database, history
  <2> QED
    BY <1>1, <2>1, <2>2, <2>3, <2>4 DEF Pass
<1>2. CASE Fault
  BY <1>2 DEF Fault, Crash, StoreFails, StartFails, FinishFails, database, history
<1>3. ASSUME NEW r \in RunIds, Thread(r) PROVE Still
  <2>1. CASE BudgetSpent(r)
    BY <2>1 DEF BudgetSpent, history
  <2>2. ASSUME NEW state \in Ends, JobEnds(r, state) PROVE Still
    BY <2>2 DEF JobEnds, database, history
  <2> QED
    BY <1>3, <2>1, <2>2 DEF Thread
<1>4. CASE Command \/ Host
  <2>1. UNCHANGED runs
    BY <1>4, AroundStill
  <2>2. UNCHANGED allowed
    <3>1. ASSUME NEW s \in Scripts, BeginApprove(s) PROVE UNCHANGED allowed
      BY <3>1 DEF BeginApprove, history
    <3>2. ASSUME NEW kind \in CommandKinds, NEW s \in Scripts, BeginSwitch(kind, s) \/ BeginRequest(kind, s)
          PROVE  UNCHANGED allowed
      BY <3>2 DEF BeginSwitch, BeginRequest, history
    <3>3. ASSUME NEW kind \in CommandKinds, SwitchAll(kind) PROVE UNCHANGED allowed
      BY <3>3 DEF SwitchAll, history
    <3>4. ASSUME PutRow \/ WriteSwitch \/ ClearCursor \/ PushRequest \/ Host PROVE UNCHANGED allowed
      BY <3>4 DEF PutRow, WriteSwitch, ClearCursor, PushRequest, Host, Advance, SetBack, Edit, history
    <3> QED
      BY <1>4, <3>1, <3>2, <3>3, <3>4 DEF Command
  <2> QED
    BY <2>1, <2>2
<1>5. CASE UNCHANGED vars
  BY <1>5 DEF vars, database, history
<1> QED
  BY <1>1, <1>2, <1>3, <1>4, <1>5 DEF Next

\* Each step is a step of the ledger, or leaves it alone.
LEMMA LedgerSteps ==
  ASSUME Serving, [Next]_vars
  PROVE  [Ledger!Next]_(Ledger!vars)
<1> USE DEF Serving
<1>1. CASE Serve
  <2>1. runs' = Interrupted /\ allowed' = allowed
    BY <1>1 DEF Serve, history
  <2>2. Ledger!Interrupt
    BY <2>1 DEF Ledger!Interrupt, Ledger!Running, Interrupted
  <2> QED
    BY <2>2 DEF Ledger!Next
<1>2. CASE RecordRun
  <2>1. pc = "record" /\ allowed' = allowed
    BY <1>2 DEF RecordRun, history
  <2>2. /\ local.script \in Scripts /\ local.hash \in Hashes /\ live[local.script] = 0 /\ ~stopping
        /\ local.at \in Occurrences \cup {None}
    BY <2>1 DEF Base, Working, Types, Locals
  <2>3. <<local.script, local.hash>> \in allowed
    BY <2>1 DEF Approvals
  <2>4. \A r \in DOMAIN runs : runs[r].script = local.script => ~Ledger!Running(r)
    <3>1. \A r \in DOMAIN runs : (runs[r].state = "running") <=> (live[runs[r].script] = r)
      BY <2>1, <2>2 DEF RunsInv, RunningIsLive, Daemon
    <3> QED
      BY <2>2, <3>1, RunsFacts DEF Ledger!Running
  <2>5. CASE UNCHANGED runs
    BY <2>1, <2>5 DEF Ledger!vars
  <2>6. CASE /\ Unique(local.script, local.at)
             /\ runs' = Append(runs, [script |-> local.script, hash |-> local.hash,
                                      scheduled |-> local.at, state |-> "running"])
    <3>1. Ledger!Record(local.script, local.hash, local.at)
      BY <2>1, <2>3, <2>4, <2>6 DEF Ledger!Record, Unique
    <3> QED
      BY <2>2, <3>1 DEF Ledger!Next
  <2> QED
    BY <1>2, <2>5, <2>6 DEF RecordRun
<1>3. CASE FinishRun
  <2>1. /\ Ledger!Running(done[1].run) /\ done[1].run \in DOMAIN runs /\ done[1].state \in Ends
        /\ runs' = Ended(runs, done[1].run, done[1].state) /\ allowed' = allowed
    BY <1>3, FinishRunRuns DEF FinishRun, history
  <2>2. Ledger!End(done[1].run, done[1].state)
    BY <2>1 DEF Ledger!End, Ended
  <2> QED
    BY <2>1, <2>2 DEF Ledger!Next
<1>4. CASE WriteApproval
  <2>1. cli.script \in Scripts /\ cli.hash \in Hashes
    BY <1>4 DEF WriteApproval, Base, Held
  <2>2. Ledger!Allow(cli.script, cli.hash)
    BY <1>4 DEF WriteApproval, Ledger!Allow
  <2> QED
    BY <2>1, <2>2 DEF Ledger!Next
<1>5. CASE ~(Serve \/ RecordRun \/ FinishRun \/ WriteApproval)
  BY <1>5, LedgerStill DEF Ledger!vars
<1> QED
  BY <1>1, <1>2, <1>3, <1>4, <1>5

-----------------------------------------------------------------------------
(* The pause after failures in a row. *)

\* The failures counted: the ended runs newer than the newest that did not fail.
Row(s) == {r \in Finished(s) : \A q \in Finished(s) : q >= r => Failed(q)}

\* A step that touches neither runs nor switches, and forgets no finish.
LEMMA PausedKept ==
  ASSUME PausedAfterFailures, UNCHANGED <<runs, switch>>,
         \A s \in Scripts : s \in excused \cup Finishing => s \in excused' \cup Finishing'
  PROVE  PausedAfterFailures'
<1>1. \A s \in Scripts : FailuresInARow(s)' = FailuresInARow(s)
  BY DEF FailuresInARow, Finished, Failed
<1> QED
  BY <1>1 DEF PausedAfterFailures

\* Fewer runs in a row are no more failures.
LEMMA FewerFailures ==
  ASSUME Types, NEW s, Row(s)' \subseteq Row(s)
  PROVE  FailuresInARow(s)' >= FailuresToPause => FailuresInARow(s) >= FailuresToPause
<1>1. runs \in Seq(Rows)
  BY DEF Types
<1>2. IsFiniteSet(DOMAIN runs)
  <2>1. DOMAIN runs = 1 .. Len(runs) /\ Len(runs) \in Nat
    BY <1>1
  <2> QED
    BY <2>1, FS_Interval
<1>3. IsFiniteSet(Row(s))
  <2>1. Row(s) \subseteq DOMAIN runs
    BY DEF Row, Finished
  <2> QED
    BY <1>2, <2>1, FS_Subset
<1>4. /\ IsFiniteSet(Row(s)') /\ Cardinality(Row(s)') <= Cardinality(Row(s))
  BY <1>3, FS_Subset
<1>5. Cardinality(Row(s)) \in Nat /\ Cardinality(Row(s)') \in Nat
  BY <1>3, <1>4, FS_CardinalityType
<1>6. FailuresInARow(s) = Cardinality(Row(s)) /\ FailuresInARow(s)' = Cardinality(Row(s)')
  BY DEF FailuresInARow, Row
<1> QED
  BY <1>4, <1>5, <1>6, ConstantsAssumption

\* A run that was cut short by a crash is not a failure.
LEMMA ServePaused ==
  ASSUME Base, PausedAfterFailures, Serve
  PROVE  PausedAfterFailures'
<1>1. /\ pc = "down" /\ pc' = "tick" /\ runs' = Interrupted /\ UNCHANGED <<switch, excused>>
  BY DEF Serve, choices, history
<1>2. /\ DOMAIN runs' = DOMAIN runs
      /\ \A r \in DOMAIN runs :
           /\ runs'[r].script = runs[r].script
           /\ runs'[r].state = IF runs[r].state = "running" THEN "interrupted" ELSE runs[r].state
  BY <1>1, InterruptedType DEF Base
<1>3. ASSUME NEW s \in Scripts PROVE FailuresInARow(s)' >= FailuresToPause => FailuresInARow(s) >= FailuresToPause
  <2>1. \A r \in DOMAIN runs : Failed(r)' <=> Failed(r)
    BY <1>2 DEF Failed
  <2>2. \A r \in Finished(s) : r \in Finished(s)'
    BY <1>2 DEF Finished
  <2>3. \A r \in Finished(s)' : r \in DOMAIN runs /\ (Failed(r) => r \in Finished(s))
    BY <1>2 DEF Finished, Failed
  <2>4. ASSUME NEW r \in Row(s)' PROVE r \in Row(s)
    <3>1. r \in Finished(s)' /\ \A q \in Finished(s)' : q >= r => Failed(q)'
      BY DEF Row
    <3>2. r \in DOMAIN runs /\ r >= r
      BY <2>3, <3>1 DEF Base, Types
    <3>3. r \in Finished(s)
      BY <2>1, <2>3, <3>1, <3>2
    <3>4. \A q \in Finished(s) : q >= r => Failed(q)
      BY <2>1, <2>2, <2>3, <3>1
    <3> QED
      BY <3>3, <3>4 DEF Row
  <2> QED
    BY <2>4, FewerFailures DEF Base
<1> QED
  BY <1>1, <1>3 DEF PausedAfterFailures, Finishing

\* A run that starts is not counted yet.
LEMMA RecordPaused ==
  ASSUME Base, PausedAfterFailures, RecordRun
  PROVE  PausedAfterFailures'
<1> DEFINE new == [script |-> local.script, hash |-> local.hash, scheduled |-> local.at,
                   state |-> "running"]
<1>1. /\ pc = "record" /\ EndStart /\ UNCHANGED <<switch, excused>>
  BY DEF RecordRun, choices, history
<1>2. Finishing = {} /\ Finishing' = {}
  BY <1>1 DEF Finishing, EndStart, Return
<1>3. CASE UNCHANGED runs
  BY <1>1, <1>2, <1>3, PausedKept
<1>4. CASE runs' = Append(runs, new)
  <2>1. runs \in Seq(Rows) /\ new \in Rows /\ new.state = "running"
    BY <1>1 DEF Base, Types, Working, Rows, Locals
  <2> HIDE DEF new
  <2>2. /\ DOMAIN runs' = 1 .. Len(runs) + 1 /\ runs'[Len(runs) + 1] = new
        /\ DOMAIN runs = 1 .. Len(runs) /\ Len(runs) \in Nat
        /\ \A q \in DOMAIN runs : runs'[q] = runs[q]
    BY <1>4, <2>1, AppendRun
  <2>3. \A q \in DOMAIN runs' : q \in DOMAIN runs \/ runs'[q].state = "running"
    BY <2>1, <2>2
  <2>4. DOMAIN runs \subseteq DOMAIN runs'
    BY <2>2
  <2>5. \A s \in Scripts : Finished(s)' = Finished(s) /\ \A q \in Finished(s) : Failed(q)' <=> Failed(q)
    BY <2>2, <2>3, <2>4 DEF Finished, Failed
  <2>6. \A s \in Scripts : FailuresInARow(s)' = FailuresInARow(s)
    <3>1. \A s \in Scripts : Row(s)' = Row(s)
      BY <2>5 DEF Row
    <3> QED
      BY <3>1 DEF FailuresInARow, Row
  <2> QED
    BY <1>1, <1>2, <2>6 DEF PausedAfterFailures
<1> QED
  BY <1>3, <1>4 DEF RecordRun

\* The end of a run is a failure of its own script, which the finish goes on to count.
LEMMA FinishPaused ==
  ASSUME Base, RunsInv, PausedAfterFailures, FinishRun
  PROVE  PausedAfterFailures'
<1> DEFINE e == done[1]
<1>1. /\ pc = "drain" /\ pc' = "failures" /\ UNCHANGED <<switch, excused>>
      /\ local' = [NoLocal EXCEPT !.script = e.script]
  <2>1. Head(done) = e
    BY TailOf DEF FinishRun, Base, Types
  <2> QED
    BY <2>1 DEF FinishRun, choices, history
<1>2. /\ e.script \in Scripts /\ runs[e.run].script = e.script /\ e.run \in DOMAIN runs
      /\ runs' = Ended(runs, e.run, e.state) /\ e.state \in Ends \cup {"running", "interrupted"}
  BY FinishRunRuns
<1> HIDE DEF e
<1>3. Finishing = {} /\ Finishing' = {e.script}
  BY <1>1, <1>2, NoneTypes DEF Finishing
<1>4. /\ DOMAIN runs' = DOMAIN runs
      /\ \A r \in DOMAIN runs : /\ runs'[r].script = runs[r].script
                                /\ runs'[r].state = IF r = e.run THEN e.state ELSE runs[r].state
  BY <1>2, EndRun DEF Base, Types
<1>5. ASSUME NEW s \in Scripts, s # e.script
      PROVE  FailuresInARow(s)' = FailuresInARow(s)
  <2>1. \A r \in DOMAIN runs : runs[r].script = s => runs'[r].state = runs[r].state
    BY <1>2, <1>4, <1>5
  <2>2. Finished(s)' = Finished(s) /\ \A q \in Finished(s) : Failed(q)' <=> Failed(q)
    BY <1>4, <2>1 DEF Finished, Failed
  <2>3. Row(s)' = Row(s)
    BY <2>2 DEF Row
  <2> QED
    BY <2>3 DEF FailuresInARow, Row
<1> QED
  BY <1>1, <1>3, <1>5 DEF PausedAfterFailures

\* The finish leaves the script counted out, paused already, or paused by it.
LEMMA FailuresPaused ==
  ASSUME Base, PausedAfterFailures, CountFailures \/ ReadSwitchToPause \/ PauseScript
  PROVE  PausedAfterFailures'
<1> DEFINE x == local.script
<1>1. x \in Scripts /\ UNCHANGED runs /\ Finishing = {x} /\ switch \in [Scripts -> SwitchRows]
  BY DEF CountFailures, ReadSwitchToPause, PauseScript, database, Finishing, Base, Working, Types
<1>2. \A s \in Scripts : FailuresInARow(s)' = FailuresInARow(s)
  BY <1>1 DEF FailuresInARow, Finished, Failed
<1>3. CASE CountFailures
  <2>1. switch' = switch
    BY <1>3 DEF CountFailures, database, choices
  <2>2. CASE pc' = "switch" /\ UNCHANGED <<local, excused>>
    <3>1. Finishing' = {x}
      BY <2>2 DEF Finishing
    <3> QED
      BY <1>1, <2>1, <2>2, <3>1, PausedKept
  <2>3. CASE ~EnoughFailures(x) /\ pc' = "drain" /\ excused' = excused \ {x}
    BY <1>1, <1>2, <2>1, <2>3 DEF PausedAfterFailures, EnoughFailures
  <2> QED
    BY <1>3, <2>2, <2>3 DEF CountFailures
<1>4. CASE ReadSwitchToPause
  <2>1. switch' = switch /\ pc = "switch"
    BY <1>4 DEF ReadSwitchToPause, database, choices
  <2>2. CASE switch[x].paused /\ excused' = excused \ {x}
    BY <1>1, <1>2, <2>1, <2>2 DEF PausedAfterFailures
  <2>3. CASE pc' = "pause" /\ local' = [local EXCEPT !.switch = switch[local.script]] /\ UNCHANGED excused
    <3>1. local'.script = x
      BY <2>3 DEF Base, Types, Locals
    <3>2. Finishing' = {x}
      BY <2>3, <3>1 DEF Finishing
    <3> QED
      BY <1>1, <2>1, <2>3, <3>2, PausedKept
  <2> QED
    BY <1>4, <2>2, <2>3 DEF ReadSwitchToPause
<1>5. CASE PauseScript
  <2>1. /\ switch' = [switch EXCEPT ![x] = [local.switch EXCEPT !.paused = TRUE]]
        /\ excused' = excused \ {x}
    BY <1>5 DEF PauseScript
  <2>2. local.switch \in SwitchRows
    BY DEF Base, Types, Locals
  <2>3. [local.switch EXCEPT !.paused = TRUE].paused = TRUE
    BY <2>2 DEF SwitchRows
  <2>4. switch'[x].paused = TRUE /\ (\A s \in Scripts : s # x => switch'[s] = switch[s])
    BY <1>1, <2>1, <2>3
  <2> QED
    BY <1>1, <1>2, <2>1, <2>4 DEF PausedAfterFailures
<1> QED
  BY <1>3, <1>4, <1>5

\* A switch the user or a budget writes.
LEMMA SwitchPaused ==
  ASSUME Base, PausedAfterFailures, NEW x \in Scripts, NEW w,
         UNCHANGED <<runs, pc, local>>, switch' = [switch EXCEPT ![x] = w],
         (excused' = excused /\ w.paused = TRUE) \/ excused' = excused \cup {x}
  PROVE  PausedAfterFailures'
<1>1. \A s \in Scripts : FailuresInARow(s)' = FailuresInARow(s)
  BY DEF FailuresInARow, Finished, Failed
<1>2. switch'[x] = w /\ (\A s \in Scripts : s # x => switch'[s] = switch[s])
  BY DEF Base, Types
<1>3. Finishing' = Finishing
  BY DEF Finishing
<1> QED
  BY <1>1, <1>2, <1>3 DEF PausedAfterFailures

\* Each step keeps the pause.
LEMMA PausedSteps ==
  ASSUME Base, RunsInv, PausedAfterFailures, [Next]_vars
  PROVE  PausedAfterFailures'
<1>1. CASE Serve
  BY <1>1, ServePaused
<1>2. CASE Pass
  <2>1. ASSUME NEW s \in Scripts, ReadSwitch(s) PROVE PausedAfterFailures'
    <3>1. pc = "schedule" /\ UNCHANGED <<runs, switch, excused>>
      BY <2>1 DEF ReadSwitch, database, choices, history
    <3> QED
      BY <3>1, PausedKept DEF Finishing
  <2>2. CASE \/ Tick \/ TakeRequests \/ ActOnRequest \/ ReadPausedAll \/ ReadApproval \/ ReadCursor
             \/ SetCursor \/ CheckApproval \/ ScheduleDone \/ Sleep \/ Exit
    <3>1. pc \notin {"failures", "switch", "pause"}
      BY <2>2 DEF Tick, TakeRequests, ActOnRequest, ReadPausedAll, ReadApproval, ReadCursor, SetCursor,
                  CheckApproval, ScheduleDone, Sleep, Exit
    <3>2. UNCHANGED <<runs, switch, excused>>
      BY <2>2 DEF Tick, TakeRequests, ActOnRequest, ReadPausedAll, ReadApproval, ReadCursor, SetCursor,
                  CheckApproval, ScheduleDone, Sleep, Exit, database, choices, history
    <3> QED
      BY <3>1, <3>2, PausedKept DEF Finishing
  <2> QED
    BY <1>2, <2>1, <2>2, RecordPaused, FinishPaused, FailuresPaused DEF Pass
<1>3. CASE Fault
  <2>1. CASE Crash \/ StoreFails
    <3>1. UNCHANGED <<runs, switch>> /\ excused' = excused \cup Finishing
      BY <2>1 DEF Crash, StoreFails, database, choices
    <3> QED
      BY <3>1, PausedKept
  <2>2. CASE StartFails \/ FinishFails
    <3>1. pc \notin {"failures", "switch", "pause"} /\ UNCHANGED <<runs, switch, excused>>
      BY <2>2 DEF StartFails, FinishFails, database, choices, history
    <3> QED
      BY <3>1, PausedKept DEF Finishing
  <2> QED
    BY <1>3, <2>1, <2>2 DEF Fault
<1>4. ASSUME NEW r \in RunIds, Thread(r) PROVE PausedAfterFailures'
  <2>1. CASE BudgetSpent(r)
    <3>1. /\ job[r] = "running" /\ UNCHANGED <<runs, pc, local, excused>>
          /\ switch' = [switch EXCEPT ![runs[r].script] = [paused |-> TRUE, disabled |-> FALSE]]
      BY <2>1 DEF BudgetSpent, memory, history
    <3>2. runs[r].script \in Scripts
      BY <3>1, RunsFacts DEF RunsInv, Threads
    <3> QED
      BY <3>1, <3>2, SwitchPaused
  <2>2. ASSUME NEW state \in Ends, JobEnds(r, state) PROVE PausedAfterFailures'
    BY <2>2, PausedKept DEF JobEnds, database, choices, memory, history, Finishing
  <2> QED
    BY <1>4, <2>1, <2>2 DEF Thread
<1>5. CASE Command \/ Host
  <2>1. UNCHANGED <<runs, pc, local>>
    BY <1>5, AroundStill DEF memory
  <2>2. CASE WriteSwitch
    <3>1. /\ switch' = [switch EXCEPT ![cli.script] = Switched(cli.switch, cli.kind)]
          /\ excused' = excused \cup {cli.script} /\ cli.script \in Scripts
      BY <2>2 DEF WriteSwitch, Base, Held
    <3> QED
      BY <2>1, <3>1, SwitchPaused
  <2>3. CASE ~WriteSwitch
    <3>1. UNCHANGED <<switch, excused>>
      <4>1. ASSUME NEW s \in Scripts, BeginApprove(s) PROVE UNCHANGED <<switch, excused>>
        BY <4>1 DEF BeginApprove, database, choices, history
      <4>2. ASSUME NEW kind \in CommandKinds, NEW s \in Scripts, BeginSwitch(kind, s) \/ BeginRequest(kind, s)
            PROVE  UNCHANGED <<switch, excused>>
        BY <4>2 DEF BeginSwitch, BeginRequest, database, choices, history
      <4>3. ASSUME NEW kind \in CommandKinds, SwitchAll(kind) PROVE UNCHANGED <<switch, excused>>
        BY <4>3 DEF SwitchAll, history
      <4>4. ASSUME WriteApproval \/ PutRow \/ ClearCursor \/ PushRequest PROVE UNCHANGED <<switch, excused>>
        BY <4>4 DEF WriteApproval, PutRow, ClearCursor, PushRequest, choices, history
      <4>5. ASSUME Host PROVE UNCHANGED <<switch, excused>>
        BY <4>5 DEF Host, Advance, SetBack, Edit, database, choices, history
      <4> QED
        BY <1>5, <2>3, <4>1, <4>2, <4>3, <4>4, <4>5 DEF Command
    <3> QED
      BY <2>1, <3>1, PausedKept DEF Finishing
  <2> QED
    BY <2>2, <2>3
<1>6. CASE UNCHANGED vars
  BY <1>6, PausedKept DEF vars, database, choices, memory, history, Finishing
<1> QED
  BY <1>1, <1>2, <1>3, <1>4, <1>5, <1>6 DEF Next

\* No run has failed at first.
LEMMA PausedInit ==
  ASSUME Init
  PROVE  PausedAfterFailures
<1>1. \A s \in Scripts : FailuresInARow(s) = 0
  <2>1. DOMAIN runs = {}
    BY DEF Init
  <2>2. \A s \in Scripts : Row(s) = {}
    BY <2>1 DEF Row, Finished
  <2> QED
    BY <2>2, FS_EmptySet DEF FailuresInARow, Row
<1> QED
  BY <1>1, ConstantsAssumption DEF PausedAfterFailures

-----------------------------------------------------------------------------
(* The time a script was off. *)

\* What is missed is an occurrence, which a manual run is not.
LEMMA MissedTypes ==
  ASSUME Over
  PROVE  /\ \A m \in missed : m[1] \in Scripts /\ m[2] \in Nat /\ m[2] # None
         /\ \A s, at : <<s, at, "script">> \in missed => s \in Scripts /\ at \in Nat
         /\ \A s : <<s, None, "script">> \notin missed
<1>1. \A m \in missed : m[1] \in Scripts /\ m[2] \in Occurrences
  BY DEF Over
<1>2. \A s, at : <<s, at, "script">> \in missed => s \in Scripts /\ at \in Occurrences
  BY DEF Over
<1> QED
  BY <1>1, <1>2, ConstantsAssumption

\* A step that moves no cursor, no switch and no clock, and ends no resume.
LEMMA OverKept ==
  ASSUME Over, UNCHANGED <<missed, switch, cursor, clock>>,
         \A s \in Scripts : Resuming(s) => Resuming(s)',
         pc' \in Checking => \/ pc \in Checking /\ now' = now
                             \/ now' = clock,
         pc' \in {"approval", "cursor"} /\ local'.on =>
           pc \in {"approval", "cursor"} /\ local.on /\ local'.script = local.script,
         pc' \in {"set", "start", "record"} =>
           raced' \/ <<local'.script, local'.at, "script">> \notin missed
  PROVE  Over'
<1>1. \A m \in missed : m[1] \in Scripts
  BY MissedTypes
<1>2. \A m \in missed : CursorPast(m[1], m[2]) => CursorPast(m[1], m[2])'
  BY <1>1 DEF CursorPast
<1>3. \A m \in missed : Off(m[1])' <=> Off(m[1])
  BY DEF Off
<1>4. missed' \subseteq Scripts \X Occurrences \X {"script", "all"}
  BY DEF Over
<1>5. (\A m \in missed : m[2] <= clock /\ (pc \in Checking => m[2] <= now))'
  BY DEF Over
<1>6. (\A m \in missed : m[3] = "script" => Off(m[1]) \/ CursorPast(m[1], m[2]))'
  BY <1>2, <1>3 DEF Over
<1>7. (\A m \in missed : m[3] = "script" /\ pc \in {"approval", "cursor"} /\ local.on /\ local.script = m[1] =>
         CursorPast(m[1], m[2]))'
  BY <1>2 DEF Over
<1> QED
  BY <1>4, <1>5, <1>6, <1>7 DEF Over

\* A pass reads the clock before it checks anything.
LEMMA TickOver ==
  ASSUME Base, Over, Tick
  PROVE  Over'
<1>1. /\ pc' = "requests" /\ now' = clock /\ UNCHANGED <<missed, switch, cursor, clock, cli>>
  BY DEF Tick, files, choices, history
<1> QED
  BY <1>1, OverKept DEF Resuming

\* Requests start manual runs, which stand for no occurrence.
LEMMA ActOver ==
  ASSUME Base, Over, ActOnRequest
  PROVE  Over'
<1>1. /\ pc = "act" /\ UNCHANGED <<missed, switch, cursor, clock, cli, now>>
  BY DEF ActOnRequest, files, database, choices, history
<1>2. pc' \in {"start", "act", "drain"}
  BY <1>1 DEF ActOnRequest, BeginStart, BeginShutdown
<1>3. pc' = "start" => local'.at = None
  <2> DEFINE request == Head(taken)
  <2>1. CASE BeginStart(request.script, None, "act")
    <3> HIDE DEF request
    <3>1. local \in Locals
      BY DEF Base, Types
    <3> QED
      BY <2>1, <3>1 DEF BeginStart, Locals
  <2>2. CASE pc' = pc \/ BeginShutdown
    BY <1>1, <2>2 DEF BeginShutdown
  <2> QED
    BY <2>1, <2>2 DEF ActOnRequest
<1> QED
  BY <1>1, <1>2, <1>3, MissedTypes, OverKept DEF Resuming, Checking

\* A script that is found on is past what it missed.
LEMMA ReadSwitchOver ==
  ASSUME Base, Over, NEW s \in Scripts, ReadSwitch(s)
  PROVE  Over'
<1> DEFINE on == ~switch[s].paused /\ ~switch[s].disabled /\ ~local.all
<1>1. /\ pc = "schedule" /\ pc' = "approval" /\ local' = [local EXCEPT !.script = s, !.on = on]
      /\ UNCHANGED <<missed, switch, cursor, clock, cli, now>>
  BY DEF ReadSwitch, files, database, choices, history
<1>2. local'.script = s /\ local'.on = on
  BY <1>1 DEF Base, Types, Locals
<1>3. on => ~Off(s)
  BY DEF Off
<1> HIDE DEF on
<1>4. \A m \in missed : m[3] = "script" /\ local'.on /\ local'.script = m[1] => CursorPast(m[1], m[2])
  BY <1>2, <1>3 DEF Over
<1>5. \A m \in missed : /\ CursorPast(m[1], m[2])' <=> CursorPast(m[1], m[2])
                        /\ Off(m[1])' <=> Off(m[1])
  BY <1>1 DEF CursorPast, Resuming, Off
<1>6. missed' \subseteq Scripts \X Occurrences \X {"script", "all"}
  BY <1>1 DEF Over
<1>7. (\A m \in missed : m[2] <= clock /\ (pc \in Checking => m[2] <= now))'
  BY <1>1 DEF Over, Checking
<1>8. (\A m \in missed : m[3] = "script" => Off(m[1]) \/ CursorPast(m[1], m[2]))'
  BY <1>1, <1>5 DEF Over
<1>9. (\A m \in missed : m[3] = "script" /\ pc \in {"approval", "cursor"} /\ local.on /\ local.script = m[1] =>
         CursorPast(m[1], m[2]))'
  BY <1>1, <1>4, <1>5
<1> QED
  BY <1>1, <1>6, <1>7, <1>8, <1>9 DEF Over

\* The cursor shows a firing after itself, so none that is past it, unless a
\* resume is about to clear it.
LEMMA ReadCursorOver ==
  ASSUME Base, Over, ReadCursor
  PROVE  Over'
<1> DEFINE s == local.script
           at == Firing(local.script)
<1>1. /\ pc = "cursor" /\ pc' = "set" /\ local' = [local EXCEPT !.at = at]
      /\ UNCHANGED <<missed, switch, cursor, clock, cli, now>>
  BY DEF ReadCursor, files, database, choices, history
<1>2. raced' <=> Resuming(s)
  BY DEF ReadCursor, Resuming
<1>3. s \in Scripts /\ local \in Locals
  BY <1>1 DEF Base, Working, Types
<1>4. at # None => local.on /\ cursor[s] \in Nat /\ at \in Nat /\ cursor[s] < at
  BY <1>3, FiringType
<1> HIDE DEF at
<1>5. local'.script = s /\ local'.at = at
  BY <1>1, <1>3 DEF Locals
<1> HIDE DEF s
<1>6. ASSUME <<s, at, "script">> \in missed PROVE raced'
  <2>1. at # None
    BY <1>6, MissedTypes
  <2>2. CursorPast(s, at)
    <3>1. \A m \in missed : m[3] = "script" /\ pc \in {"approval", "cursor"} /\ local.on /\ local.script = m[1] =>
            CursorPast(m[1], m[2])
      BY DEF Over
    <3>2. LET m == <<s, at, "script">> IN m[3] = "script" /\ m[1] = local.script
      BY DEF s
    <3> QED
      BY <1>1, <1>4, <1>6, <2>1, <3>1, <3>2
  <2>3. cursor[s] # None /\ ~(cursor[s] >= at)
    BY <1>4, <2>1, ConstantsAssumption
  <2> QED
    BY <1>2, <2>2, <2>3 DEF CursorPast
<1>7. raced' \/ <<local'.script, local'.at, "script">> \notin missed
  BY <1>5, <1>6
<1> QED
  BY <1>1, <1>7, OverKept DEF Resuming, Checking

\* The cursor moves past everything that fell due before this pass.
LEMMA SetCursorOver ==
  ASSUME Base, Over, SetCursor
  PROVE  Over'
<1> DEFINE s == local.script
<1>1. /\ pc = "set" /\ cursor' = [cursor EXCEPT ![s] = now]
      /\ UNCHANGED <<missed, switch, clock, cli, now, raced>>
  BY DEF SetCursor, files, choices, history
<1>2. s \in Scripts /\ local \in Locals /\ cursor \in [Scripts -> Nat \cup {None}] /\ now \in Nat
  BY <1>1 DEF Base, Working, Types
<1>3. cursor'[s] = now /\ \A x \in Scripts : x # s => cursor'[x] = cursor[x]
  BY <1>1, <1>2
<1>4. \A m \in missed : m[1] \in Scripts /\ m[2] \in Nat /\ m[2] <= now /\ m[2] <= clock
  BY <1>1, MissedTypes DEF Over, Checking
<1>5. pc' \in {"schedule", "start"} /\ (pc' = "start" => local'.script = s /\ local'.at = local.at)
  <2>1. CASE pc' = "schedule"
    BY <2>1
  <2>2. CASE BeginStart(local.script, local.at, "schedule")
    BY <1>2, <2>2 DEF BeginStart, Locals
  <2> QED
    BY <2>1, <2>2 DEF SetCursor
<1> HIDE DEF s
<1>6. \A m \in missed : CursorPast(m[1], m[2]) => CursorPast(m[1], m[2])'
  BY <1>1, <1>3, <1>4, <1>2 DEF CursorPast, Resuming
<1>7. \A m \in missed : Off(m[1])' <=> Off(m[1])
  BY <1>1 DEF Off
<1>8. missed' \subseteq Scripts \X Occurrences \X {"script", "all"}
  BY <1>1 DEF Over
<1>9. (\A m \in missed : m[2] <= clock /\ (pc \in Checking => m[2] <= now))'
  BY <1>1, <1>4
<1>10. (\A m \in missed : m[3] = "script" => Off(m[1]) \/ CursorPast(m[1], m[2]))'
  BY <1>1, <1>6, <1>7 DEF Over
<1>11. (pc \in {"set", "start", "record"} => raced \/ <<local.script, local.at, "script">> \notin missed)'
  BY <1>1, <1>5 DEF Over, s
<1> QED
  BY <1>5, <1>8, <1>9, <1>10, <1>11 DEF Over

\* A script that becomes off, or is being resumed, may have missed what it has.
LEMMA SwitchOver ==
  ASSUME Base, Over, NEW x \in Scripts, NEW w \in SwitchRows,
         switch' = [switch EXCEPT ![x] = w],
         UNCHANGED <<missed, cursor, clock, now, raced>>,
         \A s \in Scripts : Resuming(s) => Resuming(s)',
         w.paused \/ w.disabled \/ Resuming(x)',
         UNCHANGED <<pc, local>> \/ pc' = "drain"
  PROVE  Over'
<1>1. switch'[x] = w /\ (\A s \in Scripts : s # x => switch'[s] = switch[s])
  BY DEF Base, Types
<1>2. \A m \in missed : m[1] \in Scripts
  BY MissedTypes
<1>3. \A m \in missed : CursorPast(m[1], m[2]) => CursorPast(m[1], m[2])'
  BY <1>2 DEF CursorPast
<1>4. \A m \in missed : Off(m[1]) => Off(m[1])' \/ CursorPast(m[1], m[2])'
  BY <1>1, <1>2 DEF Off, CursorPast
<1>5. missed' \subseteq Scripts \X Occurrences \X {"script", "all"}
  BY DEF Over
<1>6. (\A m \in missed : m[2] <= clock /\ (pc \in Checking => m[2] <= now))'
  BY DEF Over, Checking
<1>7. (\A m \in missed : m[3] = "script" => Off(m[1]) \/ CursorPast(m[1], m[2]))'
  BY <1>3, <1>4 DEF Over
<1>8. (\A m \in missed : m[3] = "script" /\ pc \in {"approval", "cursor"} /\ local.on /\ local.script = m[1] =>
         CursorPast(m[1], m[2]))'
  BY <1>3 DEF Over
<1>9. (pc \in {"set", "start", "record"} => raced \/ <<local.script, local.at, "script">> \notin missed)'
  BY DEF Over
<1> QED
  BY <1>5, <1>6, <1>7, <1>8, <1>9 DEF Over

\* Clearing a cursor ends a resume.
LEMMA ClearOver ==
  ASSUME Base, Over, ClearCursor
  PROVE  Over'
<1>1. /\ cli.step = 3 /\ cursor' = [cursor EXCEPT ![cli.script] = None]
      /\ UNCHANGED <<missed, switch, clock, now, raced, pc, local>>
  BY DEF ClearCursor, files, choices, memory, history
<1>2. cli.script \in Scripts /\ cursor \in [Scripts -> Nat \cup {None}]
  BY <1>1 DEF Base, Held, Types
<1>3. cursor'[cli.script] = None /\ \A x \in Scripts : x # cli.script => cursor'[x] = cursor[x]
  BY <1>1, <1>2
<1>4. \A m \in missed : m[1] \in Scripts
  BY MissedTypes
<1>5. \A m \in missed : CursorPast(m[1], m[2]) => CursorPast(m[1], m[2])'
  BY <1>3, <1>4 DEF CursorPast, Resuming
<1>6. \A m \in missed : Off(m[1])' <=> Off(m[1])
  BY <1>1 DEF Off
<1>7. missed' \subseteq Scripts \X Occurrences \X {"script", "all"}
  BY <1>1 DEF Over
<1>8. (\A m \in missed : m[2] <= clock /\ (pc \in Checking => m[2] <= now))'
  BY <1>1 DEF Over
<1>9. (\A m \in missed : m[3] = "script" => Off(m[1]) \/ CursorPast(m[1], m[2]))'
  BY <1>1, <1>5, <1>6 DEF Over
<1>10. (\A m \in missed : m[3] = "script" /\ pc \in {"approval", "cursor"} /\ local.on /\ local.script = m[1] =>
         CursorPast(m[1], m[2]))'
  BY <1>1, <1>5 DEF Over
<1>11. (pc \in {"set", "start", "record"} => raced \/ <<local.script, local.at, "script">> \notin missed)'
  BY <1>1 DEF Over
<1> QED
  BY <1>7, <1>8, <1>9, <1>10, <1>11 DEF Over

\* What falls due while no daemon runs is missed by the scripts that are off.
LEMMA AdvanceOver ==
  ASSUME Base, Over, Advance
  PROVE  Over'
<1>1. /\ clock' = clock + 1 /\ clock \in Nat
      /\ UNCHANGED <<switch, cursor, cli, pc, local, now, raced>>
  BY DEF Advance, database, choices, memory, Base, Types
<1>2. \A m \in missed : m[2] \in Nat /\ m[2] <= clock /\ (pc \in Checking => m[2] <= now)
  BY MissedTypes DEF Over
<1>3. missed \subseteq missed'
  BY DEF Advance
<1>4. ASSUME NEW m \in missed', m \notin missed
      PROVE  /\ pc = "down" /\ m[1] \in Scripts /\ m[2] = clock + 1 /\ clock + 1 \in Occurrences
             /\ m \in Scripts \X Occurrences \X {"script", "all"}
             /\ m[3] = "script" => Off(m[1])
  <2>1. /\ ~Daemon /\ clock + 1 \in Occurrences
        /\ \/ \E x \in Scripts : Off(x) /\ m = <<x, clock + 1, "script">>
           \/ \E x \in Scripts : m = <<x, clock + 1, "all">>
    BY <1>4 DEF Advance
  <2> QED
    BY <2>1 DEF Daemon
<1>5. \A m \in missed : /\ CursorPast(m[1], m[2])' <=> CursorPast(m[1], m[2])
                        /\ Off(m[1])' <=> Off(m[1])
  BY <1>1 DEF CursorPast, Resuming, Off
<1>6. \A s : Off(s)' <=> Off(s)
  BY <1>1 DEF Off
<1>7. missed' \subseteq Scripts \X Occurrences \X {"script", "all"}
  BY <1>4 DEF Over
<1>8. (\A m \in missed : m[2] <= clock /\ (pc \in Checking => m[2] <= now))'
  <2>1. ASSUME NEW m \in missed' PROVE m[2] <= clock' /\ (pc' \in Checking => m[2] <= now')
    <3>1. CASE m \in missed
      BY <1>1, <1>2, <3>1
    <3>2. CASE m \notin missed
      BY <1>1, <1>4, <3>2 DEF Checking
    <3> QED
      BY <3>1, <3>2
  <2> QED
    BY <2>1
<1>9. (\A m \in missed : m[3] = "script" => Off(m[1]) \/ CursorPast(m[1], m[2]))'
  <2>1. ASSUME NEW m \in missed', m[3] = "script" PROVE Off(m[1])' \/ CursorPast(m[1], m[2])'
    <3>1. CASE m \in missed
      BY <1>5, <2>1, <3>1 DEF Over
    <3>2. CASE m \notin missed
      BY <1>4, <1>6, <2>1, <3>2
    <3> QED
      BY <3>1, <3>2
  <2> QED
    BY <2>1
<1>10. (\A m \in missed : m[3] = "script" /\ pc \in {"approval", "cursor"} /\ local.on /\ local.script = m[1] =>
         CursorPast(m[1], m[2]))'
  <2>1. ASSUME NEW m \in missed', m[3] = "script", pc \in {"approval", "cursor"}, local.on, local.script = m[1]
        PROVE  CursorPast(m[1], m[2])'
    <3>1. m \in missed
      BY <1>4, <2>1
    <3> QED
      BY <1>5, <2>1, <3>1 DEF Over
  <2> QED
    BY <1>1, <2>1
<1>11. (pc \in {"set", "start", "record"} => raced \/ <<local.script, local.at, "script">> \notin missed)'
  <2>1. CASE pc = "down"
    BY <1>1, <2>1
  <2>2. CASE pc # "down"
    <3>1. missed' \subseteq missed
      BY <1>4, <2>2
    <3> QED
      BY <1>1, <3>1 DEF Over
  <2> QED
    BY <2>1, <2>2
<1> QED
  BY <1>7, <1>8, <1>9, <1>10, <1>11 DEF Over

\* A clock set back takes back what it will pass again.
LEMMA SetBackOver ==
  ASSUME Base, Over, SetBack
  PROVE  Over'
<1>1. /\ clock' = clock - 1 /\ clock \in Nat /\ missed' = {m \in missed : m[2] < clock}
      /\ UNCHANGED <<switch, cursor, cli, pc, local, now, raced>>
  BY DEF SetBack, database, choices, memory, Base, Types
<1>2. \A m \in missed' : m \in missed /\ m[2] \in Nat /\ m[2] <= clock' /\ (pc \in Checking => m[2] <= now)
  BY <1>1, MissedTypes DEF Over
<1>3. \A m \in missed : /\ CursorPast(m[1], m[2])' <=> CursorPast(m[1], m[2])
                        /\ Off(m[1])' <=> Off(m[1])
  BY <1>1 DEF CursorPast, Resuming, Off
<1>4. missed' \subseteq Scripts \X Occurrences \X {"script", "all"}
  BY <1>2 DEF Over
<1>5. (\A m \in missed : m[2] <= clock /\ (pc \in Checking => m[2] <= now))'
  BY <1>1, <1>2
<1>6. (\A m \in missed : m[3] = "script" => Off(m[1]) \/ CursorPast(m[1], m[2]))'
  BY <1>2, <1>3 DEF Over
<1>7. (\A m \in missed : m[3] = "script" /\ pc \in {"approval", "cursor"} /\ local.on /\ local.script = m[1] =>
         CursorPast(m[1], m[2]))'
  BY <1>1, <1>2, <1>3 DEF Over
<1>8. (pc \in {"set", "start", "record"} => raced \/ <<local.script, local.at, "script">> \notin missed)'
  BY <1>1, <1>2 DEF Over
<1> QED
  BY <1>4, <1>5, <1>6, <1>7, <1>8 DEF Over

\* Each step keeps a time that was missed behind its cursor.
LEMMA OverSteps ==
  ASSUME Base, Threads, Over, [Next]_vars
  PROVE  Over'
<1> DEFINE Calm == UNCHANGED <<missed, switch, cursor, clock>>
<1>1. CASE Serve
  <2>1. pc' = "tick" /\ Calm /\ UNCHANGED cli
    BY <1>1 DEF Serve, files, choices, history
  <2> QED
    BY <2>1, OverKept DEF Resuming, Checking
<1>2. CASE Pass
  <2>1. ASSUME NEW s \in Scripts, ReadSwitch(s) PROVE Over'
    BY <2>1, ReadSwitchOver
  <2>2. CASE TakeRequests \/ ReadPausedAll
    <3>1. pc \in Checking /\ pc' \in {"act", "schedule"} /\ Calm /\ UNCHANGED <<cli, now>>
      BY <2>2 DEF TakeRequests, ReadPausedAll, files, database, choices, history, Checking
    <3> QED
      BY <3>1, OverKept DEF Resuming
  <2>3. CASE ReadApproval
    <3>1. /\ pc = "approval" /\ pc' = "cursor" /\ Calm /\ UNCHANGED <<cli, now>>
          /\ local' = [local EXCEPT !.on = @ /\ approved[local.script] = loaded[local.script]]
      BY <2>3 DEF ReadApproval, files, database, choices, history
    <3>2. local'.script = local.script /\ (local'.on => local.on)
      BY <3>1 DEF Base, Types, Locals
    <3> QED
      BY <3>1, <3>2, OverKept DEF Resuming, Checking
  <2>4. CASE CheckApproval
    <3>1. pc = "start" /\ Calm /\ UNCHANGED <<cli, now, raced>>
      BY <2>4 DEF CheckApproval, files, database, choices, history
    <3>2. (pc' = "record" /\ local' = local) \/ pc' \in {"act", "schedule"}
      BY <2>4 DEF CheckApproval, EndStart, Return
    <3>3. raced \/ <<local.script, local.at, "script">> \notin missed
      BY <3>1 DEF Over
    <3> QED
      BY <3>1, <3>2, <3>3, OverKept DEF Resuming, Checking
  <2>5. CASE RecordRun
    <3>1. pc = "record" /\ Calm /\ UNCHANGED <<cli, now>> /\ pc' \in {"act", "schedule"}
      BY <2>5 DEF RecordRun, EndStart, Return, files, choices, history
    <3> QED
      BY <3>1, OverKept DEF Resuming, Checking
  <2>6. CASE ScheduleDone \/ FinishRun \/ CountFailures \/ ReadSwitchToPause
    <3>1. Calm /\ UNCHANGED cli /\ pc' \in {"drain", "failures", "switch", "pause"}
      BY <2>6 DEF ScheduleDone, FinishRun, CountFailures, ReadSwitchToPause, files, database, choices, history
    <3> QED
      BY <3>1, OverKept DEF Resuming, Checking
  <2>7. CASE Sleep \/ Exit
    <3>1. Calm /\ UNCHANGED cli /\ pc' \in {"tick", "down"}
      BY <2>7 DEF Sleep, Exit, Forget, files, database, choices, history
    <3> QED
      BY <3>1, OverKept DEF Resuming, Checking
  <2>8. CASE PauseScript
    <3> DEFINE w == [local.switch EXCEPT !.paused = TRUE]
    <3>1. /\ pc = "pause" /\ switch' = [switch EXCEPT ![local.script] = w] /\ pc' = "drain"
          /\ UNCHANGED <<missed, cursor, clock, cli, now, raced>>
      BY <2>8 DEF PauseScript, files, history
    <3>2. local.script \in Scripts /\ local.switch \in SwitchRows
      BY <3>1 DEF Base, Working, Types, Locals
    <3>3. w \in SwitchRows /\ w.paused
      BY <3>2 DEF SwitchRows
    <3> HIDE DEF w
    <3> QED
      BY <3>1, <3>2, <3>3, SwitchOver DEF Resuming
  <2> QED
    BY <1>2, <2>1, <2>2, <2>3, <2>4, <2>5, <2>6, <2>7, <2>8, TickOver, ActOver, ReadCursorOver,
       SetCursorOver DEF Pass
<1>3. CASE Fault
  <2>1. Calm /\ UNCHANGED cli
    BY <1>3 DEF Fault, Crash, StoreFails, StartFails, FinishFails, files, database, choices, history
  <2>2. CASE Crash \/ StoreFails \/ FinishFails
    <3>1. pc' \in {"down", "drain"}
      BY <2>2 DEF Crash, Forget, StoreFails, BeginShutdown, FinishFails
    <3> QED
      BY <2>1, <3>1, OverKept DEF Resuming, Checking
  <2>3. CASE StartFails
    <3>1. pc \in {"start", "record"} /\ pc' \in {"act", "schedule"} /\ UNCHANGED now
      BY <2>3 DEF StartFails, EndStart, Return
    <3> QED
      BY <2>1, <3>1, OverKept DEF Resuming, Checking
  <2> QED
    BY <1>3, <2>2, <2>3 DEF Fault
<1>4. ASSUME NEW r \in RunIds, Thread(r) PROVE Over'
  <2>1. CASE BudgetSpent(r)
    <3> DEFINE w == [paused |-> TRUE, disabled |-> FALSE]
    <3>1. /\ job[r] = "running" /\ switch' = [switch EXCEPT ![runs[r].script] = w]
          /\ UNCHANGED <<missed, cursor, clock, cli, now, raced, pc, local>>
      BY <2>1 DEF BudgetSpent, files, memory, history
    <3>2. runs[r].script \in Scripts
      <4>1. r \in DOMAIN runs
        BY <3>1 DEF Threads
      <4>2. runs[r] \in Rows
        BY <4>1 DEF Base, Types
      <4> QED
        BY <4>2 DEF Rows
    <3>3. w \in SwitchRows /\ w.paused
      BY DEF SwitchRows
    <3> HIDE DEF w
    <3> QED
      BY <3>1, <3>2, <3>3, SwitchOver DEF Resuming
  <2>2. ASSUME NEW state \in Ends, JobEnds(r, state) PROVE Over'
    <3>1. Calm /\ UNCHANGED <<cli, pc, local, now, raced>>
      BY <2>2 DEF JobEnds, files, database, choices, memory, history
    <3>2. pc \in {"set", "start", "record"} => raced \/ <<local.script, local.at, "script">> \notin missed
      BY DEF Over
    <3> QED
      BY <3>1, <3>2, OverKept DEF Resuming
  <2> QED
    BY <1>4, <2>1, <2>2 DEF Thread
<1>5. CASE Command \/ Host
  <2>1. UNCHANGED <<pc, local, now>>
    BY <1>5, AroundStill DEF memory
  <2>2. CASE WriteSwitch
    <3>1. PICK x, w : x \in Scripts /\ x = cli.script /\ w = Switched(cli.switch, cli.kind)
      BY <2>2 DEF WriteSwitch, Base, Held
    <3> x \in Scripts
      BY <3>1
    <3>2. /\ cli.kind \in {"pause", "resume", "disable", "enable"} /\ cli.step = 2
          /\ switch' = [switch EXCEPT ![x] = w]
          /\ cli.kind \in {"resume", "enable"} => cli' = [cli EXCEPT !.step = 3]
          /\ UNCHANGED <<missed, cursor, clock, raced>>
      BY <2>2, <3>1 DEF WriteSwitch, Clears, files
    <3>3. cli \in Commands /\ cli.switch \in SwitchRows
      BY DEF Base, Types, Commands
    <3>4. w \in SwitchRows /\ (cli.kind \in {"pause", "disable"} => w.paused \/ w.disabled)
      BY <3>1, <3>2, <3>3 DEF Switched, SwitchRows
    <3>5. cli.kind \in {"resume", "enable"} => Resuming(x)'
      BY <3>1, <3>2, <3>3 DEF Resuming, Commands
    <3>6. \A s \in Scripts : ~Resuming(s)
      BY <3>2 DEF Resuming
    <3>7. w.paused \/ w.disabled \/ Resuming(x)'
      BY <3>2, <3>4, <3>5
    <3> QED
      BY <2>1, <3>2, <3>4, <3>6, <3>7, SwitchOver
  <2>3. CASE ClearCursor \/ Advance \/ SetBack
    BY <2>3, ClearOver, AdvanceOver, SetBackOver
  <2>4. CASE ~(WriteSwitch \/ ClearCursor \/ Advance \/ SetBack)
    <3> DEFINE Kept == Calm /\ UNCHANGED raced /\ \A s \in Scripts : Resuming(s) => Resuming(s)'
    <3>1. ASSUME NEW s \in Scripts, BeginApprove(s) PROVE Kept
      BY <3>1 DEF BeginApprove, Begin, Resuming, files, database, choices, history
    <3>2. ASSUME NEW kind \in CommandKinds, NEW s \in Scripts, BeginSwitch(kind, s) \/ BeginRequest(kind, s)
          PROVE  Kept
      BY <3>2 DEF BeginSwitch, BeginRequest, Begin, Resuming, files, database, choices, history
    <3>3. ASSUME NEW kind \in CommandKinds, SwitchAll(kind) PROVE Kept
      BY <3>3 DEF SwitchAll, Resuming, files, history
    <3>4. ASSUME WriteApproval \/ PutRow \/ PushRequest PROVE Kept
      <4>1. cli.kind \notin {"resume", "enable"}
        BY <3>4 DEF WriteApproval, PutRow, PushRequest
      <4>2. Calm /\ UNCHANGED raced
        BY <3>4 DEF WriteApproval, PutRow, PushRequest, files, choices, history
      <4> QED
        BY <4>1, <4>2 DEF Resuming
    <3>5. ASSUME NEW s \in Scripts, Edit(s) PROVE Kept
      BY <3>5 DEF Edit, Resuming, database, choices, history
    <3>6. Kept
      <4> HIDE DEF Kept
      <4> QED
        BY <1>5, <2>4, <3>1, <3>2, <3>3, <3>4, <3>5 DEF Command, Host
    <3>7. pc \in {"set", "start", "record"} => raced \/ <<local.script, local.at, "script">> \notin missed
      BY DEF Over
    <3> QED
      BY <2>1, <3>6, <3>7, OverKept
  <2> QED
    BY <2>2, <2>3, <2>4
<1>6. CASE UNCHANGED vars
  <2>1. Calm /\ UNCHANGED <<cli, pc, local, now, raced>>
    BY <1>6 DEF vars, files, database, choices, memory, history
  <2>2. pc \in {"set", "start", "record"} => raced \/ <<local.script, local.at, "script">> \notin missed
    BY DEF Over
  <2> QED
    BY <2>1, <2>2, OverKept DEF Resuming
<1> QED
  BY <1>1, <1>2, <1>3, <1>4, <1>5, <1>6 DEF Next

\* The whole invariant holds in every behaviour.
LEMMA IInvHolds == Spec => []IInv
<1>1. Init => IInv
  <2>1. Init => Over
    BY DEF Init, Over, Checking
  <2>2. Init => Approvals
    BY DEF Init, Approvals
  <2> QED
    BY <2>1, <2>2, BaseInit, RunsInit, PausedInit DEF IInv, Serving
<1>2. IInv /\ [Next]_vars => IInv'
  BY BaseSteps, RunsSteps, ApprovalsSteps, PausedSteps, OverSteps DEF IInv, Serving, RunsInv
<1> QED
  BY <1>1, <1>2, PTL DEF Spec

\* A step that adds a run is start_run's, and adds the one the start is about.
LEMMA NewRunIsRecorded ==
  ASSUME Serving, [Next]_vars, NewRun
  PROVE  /\ RecordRun /\ pc = "record"
         /\ Newest.script = local.script /\ Newest.scheduled = local.at /\ Newest.hash = local.hash
<1>1. runs \in Seq(Rows) /\ Len(runs) \in Nat
  BY DEF Serving, Base, Types
<1>2. ~Serve
  <2>1. Serve => Len(runs') = Len(runs)
    BY InterruptedType DEF Serve, Serving, Base
  <2> QED
    BY <1>1, <2>1 DEF NewRun
<1>3. ~FinishRun
  <2>1. FinishRun => Len(runs') = Len(runs)
    <3>1. SUFFICES ASSUME FinishRun PROVE Len(runs') = Len(runs)
      OBVIOUS
    <3>2. runs' = Ended(runs, done[1].run, done[1].state) /\ done[1].state \in Ends \cup {"running", "interrupted"}
      BY <3>1, FinishRunRuns DEF Serving
    <3> QED
      BY <1>1, <3>2, EndRun
  <2> QED
    BY <1>1, <2>1 DEF NewRun
<1>4. ~WriteApproval
  BY <1>1 DEF WriteApproval, NewRun
<1>5. ~RecordRun => UNCHANGED runs
  BY <1>2, <1>3, <1>4, LedgerStill DEF Serving
<1>6. RecordRun
  BY <1>1, <1>5 DEF NewRun
<1> DEFINE new == [script |-> local.script, hash |-> local.hash, scheduled |-> local.at,
                   state |-> "running"]
<1>7. runs' = Append(runs, new) /\ pc = "record"
  BY <1>1, <1>6 DEF RecordRun, NewRun
<1>8. new \in Rows
  BY <1>7 DEF Serving, Base, Types, Working, Rows, Locals
<1>9. Len(runs') = Len(runs) + 1 /\ runs'[Len(runs) + 1] = new
  <2> HIDE DEF new
  <2> QED
    BY <1>1, <1>7, <1>8, AppendRun
<1> QED
  BY <1>6, <1>7, <1>9 DEF Newest

-----------------------------------------------------------------------------
(* Theorems *)

\* The rows, the daemon's memory and the command in progress have their types
\* whatever is killed, edited or asked for.
THEOREM TypeCorrect == Spec => []TypeOK
<1>1. IInv => TypeOK
  BY DEF IInv, Serving, Base, Types, TypeOK, Rows, Files
<1> QED
  BY <1>1, IInvHolds, PTL

\* The daemon of daemon.rs keeps the promises of RunLedger for any scripts,
\* schedules, number of runs, crashes, edits and commands: one run of a script
\* at a time, in an approved form, once per firing, none revived.
THEOREM DaemonKeepsLedger == Spec => KeepsLedger
<1>1. Init => Ledger!Init
  BY DEF Init, Ledger!Init
<1>2. IInv /\ [Next]_vars => [Ledger!Next]_(Ledger!vars)
  BY LedgerSteps DEF IInv
<1> QED
  BY <1>1, <1>2, IInvHolds, PTL DEF Spec, KeepsLedger, Ledger!Spec

\* A row says running exactly while its script is held back by that run, as
\* long as a daemon serves (interrupt_running, start, finish).
THEOREM RunningRowsAreLive == Spec => []RunningIsLive
<1>1. IInv => RunningIsLive
  BY DEF IInv, Serving, RunsInv
<1> QED
  BY <1>1, IInvHolds, PTL

\* A script waits for a thread that goes on or for an end in the channel,
\* never for both or neither (Daemon.live, the threads, finish).
THEOREM LiveRunsHaveThreads == Spec => []ThreadPerLiveRun
<1>1. IInv => ThreadPerLiveRun
  BY DEF IInv, Serving, RunsInv
<1> QED
  BY <1>1, IInvHolds, PTL

\* FAILURES_TO_PAUSE failed runs in a row leave the script paused, for any
\* number of scripts and runs and whatever is killed in between, unless the
\* user switched it or an exit cut a finish short (finish, failures_in_a_row).
THEOREM FailuresPause == Spec => []PausedAfterFailures
<1>1. IInv => PausedAfterFailures
  BY DEF IInv
<1> QED
  BY <1>1, IInvHolds, PTL

\* No run is started for a time that passed while its script was paused or
\* disabled and no daemon ran, for any schedule and however the clock is set,
\* unless the daemon read the cursor between the two writes of a resume
\* (cli/run.rs Resume, clear_cursors, schedule, due).
THEOREM PausedTimePasses == Spec => PausedTimeIsOver
<1>1. IInv /\ [Next]_vars =>
        [NewRun => raced \/ <<Newest.script, Newest.scheduled, "script">> \notin missed]_vars
  <2>1. SUFFICES ASSUME IInv, [Next]_vars, NewRun
                 PROVE  raced \/ <<Newest.script, Newest.scheduled, "script">> \notin missed
    OBVIOUS
  <2>2. pc = "record" /\ Newest.script = local.script /\ Newest.scheduled = local.at
    BY <2>1, NewRunIsRecorded DEF IInv
  <2> QED
    BY <2>1, <2>2 DEF IInv, Over
<1> QED
  BY <1>1, IInvHolds, PTL DEF Spec, PausedTimeIsOver
=============================================================================
