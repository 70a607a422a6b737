------------------------------- MODULE AgentCaps -------------------------------
(***************************************************************************)
(* The agents that automation runs start, the host's caps on them and the    *)
(* sampler that measures them (sheprd-automate: runner.rs agent_cap and       *)
(* Slots, steps.rs agent, sampler.rs, store.rs agents and agent_days).         *)
(*                                                                          *)
(* Each member of Agents is one agent step of one run; its run's thread takes *)
(* it through the caps, starts the agent in a pane of Herdr, records it and    *)
(* lets go of its slot.  The agent itself lives in Herdr and outlives the run  *)
(* and the daemon.  A day's tokens of all four kinds are one number, and what *)
(* an agent used only grows: a reader that finds another, smaller session of   *)
(* the agent, for which tokens_on stops at zero, is left out.                 *)
(***************************************************************************)
EXTENDS Integers, FiniteSets, FiniteSetsExt

CONSTANTS
  Agents,        \* agent steps
  Scripts,       \* paths
  Owner,         \* Owner[a]: the script of a
  MaxAgents,     \* HostCaps.max_agents
  ScriptTokens,  \* the plan's tokens_per_day
  HostTokens,    \* HostCaps.max_tokens_per_day
  MaxTokens,     \* bound on the tokens an agent uses
  Days,          \* bound on the days that pass
  MaxFaults,     \* bound on crashes, failed writes and lost answers
  None

ASSUME CapsAssumption ==
  /\ IsFiniteSet(Agents) /\ None \notin Agents \cup Nat
  /\ Owner \in [Agents -> Scripts]
  /\ MaxAgents \in Nat /\ ScriptTokens \in Nat /\ HostTokens \in Nat
  /\ MaxTokens \in Nat /\ Days \in Nat /\ MaxFaults \in Nat

VARIABLES
  up,        \* a daemon runs
  pc,        \* pc[a]: where the run's thread is in the step
  starting,  \* Slots: reservations held
  lock,      \* who holds Slots' mutex, or None
  counted,   \* the rows its holder counted
  pane,      \* pane[a]: what runs in the agent's pane
  used,      \* used[a]: tokens it has used
  day,       \* the host's day
  row,       \* agents: none, live or done
  tokens,    \* agents: the tokens last measured
  started,   \* agents: the day it was started
  base,      \* agent_days: <<a, d>> to the tokens before the first sample of d
  todo,      \* rows the sampler's pass has yet to read
  sampleDay, \* the day of the pass
  sampled,   \* the sample being written, or None
  idle,      \* idle_since: agents seen idle
  faults,    \* faults left
  strays,    \* history: agents that started without a row
  measured   \* history: <<a, d>> to the tokens newly seen in samples of d

thread == <<pc, starting, lock, counted>>
herdr == <<pane, used, day>>
table == <<row, tokens, started, base>>
sampler == <<todo, sampleDay, sampled, idle>>
vars == <<up, thread, herdr, table, sampler, faults, strays, measured>>

Live == {a \in Agents : row[a] = "live"}
Reserved == {a \in Agents : pc[a] \in {"start", "record", "drop", "release"}}
Stamps == Agents \X (0..Days)

(* tokens_on: a row of agent_days is what the agent had used before that day. *)
TokensOn(of, d) == MapThenSumSet(LAMBDA a : tokens[a] - base[<<a, d>>], {a \in of : base[<<a, d>>] # None})
OfScript(s) == {a \in Agents : Owner[a] = s}

-----------------------------------------------------------------------------
(* A run's thread *)

(* agent_cap: the script's budget, the host's budget, each its own read. *)
CheckScriptTokens(a) ==
  /\ up /\ pc[a] = "new"
  /\ pc' = [pc EXCEPT ![a] = IF TokensOn(OfScript(Owner[a]), day) >= ScriptTokens THEN "halted" ELSE "host"]
  /\ UNCHANGED <<up, starting, lock, counted, herdr, table, sampler, faults, strays, measured>>

CheckHostTokens(a) ==
  /\ pc[a] = "host"
  /\ pc' = [pc EXCEPT ![a] = IF TokensOn(Agents, day) >= HostTokens THEN "halted" ELSE "cap"]
  /\ UNCHANGED <<up, starting, lock, counted, herdr, table, sampler, faults, strays, measured>>

(* Under the mutex the live rows are counted, then the reservations; rows     *)
(* come and go meanwhile.                                                    *)
MayLock == lock = None

CountRows(a) ==
  /\ pc[a] = "cap" /\ MayLock
  /\ lock' = a /\ counted' = Cardinality(Live)
  /\ pc' = [pc EXCEPT ![a] = "reserve"]
  /\ UNCHANGED <<up, starting, herdr, table, sampler, faults, strays, measured>>

Unlimited == counted < MaxAgents \* mutant: reservations are not counted
SlotFree == counted + starting < MaxAgents

Reserve(a) ==
  /\ pc[a] = "reserve"
  /\ IF SlotFree THEN starting' = starting + 1 /\ pc' = [pc EXCEPT ![a] = "start"]
                 ELSE UNCHANGED starting /\ pc' = [pc EXCEPT ![a] = "halted"]
  /\ lock' = None /\ counted' = 0
  /\ UNCHANGED <<up, herdr, table, sampler, faults, strays, measured>>

(* The server, the worktree or the start itself fails, and no agent runs. *)
StartFails(a) ==
  /\ pc[a] = "start"
  /\ pc' = [pc EXCEPT ![a] = "release"]
  /\ UNCHANGED <<up, starting, lock, counted, herdr, table, sampler, faults, strays, measured>>

StartAgent(a) ==
  /\ pc[a] = "start"
  /\ pane' = [pane EXCEPT ![a] = "working"]
  /\ pc' = [pc EXCEPT ![a] = "record"]
  /\ UNCHANGED <<up, starting, lock, counted, used, day, table, sampler, faults, strays, measured>>

(* The call is killed at a stop or its deadline after Herdr acted on it. *)
StartUnheard(a) ==
  /\ pc[a] = "start" /\ faults > 0
  /\ faults' = faults - 1
  /\ pane' = [pane EXCEPT ![a] = "working"]
  /\ strays' = strays \cup {a}
  /\ pc' = [pc EXCEPT ![a] = "release"]
  /\ UNCHANGED <<up, starting, lock, counted, used, day, table, sampler, measured>>

AddAgentFreed(a) == \* mutant: the slot is given back and the row never written
  /\ pc[a] = "record" /\ MayLock
  /\ starting' = starting - 1
  /\ pc' = [pc EXCEPT ![a] = "over"]
  /\ UNCHANGED <<up, lock, counted, herdr, table, sampler, faults, strays, measured>>

AddAgent(a) ==
  /\ pc[a] = "record"
  /\ row' = [row EXCEPT ![a] = "live"]
  /\ started' = [started EXCEPT ![a] = day]
  /\ pc' = [pc EXCEPT ![a] = "drop"]
  /\ UNCHANGED <<up, starting, lock, counted, herdr, tokens, base, sampler, faults, strays, measured>>

AddAgentFails(a) ==
  /\ pc[a] = "record" /\ faults > 0
  /\ faults' = faults - 1
  /\ strays' = strays \cup {a}
  /\ pc' = [pc EXCEPT ![a] = "release"]
  /\ UNCHANGED <<up, starting, lock, counted, herdr, table, sampler, measured>>

(* The reservation is dropped: after the row is written, or where the step   *)
(* failed.                                                                  *)
DropsRecorded == {"drop"} \* mutant: a step that failed never drops it
Drops == {"drop", "release"}

Freed(a) == starting - 1

DropReservation(a) ==
  /\ pc[a] \in Drops /\ MayLock
  /\ starting' = Freed(a)
  /\ pc' = [pc EXCEPT ![a] = "over"]
  /\ UNCHANGED <<up, lock, counted, herdr, table, sampler, faults, strays, measured>>

-----------------------------------------------------------------------------
(* The sampler *)

BeginSample ==
  /\ up /\ todo = {} /\ sampled = None /\ Live # {}
  /\ todo' = Live /\ sampleDay' = day
  /\ UNCHANGED <<up, thread, herdr, table, sampled, idle, faults, strays, measured>>

(* What one look at the pane finds: tokens if the session file is read; gone  *)
(* if the pane closed or its shell is back; idle long enough if it was idle    *)
(* before; past a day.                                                       *)
Found(a) ==
  [step : {"base"}, agent : {a}, tokens : {tokens[a], used[a]},
   done : {d \in BOOLEAN : d => \/ pane[a] = "gone" \/ (pane[a] = "idle" /\ a \in idle)
                               \/ day > started[a]}]

BaseAfter(a) == sampled.tokens \* mutant: the update comes first
BaseBefore(a) == tokens[a]

(* sample_agent: the day's base if it has none, then the row. *)
ReadPane(a) ==
  /\ up /\ a \in todo /\ sampled = None
  /\ todo' = todo \ {a}
  /\ sampled' \in Found(a)
  /\ idle' = IF pane[a] = "idle" THEN idle \cup {a} ELSE idle \ {a}
  /\ UNCHANGED <<up, thread, herdr, table, sampleDay, faults, strays, measured>>

(* A write fails, and the rest of the pass is left for the next one. *)
SampleFails ==
  /\ sampled # None /\ faults > 0
  /\ faults' = faults - 1
  /\ todo' = {} /\ sampled' = None
  /\ idle' = IF sampled.done THEN idle \ {sampled.agent} ELSE idle
  /\ UNCHANGED <<up, thread, herdr, table, sampleDay, strays, measured>>

WriteBase ==
  /\ sampled # None /\ sampled.step = "base"
  /\ LET stamp == <<sampled.agent, sampleDay>> IN
       base' = IF base[stamp] = None THEN [base EXCEPT ![stamp] = BaseBefore(sampled.agent)] ELSE base
  /\ sampled' = [sampled EXCEPT !.step = "update"]
  /\ UNCHANGED <<up, thread, herdr, row, tokens, started, todo, sampleDay, idle, faults, strays, measured>>

WriteSample ==
  /\ sampled # None /\ sampled.step = "update"
  /\ LET a == sampled.agent IN
       /\ measured' = [measured EXCEPT ![<<a, sampleDay>>] = @ + (sampled.tokens - tokens[a])]
       /\ tokens' = [tokens EXCEPT ![a] = sampled.tokens]
       /\ row' = [row EXCEPT ![a] = IF sampled.done THEN "done" ELSE @]
       /\ idle' = IF sampled.done THEN idle \ {a} ELSE idle
  /\ sampled' = None
  /\ UNCHANGED <<up, thread, herdr, started, base, todo, sampleDay, faults, strays>>

-----------------------------------------------------------------------------
(* The daemon and the agents *)

Serve ==
  /\ ~up
  /\ up' = TRUE
  /\ UNCHANGED <<thread, herdr, table, sampler, faults, strays, measured>>

(* Killed, or shut down while a run does not stop in time: the threads and    *)
(* what they held are gone; a run is not taken up again.                     *)
Crash ==
  /\ up /\ faults > 0
  /\ faults' = faults - 1
  /\ up' = FALSE
  /\ strays' = strays \cup {a \in Agents : pc[a] = "record"}
  /\ pc' = [a \in Agents |-> IF pc[a] \in {"new", "halted"} THEN pc[a] ELSE "over"]
  /\ starting' = 0 /\ lock' = None /\ counted' = 0
  /\ todo' = {} /\ sampled' = None /\ idle' = {}
  /\ UNCHANGED <<herdr, table, sampleDay, measured>>

Work(a) ==
  /\ pane[a] = "working" /\ used[a] < MaxTokens
  /\ used' = [used EXCEPT ![a] = @ + 1]
  /\ UNCHANGED <<up, thread, pane, day, table, sampler, faults, strays, measured>>

Turn(a, to) ==
  /\ pane[a] \in {"working", "idle"} /\ to # pane[a]
  /\ pane' = [pane EXCEPT ![a] = to]
  /\ UNCHANGED <<up, thread, used, day, table, sampler, faults, strays, measured>>

Midnight ==
  /\ day < Days
  /\ day' = day + 1
  /\ UNCHANGED <<up, thread, pane, used, table, sampler, faults, strays, measured>>

Init ==
  /\ up = FALSE
  /\ pc = [a \in Agents |-> "new"] /\ starting = 0 /\ lock = None /\ counted = 0
  /\ pane = [a \in Agents |-> "none"] /\ used = [a \in Agents |-> 0] /\ day = 0
  /\ row = [a \in Agents |-> "none"] /\ tokens = [a \in Agents |-> 0] /\ started = [a \in Agents |-> 0]
  /\ base = [x \in Stamps |-> None]
  /\ todo = {} /\ sampleDay = 0 /\ sampled = None /\ idle = {}
  /\ faults = MaxFaults /\ strays = {}
  /\ measured = [x \in Stamps |-> 0]

Step(a) ==
  \/ CheckHostTokens(a) \/ CountRows(a) \/ Reserve(a) \/ StartFails(a) \/ StartAgent(a) \/ StartUnheard(a)
  \/ AddAgent(a) \/ AddAgentFails(a) \/ DropReservation(a)

Sampling == BeginSample \/ (\E a \in Agents : ReadPane(a)) \/ WriteBase \/ WriteSample \/ SampleFails

Herdr ==
  \/ Midnight
  \/ \E a \in Agents : Work(a) \/ \E to \in {"working", "idle", "gone"} : Turn(a, to)

Next ==
  \/ Serve \/ Crash \/ Sampling \/ Herdr
  \/ \E a \in Agents : CheckScriptTokens(a) \/ Step(a)

Spec == Init /\ [][Next]_vars

(* A step's thread goes on: its calls of Herdr end by the step's deadline, and *)
(* the mutex is held for one read.                                           *)
FairSpec == Spec /\ \A a \in Agents : WF_vars(Step(a))

-----------------------------------------------------------------------------
(* Agents recorded as live and agents about to be started are never more than *)
(* max_agents together, whatever runs race for the last slot (agent_cap).     *)
CapHolds == Cardinality(Live \cup Reserved) <= MaxAgents

(* An agent at work is counted, by its row or by its reservation, unless the  *)
(* sampler gave it up or its start was cut short (steps.rs agent).           *)
AtWorkIsCounted ==
  \A a \in Agents : pane[a] = "working" /\ row[a] # "done" /\ a \notin strays => a \in Live \cup Reserved

(* What the caps take for spent on the sampler's day is what its samples of   *)
(* that day added, for agents started before that day too (sample_agent,      *)
(* tokens_on).                                                               *)
DaySpending ==
  TokensOn(Agents, sampleDay) = MapThenSumSet(LAMBDA a : measured[<<a, sampleDay>>], Agents)

(* No slot stays reserved for an agent that is not coming (Reservation).      *)
ReservationsEnd == \A a \in Agents : a \in Reserved ~> a \notin Reserved

(* docs/automations.md: max_agents is the "agents automations may run at      *)
(* once".  Violated: an agent whose start went unheard or whose row was not    *)
(* written runs on, uncounted.                                               *)
HostCap ==
  Cardinality({a \in Agents : pane[a] = "working" /\ row[a] # "done"}) <= MaxAgents
====
