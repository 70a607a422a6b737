# Sheprd in TLA+

Sheprd (`herdr-gpui`) is a desktop client, with helper daemons, for Herdr, a
terminal multiplexer for coding agents. This directory holds TLA+
specifications of its core, TLC configurations that check them on small
instances, and TLAPS proofs of the results that matter most.

Three parts are modelled: the connection to a Herdr daemon (`sheprd-client` and
the surface codecs of `sheprd-protocol`), on which every window of the app
depends; the automation daemon with its schedules and caps (`sheprd-automate`,
`sheprd-automation`), which acts on its own and has to survive crashes; and the
pairing of a phone (`sheprd-remote-control`), which decides who may control the
computer.

## Inventory

### The connection (`crates/sheprd-client`, `crates/sheprd-protocol`)

One worker thread per connection owns the socket. Its owner, the app, holds a
`ClientHandle` (cloneable, used from any thread) and an event receiver.

| part | state | operations |
|---|---|---|
| `session.rs`, `Session` | welcome, encodings, newest snapshot, retained surface, image store, pending request, barrier, health | `handle_message` per server message; `run_connection`, the loop |
| `surface_images.rs`, `ImageStore` | image bytes by key, byte account, keys of the newest received and newest emitted scene | `receive`, `show`, `prune`, `published` |
| `event.rs` | channel of 8 events | `deliver`: retry until there is room or the owner stops |
| `session/barrier.rs` | the pipelined activation, held response, refusal | `pipelines`, `awaits`, `take_refused_barrier`, `resend_ready` |
| `frame.rs` | partial inbound frame; partial outbound input or image | `poll`, `poll_batch`, `write_some`, timeouts |
| `queue.rs` | channel of 64 commands, wake pipe | `try_send`, `wake`, `wait`, `drain` |
| `handle.rs` | stop and liveness flags, image-busy flag | `enqueue`, `reserve_clipboard`, `disconnect`, `check_liveness` |
| `clipboard.rs` | image slot, its channel, the lease | `complete`, `complete_input`, `cancel`, the three `Drop`s |
| `connect.rs` | the thread's end | the last event, the stop flag |
| `sheprd-protocol` | none | `validate_patch`, `commit_patch`, `apply_scroll_patch`, `SurfaceDelta::reconstruct`, `SurfaceReuse::reconstruct` |

Interactions: the owner's threads reach the worker through the queue, three
atomic flags and the image slots, and wake it through the pipe. The worker
reaches the owner through the event channel. The worker and the daemon exchange
frames; a response may come before the one it was expected behind.

What is hard:

- ordering: a surface can arrive before the snapshot it was drawn for, an
  activation's response before that of the focus it follows;
- stale state: deltas apply to a baseline that also advances unseen; images of
  the surface on screen have to survive a newer one that waits;
- interleaving: each owner operation is a store and a wake, each worker pass a
  series of reads; two uploads race for one lease;
- partial progress: input and images leave in pieces while frames arrive in
  pieces, and probes and resends become due in between;
- limits: both queues, the batch, the image budget;
- time: request, frame, health, image-preparation deadlines.

What makes it correct: the baseline is the daemon's surface; surfaces are
painted only under their own projection, in order, with their pixels; responses
come once and in order; no command runs twice; no frame is split by another; a
request is never left waiting; the worker is not left waiting on what it was told;
one image lease at a time.

### Automations (`crates/sheprd-automate`, `crates/sheprd-automation`)

One daemon per host, held by a lock file, loads the scripts of a directory and
runs them when they are due or asked for. Commands, the app and the daemon share
one SQLite database; each run has a thread.

| part | state | operations |
|---|---|---|
| `daemon.rs` | loaded scripts, live runs, their stop flags | `serve`, `tick`, `refresh`, `act`, `schedule`, `start`, `finish`, `shut_down` |
| `store.rs` | approvals, switches, cursors, rows, runs, requests, agents, days | one statement each |
| `runner.rs`, `steps.rs` | `Slots`, a run's steps | `agent_cap`, reservation, start, record; the token budget |
| `sampler.rs` | idle marks | reads each live agent's pane, writes tokens |
| `cli/run.rs`, `approve.rs` | none | approve, pause, resume, disable, enable, run now, stop, shut down |
| `schedule/next.rs`, `cron.rs` | none | `next_after`, `due`, `next_cron` |

What is hard: the daemon or the host stops between any two statements; a command
is several statements and the daemon reads between them; the script changes
after it was approved; the clock is set back or jumps; several runs race for the
last agent slot; an agent outlives its run and its daemon.

What makes it correct: a script runs only in an approved form, one run at a
time, once per firing; each run ends; a row never says running without a thread;
the last missed occurrence is fired and no other; caps hold and slots come back.

### Remote control (`crates/sheprd-remote-control`, the dialog in `sheprd-gpui`)

| part | state | operations |
|---|---|---|
| `auth/pairing.rs`, `Pairings` | the open pairing, its QR and nearby tokens, the claim, the last outcomes | `mint`, `claim`, `set_nearby`, `state`, `claim_status`, `answer`, `cancel` |
| `auth/devices.rs`, `Devices` | devices in memory and on disk | `add_with`, `revoke`, `expire_idle`, `save_or_undo` |
| `app/pairing.rs`, `Pairing` | the dialog's phase, the user's answer, the request in flight | `next`, `receive`, `answer_with_hosts`, `restart` |
| `remote/dialog.rs` | the driver of each window's dialog | one request at a time; cancel on close |
| `auth/links.rs`, `auth/session.rs`, `hub.rs` | host links and owed revocations, sessions, attached chats | not modelled yet |

What is hard: each request has its own connection, so those of one app overtake
each other; a dialog closes with a request on its way; two windows share the one
pairing; two phones race for a token; the daemon restarts or fails to save
between an approval and its answer.

What makes it correct: only the phone whose code the user allowed becomes a
device; what a phone hears agrees with the store; a raced token pairs nobody; no
dialog hangs.

### The rest

| component | state | what is hard there | here |
|---|---|---|---|
| orchestrator (`sheprd-orchestrator`) | per-repository store, claims, SSH slots, provider tokens | two apps claiming one issue; renewal racing use | planned |
| push relay (`sheprd-push-relay`) | registrations, rate limits | limits across restarts | planned |
| Teleport (`sheprd-remote`) | a job's steps on two hosts | failure of one step of several | planned |
| core client (`sheprd-core-client`) | pending calls, event stream | as the connection, simpler | candidate |
| agent chat program (`sheprd-acp`), chat and control wires | transcript, attach clients | replay to a client that attaches late | candidate |
| desktop app (`sheprd-gpui`) | UI state | reconnect fencing, fan-out of a request | not modelled: rendering |
| version control, GitHub, usage, updater, credentials, diagnostics, nearby, APNs | caches, processes, files | I/O of other programs | not modelled |
| terminal emulator, mods, catalogs, languages, launcher, wire types | pure data | wide data, no concurrency | not modelled |

`PROJECT.json` lists every component with its sources and the reason where it is
left out, and every hazard with its line.

## Modules

| module | what it is |
|---|---|
| `SurfaceProjection` | messages from the daemon to the surfaces the owner paints |
| `OrderedRequests` | what a connection promises its owner about requests |
| `CommandPipeline` | commands from the owner to the wire, and their responses back; implements `OrderedRequests` |
| `WorkerWake` | the shared state between the owner's threads and the worker |
| `RunLedger` | what the automation daemon promises about the runs it records |
| `AutomationDaemon` | the daemon, its runs' threads and the commands on one database; implements `RunLedger` |
| `AgentCaps` | the agents runs start, the caps on them, the sampler |
| `CronWalk` | the search for a cron schedule's next time, against a direct definition |
| `FiringSchedule` | a trigger over its life: missed occurrences, cursors, the clock set back |
| `DevicePairing` | dialogs, phones, the daemon's pairing and its device store |
| `MC...` | instances for TLC, one cfg per question |
| `...Proofs` | theorems and proofs about the module they extend; `ScheduleProofs` is about both schedule modules |
| `SetSums` | lemmas on sums over finite sets, for the proofs |

`SurfaceProjection`, `CommandPipeline` and `WorkerWake` describe the same worker from three sides, each with the detail its
properties need. `SurfaceProjection` takes a handler as one step with blocking
emissions; `CommandPipeline` has the loop's program counter and the bytes on the
wire, in chunks; `WorkerWake` has single shared reads and writes. They meet in
assumptions that one makes and another checks: `CommandPipeline` lets the wait
end at any time and goes on; that a wait does end when there is something to do
is what `WorkerWake` is about, down to the one wake that can get lost.
`AutomationDaemon` takes a schedule as a set of occurrences and `due` as one
step; `FiringSchedule` opens that step, and `CronWalk` the occurrences.

Operators marked `mutant` in a module are not part of the specification. Each is
a plausible slip in one definition; the checks replace the definition by it and
expect the property named in `PROJECT.json` to fail.

### SurfaceProjection

State: `phase` and `encodings` (welcome), `snapshot`, `surface`,
`images`/`bytes`/`latest`/`shown` (the `ImageStore`), `outbox` (events of the
running handler), `channel`, the consumer's `view`, and the history `sent`.

- A message that fails a decoding, bounds or geometry check has `valid = FALSE`
  and ends the connection, as does every identity error.
- Cells are a tag: the boot and surface revision of the daemon surface they
  equal, or `None`. A full surface brings the right tag. A patch or delta from
  base `n` to `n + 1` yields the right tag only on the content of base `n`; the
  model does not assume that the baseline's revision says what its cells are,
  which is what `BaselineExact` establishes.
- `Admissions` is what `receive` may admit for any order of the assets.
- Events are delivered one at a time; no handler starts before the last one's
  events are out. Until then the next message stays unread on the socket, so
  `Idle` guards every receive action.

Unknown optional controls are ignored by the code and are stuttering steps. The
daemon's revisions are chosen freely, so a misbehaving daemon is included.

### OrderedRequests and CommandPipeline

`OrderedRequests` has the requests, the ones acted on, answered and rejected, and
four steps: the owner asks, the daemon acts on the next request, one not acted on
is rejected, the next one or two are answered. It knows of no lease, barrier or
wire. In `CommandPipeline` what was acted on is read off the daemon's history, and
what was rejected counts where it is a request; `KeepsOrder` is the refinement.

State of `CommandPipeline`: the handle's queue and image slots; the worker's `pc`, batch `round`,
held command and its progress; `pending`, `barrier`, `held`, `refused`,
`pipelining`; the inbound reader's state; both wires; the daemon's lease. The
histories are `requested`, `replies`, `rejected`, `executed` and `busied`.

- `Top` is a pass's checks and probe, `Batch` one iteration of the inner loop
  (one action per exit of its body), `Woken` and `Read...` the wait.
- A frame is one chunk, or a first and a last chunk. Further pieces in between
  change nothing that the code distinguishes.
- `reader` distinguishes a half-read frame whose prefix identifies a surface of
  the current identity (`permits_partial_input`) from any other.
- The daemon is external. As `barrier.rs` and the client's README describe it,
  it refuses a request while one is open, except that some versions take an
  activation first, and it may answer open requests in any order.
- Timeouts are actions: a deadline may pass at any time. Command validity
  (boot, advertised method) is the flag `ok`. Response chunks are assembled as
  whole messages.

### WorkerWake

State: queue, pipe, `owed` (operations between their store and their wake), the
two flags, for each image the upload's progress, the slot's channel and the
lease's fields; the worker's program counter down to single reads, the command it
holds with how far it was written, and of the session what decides whether the
worker may write: an unanswered request, the barrier, a half-read frame.

- The loop polls twice. `Poll`, `Room`, `Deadline` and `Drain` are the wait at its
  end (`session.rs:578`); `Peek` and `PeekDrain` the poll inside the batch
  (`session.rs:438`), which comes before input is written beside a half-read
  surface and empties the pipe too. `peeked` remembers, until the next wait ends,
  that it did.
- The batch is one action per exit of its body: `Resend`, `Take` (which looks at
  `stop`), `Fenced`, `Reject`, `AwaitLease`, `Continue`, `Write`, `WriteInput` and
  the image's four.
- Commands are input, which `Permits` lets past a half-read surface, plain ones,
  requests and images. Which frame a read completes and which command is rejected
  are left open.
- The cap on a wait (`IDLE_WAIT`, "only bounds the cost of a wake that was
  lost") is an action nothing is assumed of, but for `StopBounded`: with it a lost
  wake would be invisible.
- `Drop` of an upload follows Rust's field order: sender, wake, lease.
- `Drop` of a slot, the stores of `cancelled` and `finished` and its share of
  the lease, is one step.
- The Unix build. On Windows the wake is a no-op and reads time out.

### RunLedger and AutomationDaemon

`RunLedger` has two variables, the runs and the forms ever approved, and four
steps: allow, record, end, interrupt. `AutomationDaemon` keeps both as its own
variables, so the mapping is the identity on them and everything else is
hidden; `KeepsLedger` is the refinement.

State: the files and the clock; the database (approvals, switches, cursors,
rows, runs, requests); the daemon's memory with its program counter; the runs'
threads and the channel of ended runs; the command in progress.

- A statement on the database is one step. Commands of several statements, such
  as resume (switch, then cursors), have a step for each.
- `Crash` at any step takes memory and threads away and leaves the database;
  `StoreFails` ends the daemon with an error. `Serve` starts the next one. The
  history `asked` says that the last one ended because it was asked to.
- A pass is `tick`, `refresh`, the requests, then each script's schedule; a run
  is recorded, started, finished, counted and perhaps paused in separate steps,
  as in `start` and `finish`.
- Files change, plan or not, at any time, between being read and being run too.

The steps of a run are its end and whether it spent its budget. Events and
GitHub triggers, notifications and the log are left out.

### AgentCaps

Each agent step's thread goes through the script's cap, the host's, the mutex of
`Slots` and the count of rows, then starts the agent, records it and drops its
reservation. Herdr, which holds the panes, is external: an agent works, idles or
ends at will, a start may go unheard. The sampler reads panes one at a time and
writes a day's base and the sample as separate statements. What an agent has used
only grows; that `tokens_on` stops at zero (`store.rs:523`), for a reader that
comes upon a smaller session of the agent, is left out.

### CronWalk and FiringSchedule

`CronWalk` is the loop of `next_cron` on a small calendar with one change of the
clock. It has one month: the month field (`cron.rs:74`) would only make days not
match. The time zone library (jiff) is external and given by what its calls are
documented to return. `CronWalk`'s initial states and steps have names of their own
(`CronInit`, `CronNext`) so that one proof module extends both. `First` is the
reference: the first match among all minutes. `FiringSchedule` is `due` and the cursor: walks of at most `MissedWalk`
occurrences, at most `MissedPasses` passes, each restart nearer to now. Intervals
are computed as in the code; a time of day and a cron expression are given by the
set of their occurrences, and the search for the days of a time of day
(`next.rs:55-75`) is not modelled.

### DevicePairing

State: `pairings` (the open one and the outcomes remembered), `devices` and
`disk`, the bag `calls` of requests under way, each window's `dialog` and the
`ticket` its driver awaits, what each phone was `told`.

- `Send`, `Serve` and `Receive` are a request's three moments. Anything happens
  between them, and calls are served in any order, under the daemon's lock.
- `CloseDialog` drops the awaited call, which may or may not have gone out, and
  sends the cancellation as another call.
- `Answer` makes the awaited reply stale (the dialog's epoch) and clears the
  in-flight mark; a stale reply changes nothing.
- Expiry is a flag that any later operation notices (`refresh`), as the code
  notices it: nothing happens at the deadline itself.
- `Stored` is a save that succeeds, fails before the rename, or fails after it.
- A call fails before it is served (`CallFails`), or its client gives up on the
  answer after `RESPONSE_TIMEOUT` while the daemon serves it (`CallTimesOut`).

A claim's number stands for its code, its key and its device. Equal codes of two
claims (one in a million), rate limits, the handoff to a Home Screen app and the
fields of a device are left out; so is a dialog opened while remote control is
off, which does nothing. So are devices that come without a claim: a phone that
was allowed on another computer is enrolled by that computer's request (`enroll`,
`auth.rs:650`); `AllowedAsShown` is about the devices paired through a claim.

A nearby token is single use: once claimed it is no longer held, so using it again
while its claim waits is `InvalidToken` and voids nothing, where the comment at
`auth/pairing.rs:182-183` has "claiming it twice voids the pairing". The QR's
token, and the QR's beside the nearby one, do void it; that is `RacedIsVoid`.

## Runs

| run | specification | shows |
|---|---|---|
| `stream` | `SurfaceProjection` | exact baselines, image budget, fenced surfaces, pixels first |
| `live` | `SurfaceProjection`, fair | every emitted surface is seen; a gap closes at once |
| `navigation` | `CommandPipeline` | requests are acted on and answered in order (`KeepsOrder`), accounted for, earned; execution once, whole frames |
| `settle` | `CommandPipeline`, fair | every request settles |
| `fifo` | `CommandPipeline`, fair | the README's FIFO rule fails (below) |
| `wake` | `WorkerWake`, fair | no wake lost but a stop's to the batch's poll; one lease; commands and liveness are noticed without the cap, a stop with it |
| `automation` | `AutomationDaemon`, fair | the ledger is kept; rows, threads and live runs agree; failures pause; paused time is over; runs settle, unless the daemon was shut down for good |
| `agents` | `AgentCaps`, fair | the cap holds, agents at work are counted, a day's spending is right, reservations end |
| `cron` | `CronWalk`, fair | the walk finds the first match and ends |
| `cron_half_hour` | `CronWalk`, fair | a clock set back by half an hour: it does not end (below) |
| `firing` | `FiringSchedule`, fair | the latest missed occurrence fires, intervals go forward, nothing is lost |
| `pairing` | `DevicePairing`, fair | allowed as shown, told as kept, raced is void, dialogs settle |

Deadlock checking is off everywhere: connections end, dialogs close, and the
counters that bound a run run out.

### Bounds

- `stream`: two boots make a changed boot possible (they are symmetric); two
  projection revisions make a surface early, current or late; three surface
  revisions make a chain of two updates. Two images fit singly and not
  together, so pruning and the byte limit interact. Channel capacity one
  blocks inside a handler.
- `live`: two images of which the count admits one, all encodings, capacity two.
- `navigation`: three commands of any kind: a focus, an activation and what
  overtakes them; capacity and batch limit two are both reached; both kinds of
  daemon version and both behaviours of its busy check; a remote link with
  probes, at most two unread chunks before a probe (`MaxUnread`). No surface is
  half read here, so `FramesIntact` is exercised by images in pieces; for input in
  pieces it is the theorem.
- `settle`: two commands, of which either may be an image that never comes or
  input written in pieces beside a half-read surface.
- `wake`: three commands in four mixes (`MixesAround`): two uploads that race for
  the lease; an activation behind a focus with input behind both; input in a row;
  input behind a command that a half-read surface fences. Queue capacity one (both
  refusals happen), batch limit two (a resend takes one of its iterations, and
  batches are cut off), one operation in flight besides each upload's own.
- `automation`: each behaviour keeps one of five budgets (`Around`), each with
  the commands, edits, faults and clock steps of one kind of story: a script
  that changes, a firing that could repeat, runs told to stop, scripts paused
  while no daemon runs, runs that fail in a row. All have a crash. One script
  suffices because scripts share only the requests and the paused-all flag;
  two failures in a row pause, so the run after the pause is reached with three.
- `agents`: two agents of two scripts race for one slot; two days; one fault.
- `cron`: a day of three hours of two minutes, a week of two days; six starting
  points inside and between minutes; every combination of the fields' shapes;
  changes of the clock by an hour either way and none.
- `firing`: passes of three occurrences, four passes, twelve time units: walks
  run out and restart; one step back of the clock.
- `pairing`: four budgets (`Ways`): two windows on one pairing; a QR that
  rotates beside a nearby token; one fault with a reopened dialog; two faults
  in a row in one. Two claims, one outcome remembered, so that a phone may ask
  too late.

### Fairness

- `live`: `Deliver`, because `deliver` retries its bounded send until it
  succeeds or is stopped; `Consume`, because the crate requires its owner to
  drain the receiver. Nothing is assumed of the daemon.
- `settle`: the worker's loop (weak), and strong fairness of the deadlines,
  because a deadline that has passed stays passed and each pass checks it. The
  daemon may stop answering and the owner may never publish an image.
- `wake`: the worker and the threads that owe a wake keep running. Nothing
  is assumed of deadlines, of the peer, of room in the socket or of the wait's cap;
  `StopBounded` names the cap as its hypothesis.
- `automation`: a daemon that crashed or failed is started again, because the
  service does that ("starts it at login and after a crash", `service.rs`); one
  that was asked to shut down is not ("A clean shutdown stays down."), and
  `RunsSettle` allows for the row such a shutdown may leave. The daemon's loop goes
  on, and a run's thread ends (its wall time is bounded). Users owe nothing.
- `agents`: a step's thread goes on; its calls of Herdr have a deadline.
- `cron`, `firing`: the loop of a check goes on.
- `pairing`: the driver sends and receives, the daemon serves each connection,
  and an unanswered claim's two minutes pass. Users and phones owe nothing.

### Findings

Two are runs:

- `fifo`: `crates/sheprd-client/README.md:359-360` says "A waiting request holds
  later commands in FIFO order until the preceding response is complete". When
  the daemon refuses a pipelined activation as busy, the activation waits for the
  focus response to be resent. `session.rs:459` holds only commands that are
  requests themselves, so input issued after the activation is written, and acted
  on, before it. `OnlyRefusedOvertaken` states what does hold: nothing else is
  overtaken, and a refused activation never by a request.
- `cron_half_hour`: `next_cron` "Gives up after a year and a day". Where the
  clock is set back by half an hour, the start of the hour lies before the
  change, an hour on from it is where the walk already was, and the loop does
  not end.

The others have a configuration of their own, in which TLC finds the property
named violated:

| configuration | property | what the code does |
|---|---|---|
| `MCWorkerWake_stop` | `StopWakes` | the poll at `session.rs:438` empties the pipe after the batch looked at `stop`, and the wait that follows does not look at it: a stop in between waits for bytes, a deadline or the cap, against "Queued commands, `stop`, liveness requests, and image publication and cancellation wake it themselves" (`session.rs:290-291`) |
| `MCAutomationDaemon_all` | `AllPausedTimeIsOver` | resume of all scripts leaves the cursors alone; a daemon started afterwards fires for the time they were paused |
| `MCAutomationDaemon_resume` | `NothingForPausedTime` | a daemon that starts between resume's two writes fires for the paused time |
| `MCAutomationDaemon_disabled` | `DisabledUntilEnabled` | a run that spends its budget writes the switch with `disabled` false |
| `MCAutomationDaemon_rows` | `RowsAsLastSeen` | a script edited, approved and edited back between two scans keeps the row its approval wrote |
| `MCAgentCaps_stray` | `HostCap` | an agent whose start went unheard, or whose row was not written, is not counted |
| `MCCronWalk_midnight` | `NextIsFirst` | where the clock jumps over midnight, the next day's first hour is skipped |
| `MCFiringSchedule_burst` | `LatestMissed` | a burst that fills a pass, followed by nothing, loses its last occurrences |
| `MCDevicePairing_closed` | `ClosedStopsTokens` | a dialog closed while it asks for a QR cancels nothing; the pairing it asked for stays claimable, against "so its token stops working at once" (`remote/dialog.rs:38`) |
| `MCDevicePairing_undo` | `MemoryOnDisk` | a failed sync of the directory after the rename is undone in memory only, against "memory never claims what the disk lacks" (`auth/devices.rs:311`) |

## Proofs

All theorems hold for every value of the constants that satisfies the named
assumptions: capacities are positive; `None` and the empty boot are not values;
image sizes are positive; there are finitely many image keys (a key is a few
integers of fixed width) and finitely many agents; a batch has at least two
iterations (16 in the code); `REMEMBERED_OUTCOMES` is at least one; no window is named `"none"`.

Each step lemma has one case per action. The theorems of invariance end with the
temporal rule. Every inductive invariant was checked with TLC before its proof.

### The connection

`SurfaceProjectionProofs`: `TypeCorrect`, `BaselineIsExact` and `PixelsAreKept`
rest on an invariant that adds two parts to the types:
`Scene`, which says whose references `latest` and `shown` are (those of the
retained and of the emitted surface), and `Fence`, which says that the emitted
surface is at most as new as the retained one, and older whenever the retained
one is still waiting. Without `Scene`, pruning by `latest` and `shown`
says nothing about the emitted surface's pixels; without `Fence`, a released
surface could repeat the emitted one.

`GapIsClosed`, `ArrivalIsFenced` and `PixelsArriveFirst` are about what the
owner takes out of the channel, many steps after the worker decided to emit it.
`InFlight` connects the two ends: the events in `channel \o outbox`, applied one
after the other, lead from the consumer's `view` to the worker's `sent`, and
each is `Proper` at the point where it arrives, that is, fenced by the snapshot
ahead of it and preceded by its pixels. The proof shows that a handler's events
continue the chain at its far end, a delivery leaves it as it is, and the
consumer takes the near end off. `StoreIsBounded` says that the byte account is
the sum over the stored images through every receive, replacement and prune; it
needs the sums below.

`CommandPipelineProofs`: `TypeCorrect`, `ResponsesOrdered` and
`HeldNeverStranded`. That responses are in order follows from an order of
everything alive: queued commands are later than the held one, that one later
than the barrier, the barrier later than the pending request, and that later
than every response emitted. `HeldAwaitsFocus` is part of the induction, since
a held response without its focus would be emitted out of turn. Nothing is
assumed about the order in which the daemon answers.

Its second half, on that order, is about the wire: `FramesStayIntact`,
`ActsOnce`, `OvertakesOnlyRefused` and `RequestsAreAccounted`. The invariant
`WInv` adds four parts. `Numbered`: commands have numbers within the bound.
`Frames`: what is on the wire is made of whole frames, and ends inside one
exactly when the worker holds a command it wrote in part. `Wire`: what was sent
is older than what the worker still holds, except an activation the daemon
refused, which is then nowhere else; and no request is sent past the barrier.
`Accounts`: each request has its place. Without the exception for the refused
activation a resend would be a second execution.

Its third part is about what is answered: `AnswersAreEarned`, `NoneUnsolicited`
and `OnlyActivationsRefused`. `Earned` says that a request that is out is awaited
and in one place: whole on the wire, begun by the daemon, or answered in a
response not yet read (`Places`); that only the barrier is ever refused, and any
other response, read, held or delivered, is to what the daemon acted on
(`Truthful`); and that nothing rejected was sent. That a request finds the daemon
busy only if it is the barrier takes the order on the wire: the one begun before
it is awaited and older, so it is the pending request and this the activation
behind it. So the `UnsolicitedResponse` exit is never taken, however answers,
refusals and resends cross.

`ConnectionKeepsOrder` is the refinement of `OrderedRequests`. It needs two facts
more (`PInv`): requests are told from other commands by their number
(`AllKnown`), and the pending request is on the wire or was acted on
(`Underway`). With them the next request acted on is the first unsettled one:
an earlier one would be waiting, and then later than what was sent; or be the
barrier, past which no request is sent; or the pending one, and then ahead of it
on the wire. That a delivery answers the next requests follows from the invariants
of the state it leads to.

`WorkerWakeProofs`: `TypeCorrect`, `WakesAreNotLost`, `LeaseIsUnique` and
`FinishedIsExact`. `Places` says where commands are: ids not given out are
nowhere, a reserving slot is not with the worker, a command is in one place.
`Hands` says what the worker holds at each point of the batch. `LeaseUnique` and
`LeaseFlag` are the lease. `Looked` says, for each thing the owner stores, from
which point of the loop on a wake must be coming: the stop flag from the top on,
unless the batch's poll emptied the pipe; a slot's news once the batch is over;
the queue and a liveness request only from the wait on, because the timeout is
computed from both. That the poll in the batch costs nothing but a stop's wake has
two reasons. The queue and the liveness flag are looked at again for the timeout,
after it. And an image in hand when the batch ends was looked at last in it,
after any poll; the batch does not reach its limit before it looks, since a held
command comes first in it, at most behind one resend. `Looked` says that too, and
it is where a batch needs two iterations.

### Automations

`AutomationDaemonProofs`, for any scripts, schedules, number of runs, crashes,
edits and commands. `TypeCorrect` comes first. `DaemonKeepsLedger` is the
refinement of `RunLedger`: the initial state maps to its initial state, and every
step of the daemon, of a thread, of a command or of a crash is a step of the
ledger or changes nothing it shows. The steps need `Serving`: a daemon
that is down has no runs, threads or ends, and at each place of its loop the
locals it goes on with are still good (`Base`); what can start a run was approved
by a person, also when the script changed between the check and the start
(`Approvals`); and the script's live run is a row that says running,
with one thread or one end in the channel (`RunsInv`), of which
`RunningRowsAreLive` and `LiveRunsHaveThreads` are parts. `FailuresPause` is
inductive on top of `Serving`: a finish writes the row and the switch in two
statements, and the invariant says what a kill between them leaves.
`PausedTimePasses` needs `Over`: a time that passed while a script was off is
behind its cursor unless the script is off still, and a check that has found the
script on and not yet read the cursor keeps to that.

`AgentCapsProofs`: `CapIsKept`, `WorkIsCounted`, `DayIsBooked` and
`SpendingIsExact`, for any agents and any cap. The cap holds because what the
holder of the mutex counted can only shrink while it holds it (`Counted`): a row
written meanwhile is that of an agent with a reservation, which is counted
either way. `Started` says an agent runs from its start on and has a row, is
about to get one, or is lost track of. For spending, `DayBooked` states the books
agent by agent, and `Books` that none is open for a day the sampler has not come
to; the sum over the agents follows with the lemmas below.

`ScheduleProofs`, about `FiringSchedule`: `IntervalsFireForward`, for any
interval, any limits of the walk and a clock set back any number of times. The
property compares a firing with all earlier ones, which the daemon does not keep:
`Behind` says none is after the cursor's, `Since` that a walk has come only to
occurrences after what was checked; the step is that an interval's next
occurrence is after its anchor, wherever the walk stands.

`FewMissedFireLatest` is `LatestMissed` of any schedule as long as the first pass
does not run out. `IntervalsFireLatest` is `LatestMissed` of intervals without
that condition, where a pass holds at least three occurrences and there are at
least three passes; the code has 10000 and 32 (`next.rs:13,15`). `Pace` is the
reason: a pass that ran out went over at least all but one of its intervals, so
the half of it that a restart keeps holds another occurrence; and a pass that
does not start behind its anchor goes over no more than its limit of intervals,
so that the third is the last. `Complete` says of a walk that it stands at the
last occurrence it came to, or where it began, or has one ahead. The limits
cannot be lower: with two occurrences and four passes, three and two, or one and
three, TLC finds `LatestMissed` of an interval violated.

About `CronWalk`: `CronFiresNext` is `NextIsFirst` for any calendar, cron and
limit, in `Regular` zones, and `CronWalkGoesForward` the part of `WalkEnds` that
is a safety property: each turn moves the walk forward, so there are no more of
them than instants up to the limit. `Regular` says that the clock changes on the
hour by whole hours, and that no midnight is jumped over or shown and undone; all
of it is needed. A change by half an hour is the finding `cron_half_hour`, a
midnight jumped over `MCCronWalk_midnight`; and where a clock is set back over a
midnight, the next day begins before the walk's place. `DaylightSaving` shows
that a change by an hour on an hour that is not midnight is regular, as is each
of the run `cron`. The invariant `CInv` says the walk went over no minute that
matches: a skipped day or hour is one whose every minute has the day or the hour
that did not match, which is where the midnights are needed.

### Pairing

`DevicePairingProofs`: `TypeCorrect`, `AllowedIsShown` and `RaceVoids`, for any
windows, any number of claims, and saves that fail before or after the rename.
Neither property is inductive. `Approving` adds that an approval on the wire, or
given and not yet sent, is for a claim the user allowed, and that an answer
belongs to a dialog still showing its claim: without the second half a reply
could move an answer to another code. `Pending` adds that claims are numbered
as they are made, and that the pending one is in no store and was not raced for:
without it a claim could be voided after it was stored, or stored under a number
already voided. A detached approval, sent by a dialog that has since closed, is
covered by `Approving`; a daemon restart by `disk` being in both properties.
The lemmas on `Settle`, `Refresh`, `Mint` and `Claimed` say what they do to the
open claim, and one lemma per action carries the invariant.

`ToldIsKept` and `MemoryIsOnDisk` have one more hypothesis, that saves fail only
before the rename; the run `pairing` has it too. It is needed:
`MCDevicePairing_undo` shows the failure after the rename. The invariant `Told`
says that memory and disk agree, that every outcome remembered or heard agrees
with the disk, and that the pending claim has none yet.

### Sums over sets

`SetSums` proves what `MapThenSumSet` computes: that there is a function that
adds up a finite set in the order in which `CHOOSE` takes it apart, that its
values are numbers, do not depend on that order, and add over disjoint sets. The
library's induction cannot be used, so the proofs take a set of the least size for
which the claim fails (`Least`, from the well-foundedness of the naturals) and
show that it does not.

### Only model-checked

Liveness (`EmittedIsSeen`, `RequestsSettle`, `StopEnds`, `StopBounded`,
`QueuedIsTaken`, `LivenessHeard`, `RunsSettle`, `ReservationsEnd`, `WalkEnds`,
`OccurrencesFired`, `DialogSettles`) is out of the prover's reach. Every safety
property of the passing runs has a theorem. Three have a hypothesis, because
without it they are false: `LatestMissed` of calendars that fill a pass
(`MCFiringSchedule_burst`), `NextIsFirst` in zones that are not regular
(`MCCronWalk_midnight`), `ToldAsKept` after a failed sync (`MCDevicePairing_undo`).

Two are narrower than they sound. `FiresForward` compares sets, so a second firing
for the same time is not its matter but the ledger's. `OccurrencesFired` is about
calendars; an interval has no occurrences but those counted from its last firing.

## Plan

Done: the connection's three modules, with an abstract specification of its
requests; automations with an abstract ledger; schedules; pairing; theorems for
every safety property of the passing runs.

1. `HostLinks` (`auth/links.rs`): a phone paired with other hosts, keys replaced,
   revocations owed while a host is away.
2. `Orchestrator`: claims, slots and token renewal.
3. `Teleport`: the job's steps with failure and rollback.

## Not modelled

Most of the repository is rendering and UI state (`sheprd-gpui`), wide data
(terminal emulator, wire types, catalogs, languages) and the I/O of other
programs (version control, GitHub, cloud providers, ssh). There a model would
restate the code, or what would have to be checked lies in the other program.
`PROJECT.json` gives the reason for each component.

## Running

    tlc -workers 2 -config MCCommandPipeline_navigation.cfg MCCommandPipeline
    tlapm WorkerWakeProofs.tla
