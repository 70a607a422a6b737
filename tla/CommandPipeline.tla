---------------------------- MODULE CommandPipeline ----------------------------
(***************************************************************************)
(* How one connection's worker puts the owner's commands on the wire and    *)
(* matches the daemon's responses to them (sheprd-client/src/session.rs,    *)
(* run_connection and the response arm of handle_message;                   *)
(* session/barrier.rs; frame.rs; the command queue of queue.rs).            *)
(*                                                                          *)
(* Commands leave a bounded FIFO.  The daemon has one API lease per         *)
(* connection, so a request waits, with everything behind it, for the       *)
(* response to the one before.  The one exception: a surface activation     *)
(* directly behind a focus request is written at once, as a `barrier`; if   *)
(* the daemon answers it first the response is held, and if it refuses it   *)
(* as busy it is resent after the focus response.  Input to the focused     *)
(* pane may also be written while a surface frame is half read, in bounded  *)
(* steps; it and images are the only frames that reach the wire in pieces.  *)
(*                                                                          *)
(* The loop is modelled with its program counter: "top" (timeouts, health   *)
(* probe), "batch" (at most BatchLimit iterations), "wait" (poll, one       *)
(* read).  A frame the socket takes whole is one chunk; one it takes in     *)
(* part is a "first" and a "last" chunk.  Responses are whole messages: the *)
(* assembly of their chunks is data.                                        *)
(***************************************************************************)
EXTENDS Integers, Sequences, FiniteSets

CONSTANTS
  MaxCommands,    \* bound on the commands the owner issues
  OwnerKinds,     \* the kinds of command the owner issues
  Valid,          \* whether they may name a wrong boot or method: values of ok
  QueueCapacity,  \* COMMAND_CAPACITY
  BatchLimit,     \* iterations of one batch (16 in the code)
  MaxSurfaces,    \* bound on the surface frames the daemon sends
  Versions,       \* what verified_ordering may say of the daemon's version
  Exemptions,     \* whether the daemon handles an activation before its busy check
  Remote,         \* an SSH or WSL link, which is probed
  MaxUnread,      \* bound on the chunks the daemon has not read when a probe is due
  None            \* no command, no request

Requests == {"focus", "activate", "call"}
Kinds == Requests \cup {"input", "plain", "image"}

(* ok: the command names the connection's boot and an advertised method. *)
Commands == [id : Nat, kind : Kinds, ok : BOOLEAN]

(* An image's slot: being prepared, published, closed by its owner, or      *)
(* cancelled (ImageSlot.receiver and ImageLease.cancelled).                 *)
SlotStates == {"preparing", "published", "closed", "cancelled"}

(* Progress of the worker-held command's frame (Command.written, or the     *)
(* image's writer): not tried, tried with nothing taken, or on the wire.    *)
Progress == {"none", "attempted", "partial"}

ASSUME BoundsAssumption ==
  /\ MaxCommands \in Nat
  /\ OwnerKinds \subseteq Kinds
  /\ Valid \subseteq BOOLEAN
  /\ QueueCapacity \in Nat \ {0}
  /\ BatchLimit \in Nat \ {0}
  /\ MaxSurfaces \in Nat
  /\ Versions \subseteq BOOLEAN
  /\ Exemptions \subseteq BOOLEAN
  /\ Remote \in BOOLEAN
  /\ MaxUnread \in Nat
  /\ None \notin Commands

VARIABLES
  issued,     \* commands issued so far; ids are 1..issued
  requested,  \* history: the ids that are requests
  queue,      \* the bounded command queue
  slot,       \* slot[id]: the image slot of command id
  pc,         \* "top", "batch", "wait" or "ended"
  round,      \* iterations of the running batch
  queued,     \* the worker-held command
  written,    \* its progress
  pending,    \* Session.pending: the request holding the lease
  barrier,    \* Session.barrier: the pipelined activation
  held,       \* Barrier.held: its response waits for the focus response
  refused,    \* Barrier.refused
  pipelining, \* Session.pipeline_barriers
  probing,    \* Health.ping: a probe is unanswered
  reader,     \* FrameReader: "idle", or mid-frame in a "current" surface or "other"
  replies,    \* history: ids of the responses emitted, in order
  rejected,   \* history: ids answered by CommandRejected
  toDaemon,   \* chunks on the wire
  toClient,   \* messages on the wire
  assembling, \* the daemon's half-received frame
  open,       \* requests the daemon has begun and not answered
  executed,   \* history: commands the daemon acted on, in order
  busied,     \* history: ids the daemon refused as endpoint_busy
  exempt,     \* it handles an activation before its busy check
  surfaces    \* surface frames sent so far

owner == <<issued, requested, queue, slot>>
session == <<pending, barrier, held, refused, pipelining>>
inbound == <<reader, probing>>
worker == <<pc, round, queued, written, session, inbound>>
events == <<replies, rejected>>
daemon == <<assembling, open, executed, busied, exempt, surfaces>>
vars == <<owner, worker, events, toDaemon, toClient, daemon>>

Whole(c) == [cmd |-> c, part |-> "whole"]
First(c) == [cmd |-> c, part |-> "first"]
Last(c)  == [cmd |-> c, part |-> "last"]
Ping == [cmd |-> None, part |-> "whole"]

-----------------------------------------------------------------------------
(* The owner's handle *)

QueueHasRoom == Len(queue) < QueueCapacity

(* enqueue, reserve_clipboard: refused when the connection is over or the   *)
(* queue is full (the owner gets an error; nothing is queued).              *)
Enqueue ==
  /\ pc # "ended"
  /\ issued < MaxCommands
  /\ QueueHasRoom
  /\ \E kind \in OwnerKinds, ok \in Valid :
       /\ queue' = Append(queue, [id |-> issued + 1, kind |-> kind, ok |-> ok])
       /\ issued' = issued + 1
       /\ requested' = IF kind \in Requests THEN requested \cup {issued + 1} ELSE requested
  /\ UNCHANGED <<slot, worker, events, toDaemon, toClient, daemon>>

(* publish: only into a slot that is neither cancelled nor closed. *)
PublishImage(id) ==
  /\ slot[id] = "preparing"
  /\ slot' = [slot EXCEPT ![id] = "published"]
  /\ UNCHANGED <<issued, requested, queue, worker, events, toDaemon, toClient, daemon>>

(* The upload is dropped without publishing. *)
CloseImage(id) ==
  /\ slot[id] = "preparing"
  /\ slot' = [slot EXCEPT ![id] = "closed"]
  /\ UNCHANGED <<issued, requested, queue, worker, events, toDaemon, toClient, daemon>>

(* ClipboardImageCancellation::cancel *)
CancelImage(id) ==
  /\ slot[id] # "cancelled"
  /\ slot' = [slot EXCEPT ![id] = "cancelled"]
  /\ UNCHANGED <<issued, requested, queue, worker, events, toDaemon, toClient, daemon>>

IsImage(id) == \E c \in {queue[i] : i \in DOMAIN queue} \cup ({queued} \ {None}) :
                 c.id = id /\ c.kind = "image"

Owner == \/ Enqueue
         \/ \E id \in 1..MaxCommands :
              IsImage(id) /\ pc # "ended"
                             /\ (PublishImage(id) \/ CloseImage(id) \/ CancelImage(id))

(* disconnect, the last handle dropped, the event receiver dropped, a lost  *)
(* transport: the worker ends; nothing queued is flushed or replayed.       *)
End == pc' = "ended" /\ UNCHANGED <<owner, round, queued, written, session, inbound, events,
                                    toDaemon, toClient, daemon>>

Stop == pc # "ended" /\ End

-----------------------------------------------------------------------------
(* The top of the loop *)

Started(c) == c # None /\ c = queued /\ written = "partial"
InputAttempted == queued # None /\ queued.kind # "image" /\ written # "none"
PartialOut == Started(queued) \/ InputAttempted

(* check_timeouts: a request unanswered for COMMAND_TIMEOUT ends the        *)
(* connection; it is not replayed.                                          *)
RequestTimeout(id) ==
  /\ pc = "top"
  /\ \E c \in {pending, barrier} \ {None} : c.id = id
  /\ End

(* FrameReader::check_timeout, the input and image write deadlines. *)
FrameTimeout ==
  /\ pc = "top"
  /\ reader # "idle" \/ written # "none"
  /\ End

(* Health::tick: a probe stays unanswered past its deadline. *)
HealthTimeout ==
  /\ pc = "top"
  /\ probing /\ ~PartialOut
  /\ End

ProbeAnywhere == Remote /\ ~probing \* mutant: a probe may split a partial frame

(* A probe is a frame too: it never goes out inside a partial one, and one  *)
(* is outstanding at a time.  Whether it is due (a quiet link, a liveness   *)
(* request) is left open.                                                   *)
MayProbe == Remote /\ ~probing /\ ~PartialOut

Top ==
  /\ pc = "top"
  /\ IF Started(queued) /\ queued.kind = "image" /\ slot[queued.id] = "cancelled"
       THEN End
       ELSE /\ pc' = "batch"
            /\ round' = 0
            /\ \E ping \in BOOLEAN :
                 /\ ping => MayProbe /\ Len(toDaemon) < MaxUnread
                 /\ toDaemon' = IF ping THEN Append(toDaemon, Ping) ELSE toDaemon
                 /\ probing' = (probing \/ ping)
            /\ UNCHANGED <<owner, queued, written, session, reader, events, toClient, daemon>>

-----------------------------------------------------------------------------
(* One iteration of the batch *)

(* `continue` and `break`: the next iteration, or the wait. *)
Continue == round' = round + 1 /\ pc' = "batch"
Break == round' = round /\ pc' = "wait"

InBatch == pc = "batch" /\ round < BatchLimit

ResendAlways == pending = None /\ barrier # None \* mutant: resends what was not refused

ResendReady == pending = None /\ barrier # None /\ refused

(* take_refused_barrier, tried before a command is taken. *)
ResendFirst == InBatch /\ reader = "idle" /\ ~PartialOut /\ ResendReady

Resend ==
  /\ ResendFirst
  /\ toDaemon' = Append(toDaemon, Whole(barrier))
  /\ pending' = barrier
  /\ barrier' = None /\ held' = FALSE /\ refused' = FALSE
  /\ Continue
  /\ UNCHANGED <<owner, queued, written, pipelining, inbound, events, toClient, daemon>>

(* The command this iteration works on: the held one, else the queue's head. *)
Current == IF queued # None THEN queued ELSE Head(queue)
Available == InBatch /\ ~ResendFirst /\ (queued # None \/ queue # <<>>)

Unqueue == queue' = (IF queued # None THEN queue ELSE Tail(queue)) /\ UNCHANGED <<issued, requested>>
(* It leaves the worker, *)
Dispose == Unqueue /\ queued' = None /\ written' = "none"
HoldForgets(progress) == Unqueue /\ queued' = None /\ written' = "none" \* mutant

HoldAtTail(progress) == \* mutant: put back behind what was queued after it
  /\ queue' = Append(IF queued # None THEN queue ELSE Tail(queue), Current)
  /\ queued' = None /\ written' = "none"
  /\ UNCHANGED <<issued, requested>>

(* or is held, with this much of it written. *)
Hold(progress) == Unqueue /\ queued' = Current /\ written' = progress

(* permits_partial_input: small input to the focused pane beside a surface  *)
(* of the current identity, and no request outstanding.                     *)
PermitsPartialInput(c) ==
  /\ reader = "current"
  /\ pending = None /\ barrier = None
  /\ c.kind = "input" /\ c.ok

(* One bounded write, resumed: the socket takes the rest, part, or nothing. *)
WriteSome ==
  LET on == written = "partial"
  IN  \/ /\ toDaemon' = Append(toDaemon, IF on THEN Last(Current) ELSE Whole(Current))
         /\ Dispose
      \/ /\ toDaemon' = IF on THEN toDaemon ELSE Append(toDaemon, First(Current))
         /\ Hold("partial")
      \/ /\ toDaemon' = toDaemon
         /\ Hold(IF on THEN "partial" ELSE "attempted")

Finished == queued' = None

(* Input already on the wire finishes before anything else is considered. *)
ResumeInput ==
  /\ Available
  /\ Current.kind # "image" /\ Started(Current)
  /\ WriteSome
  /\ IF Finished THEN Continue ELSE Break
  /\ UNCHANGED <<slot, session, inbound, events, toClient, daemon>>

(* A half-read inbound frame holds every command but permitted input, and   *)
(* that too while more of the frame is readable.                            *)
Fenced(readable) == /\ reader # "idle"
                    /\ ~Started(Current)
                    /\ ~PermitsPartialInput(Current) \/ readable

FenceHolds ==
  /\ Available
  /\ \E readable \in BOOLEAN : Fenced(readable)
  /\ Hold(IF queued # None THEN written ELSE "none")
  /\ Break
  /\ UNCHANGED <<slot, session, inbound, events, toDaemon, toClient, daemon>>

(* Past both: the rest of the iteration may look at the command itself. *)
Reached ==
  /\ Available
  /\ ~(Current.kind # "image" /\ Started(Current))
  /\ ~Fenced(FALSE)

Reject ==
  /\ Reached
  /\ ~Current.ok
  /\ rejected' = rejected \cup {Current.id}
  /\ Dispose
  /\ Continue
  /\ UNCHANGED <<slot, session, inbound, replies, toDaemon, toClient, daemon>>

Pipelines(c) ==
  /\ pipelining
  /\ barrier = None
  /\ c.kind = "activate"
  /\ pending # None /\ pending.kind = "focus"

LeaseTaken(c) ==
  /\ c.kind \in Requests
  /\ pending # None \/ barrier # None
  /\ ~Pipelines(c)

(* A request behind an outstanding one waits, and holds what is behind it. *)
LeaseHolds ==
  /\ Reached
  /\ Current.ok
  /\ LeaseTaken(Current)
  /\ Hold(IF queued # None THEN written ELSE "none")
  /\ Break
  /\ UNCHANGED <<slot, session, inbound, events, toDaemon, toClient, daemon>>

Sendable == Reached /\ Current.ok /\ ~LeaseTaken(Current)

(* The image arm.  A cancelled slot is skipped, or ends the connection when *)
(* part of its frame is out. *)
ImageCancelled ==
  /\ Sendable
  /\ Current.kind = "image" /\ slot[Current.id] = "cancelled"
  /\ IF Started(Current)
       THEN End
       ELSE /\ Dispose /\ Continue
            /\ UNCHANGED <<slot, session, inbound, events, toDaemon, toClient, daemon>>

ImageKept == \* mutant: a slot its owner dropped is held like one still preparing
  /\ Sendable
  /\ Current.kind = "image" /\ slot[Current.id] = "closed"
  /\ Hold("none") /\ Break
  /\ UNCHANGED <<slot, session, inbound, events, toDaemon, toClient, daemon>>

(* A slot whose owner dropped it unpublished is skipped. *)
ImageClosed ==
  /\ Sendable
  /\ Current.kind = "image" /\ slot[Current.id] = "closed"
  /\ Dispose /\ Continue
  /\ UNCHANGED <<slot, session, inbound, events, toDaemon, toClient, daemon>>

(* One still being prepared is held, and what is behind it with it. *)
ImagePreparing ==
  /\ Sendable
  /\ Current.kind = "image" /\ slot[Current.id] = "preparing"
  /\ Hold("none") /\ Break
  /\ UNCHANGED <<slot, session, inbound, events, toDaemon, toClient, daemon>>

(* A published one gets one bounded write; the batch then always yields to  *)
(* the reader.                                                              *)
ImageWrites ==
  /\ Sendable
  /\ Current.kind = "image" /\ slot[Current.id] = "published"
  /\ WriteSome
  /\ Break
  /\ UNCHANGED <<slot, session, inbound, events, toClient, daemon>>

(* Preparation took longer than COMMAND_TIMEOUT. *)
ImageExpires ==
  /\ Sendable
  /\ Current.kind = "image"
  /\ slot[Current.id] = "preparing"
  /\ slot' = [slot EXCEPT ![Current.id] = "cancelled"]
  /\ rejected' = rejected \cup {Current.id}
  /\ Dispose /\ Continue
  /\ UNCHANGED <<session, inbound, replies, toDaemon, toClient, daemon>>

(* Input beside a half-read frame, or once attempted: bounded writes only. *)
WriteBounded ==
  /\ Sendable
  /\ Current.kind # "image"
  /\ reader # "idle" \/ InputAttempted
  /\ WriteSome
  /\ IF Finished THEN Continue ELSE Break
  /\ UNCHANGED <<slot, session, inbound, events, toClient, daemon>>

(* write_all, then the request becomes the pending one, or the barrier      *)
(* behind it.                                                               *)
WriteAll ==
  /\ Sendable
  /\ Current.kind # "image"
  /\ reader = "idle" /\ ~InputAttempted
  /\ toDaemon' = Append(toDaemon, Whole(Current))
  /\ IF Current.kind \notin Requests
       THEN UNCHANGED session
       ELSE IF pending # None
         THEN /\ barrier' = Current /\ held' = FALSE /\ refused' = FALSE
              /\ UNCHANGED <<pending, pipelining>>
         ELSE /\ pending' = Current
              /\ UNCHANGED <<barrier, held, refused, pipelining>>
  /\ Dispose
  /\ Continue
  /\ UNCHANGED <<slot, inbound, events, toClient, daemon>>

(* Nothing to take, or the bound is reached. *)
BatchEnds ==
  /\ pc = "batch"
  /\ \/ round = BatchLimit
     \/ ~ResendFirst /\ queued = None /\ queue = <<>>
  /\ Break
  /\ UNCHANGED <<owner, queued, written, session, inbound, events, toDaemon, toClient, daemon>>

Batch == \/ Resend \/ ResumeInput \/ FenceHolds \/ Reject \/ LeaseHolds
         \/ ImageCancelled \/ ImageClosed \/ ImagePreparing \/ ImageWrites \/ ImageExpires
         \/ WriteBounded \/ WriteAll \/ BatchEnds

-----------------------------------------------------------------------------
(* The wait and the read *)

(* A wake, a deadline or room to write ends the wait without a read. *)
Woken ==
  /\ pc = "wait"
  /\ pc' = "top"
  /\ UNCHANGED <<owner, round, queued, written, session, inbound, events, toDaemon, toClient,
                 daemon>>

(* Part of the frame at the head arrived, with the prefix that identifies   *)
(* its surface or not yet; its bytes prove the link alive.                  *)
ReadPart ==
  /\ pc = "wait"
  /\ toClient # <<>>
  /\ \E prefix \in BOOLEAN :
       reader' = IF Head(toClient).kind = "current" /\ (prefix \/ reader = "current")
                   THEN "current" ELSE "other"
  /\ probing' = FALSE
  /\ pc' = "top"
  /\ UNCHANGED <<owner, round, queued, written, session, events, toDaemon, toClient, daemon>>

(* The frame is complete: reader.started is cleared and it is handled. *)
ReadFrame ==
  /\ pc = "wait"
  /\ toClient # <<>>
  /\ reader' = "idle"
  /\ probing' = FALSE
  /\ toClient' = Tail(toClient)

ReadSurface ==
  /\ ReadFrame
  /\ Head(toClient).kind # "response"
  /\ pc' = "top"
  /\ UNCHANGED <<owner, round, queued, written, session, events, toDaemon, daemon>>

BarrierUnheld(m) == \* mutant: the activation's response is delivered at once
  \/ /\ m.busy
     /\ refused' = TRUE
     /\ pipelining' = FALSE
     /\ UNCHANGED <<pending, barrier, held, replies>>
  \/ /\ ~m.busy
     /\ barrier' = None /\ held' = FALSE /\ refused' = FALSE
     /\ replies' = Append(replies, m.id)
     /\ UNCHANGED <<pending, pipelining>>

RefusalReported(m) == \* mutant: a refusal is taken for the activation's response
  \/ /\ pending # None
     /\ held' = TRUE
     /\ UNCHANGED <<pending, barrier, refused, pipelining, replies>>
  \/ /\ pending = None
     /\ barrier' = None /\ held' = FALSE /\ refused' = FALSE
     /\ replies' = Append(replies, m.id)
     /\ UNCHANGED <<pending, pipelining>>

(* The activation's response: a refusal is not reported; a response ahead   *)
(* of the focus response is held.                                           *)
BarrierAnswered(m) ==
  \/ /\ m.busy
     /\ refused' = TRUE
     /\ pipelining' = FALSE
     /\ UNCHANGED <<pending, barrier, held, replies>>
  \/ /\ ~m.busy
     /\ pending # None
     /\ held' = TRUE
     /\ UNCHANGED <<pending, barrier, refused, pipelining, replies>>
  \/ /\ ~m.busy
     /\ pending = None
     /\ barrier' = None /\ held' = FALSE /\ refused' = FALSE
     /\ replies' = Append(replies, m.id)
     /\ UNCHANGED <<pending, pipelining>>

(* The lease's response, and after it the one it held back. *)
PendingAnswered(m) ==
  /\ pending' = None
  /\ IF barrier # None /\ held
       THEN /\ replies' = Append(Append(replies, m.id), barrier.id)
            /\ barrier' = None /\ held' = FALSE /\ refused' = FALSE
            /\ UNCHANGED pipelining
       ELSE /\ replies' = Append(replies, m.id)
            /\ UNCHANGED <<barrier, held, refused, pipelining>>

(* Barrier::awaits *)
Awaits(m) == barrier # None /\ barrier.id = m.id /\ ~held /\ ~refused

ReadResponse ==
  /\ ReadFrame
  /\ Head(toClient).kind = "response"
  /\ LET m == Head(toClient)
     IN  \/ /\ Awaits(m)
            /\ BarrierAnswered(m)
            /\ pc' = "top"
         \/ /\ ~Awaits(m)
            /\ pending # None /\ pending.id = m.id
            /\ PendingAnswered(m)
            /\ pc' = "top"
         \/ /\ ~Awaits(m)
            /\ ~(pending # None /\ pending.id = m.id)
            /\ pc' = "ended"     \* UnsolicitedResponse
            /\ UNCHANGED <<session, replies>>
  /\ UNCHANGED <<owner, round, queued, written, rejected, toDaemon, daemon>>

-----------------------------------------------------------------------------
(* The daemon, as the code in src/ relies on it *)

Response(c, busy) == [kind |-> "response", id |-> c.id, busy |-> busy]

(* It reads a chunk.  A complete command is acted on, except a request that *)
(* finds the lease taken and is not exempt: that one is refused unprocessed.*)
DaemonReads ==
  /\ toDaemon # <<>>
  /\ LET chunk == Head(toDaemon)
         c == chunk.cmd
     IN  /\ toDaemon' = Tail(toDaemon)
         /\ assembling' = IF chunk.part = "first" THEN c ELSE None
         /\ IF chunk.part = "first" \/ c = None
              THEN UNCHANGED <<toClient, open, executed, busied>>
              ELSE IF /\ c.kind \in Requests /\ open # {}
                      /\ ~(exempt /\ c.kind = "activate")
                THEN /\ toClient' = Append(toClient, Response(c, TRUE))
                     /\ busied' = busied \cup {c.id}
                     /\ UNCHANGED <<open, executed>>
                ELSE /\ executed' = Append(executed, c)
                     /\ open' = IF c.kind \in Requests THEN open \cup {c} ELSE open
                     /\ UNCHANGED <<toClient, busied>>
  /\ UNCHANGED <<owner, worker, events, exempt, surfaces>>

(* It answers the requests it has begun, in any order. *)
DaemonAnswers ==
  /\ \E c \in open : /\ toClient' = Append(toClient, Response(c, FALSE))
                     /\ open' = open \ {c}
  /\ UNCHANGED <<owner, worker, events, toDaemon, assembling, executed, busied, exempt, surfaces>>

(* It sends a surface of the client's current identity, or another message  *)
(* (a surface of another identity, the answer to a probe).                  *)
DaemonDraws ==
  /\ surfaces < MaxSurfaces
  /\ \E kind \in {"current", "other"} : toClient' = Append(toClient, [kind |-> kind])
  /\ surfaces' = surfaces + 1
  /\ UNCHANGED <<owner, worker, events, toDaemon, assembling, open, executed, busied, exempt>>

-----------------------------------------------------------------------------
Init ==
  /\ issued = 0 /\ requested = {} /\ queue = <<>> /\ slot = [id \in 1..MaxCommands |-> "preparing"]
  /\ pc = "top" /\ round = 0 /\ queued = None /\ written = "none"
  /\ pending = None /\ barrier = None /\ held = FALSE /\ refused = FALSE
  /\ pipelining \in Versions       \* verified_ordering of the daemon's version
  /\ reader = "idle" /\ probing = FALSE
  /\ replies = <<>> /\ rejected = {}
  /\ toDaemon = <<>> /\ toClient = <<>>
  /\ assembling = None /\ open = {} /\ executed = <<>> /\ busied = {}
  /\ exempt \in Exemptions /\ surfaces = 0

Read == ReadPart \/ ReadSurface \/ ReadResponse

Worker == Top \/ Batch \/ Woken \/ Read

Timeout == FrameTimeout \/ HealthTimeout \/ \E id \in 1..MaxCommands : RequestTimeout(id)

(* What is in flight when the connection ends may be lost. *)
Daemon == pc # "ended" /\ (DaemonReads \/ DaemonAnswers \/ DaemonDraws)

Next == Owner \/ Stop \/ Worker \/ Timeout \/ Daemon

Spec == Init /\ [][Next]_vars

(* The worker's loop never stops of itself; a deadline that has passed stays *)
(* passed and every pass checks it.                                         *)
FairSpec ==
  /\ Spec
  /\ WF_vars(Worker)
  /\ SF_vars(ImageExpires)
  /\ SF_vars(FrameTimeout)
  /\ \A id \in 1..MaxCommands : SF_vars(RequestTimeout(id))

-----------------------------------------------------------------------------
(* Properties *)

MaybeCommand == Commands \cup {None}
Chunks == [cmd : MaybeCommand, part : {"whole", "first", "last"}]
Messages == [kind : {"current", "other"}] \cup [kind : {"response"}, id : Nat, busy : BOOLEAN]

(* Type correctness of the handle, the worker, the wires and the daemon. *)
TypeOK ==
  /\ issued \in Nat /\ requested \subseteq Nat
  /\ queue \in Seq(Commands) /\ Len(queue) <= QueueCapacity
  /\ slot \in [1..MaxCommands -> SlotStates]
  /\ pc \in {"top", "batch", "wait", "ended"}
  /\ round \in 0..BatchLimit
  /\ queued \in MaybeCommand
  /\ written \in Progress
  /\ pending \in MaybeCommand /\ barrier \in MaybeCommand
  /\ held \in BOOLEAN /\ refused \in BOOLEAN /\ pipelining \in BOOLEAN
  /\ reader \in {"idle", "current", "other"} /\ probing \in BOOLEAN
  /\ replies \in Seq(Nat) /\ rejected \subseteq Nat
  /\ toDaemon \in Seq(Chunks) /\ toClient \in Seq(Messages)
  /\ assembling \in MaybeCommand /\ open \subseteq Commands
  /\ executed \in Seq(Commands) /\ busied \subseteq Nat
  /\ exempt \in BOOLEAN /\ surfaces \in Nat

(* Responses reach the owner in the order it issued the requests, and never *)
(* twice, although the daemon may answer a pipelined activation before the  *)
(* focus it follows (the response arm; Barrier.held).                       *)
ResponsesInOrder ==
  \A i, j \in DOMAIN replies : i < j => replies[i] < replies[j]

Outstanding == {pending, barrier, queued} \ {None}
Waiting == {queue[i] : i \in DOMAIN queue}

(* No request is lost or answered twice: as long as the connection lives,   *)
(* each one is waiting, outstanding, answered or rejected, and in one of    *)
(* these only (run_connection, handle_message).                             *)
RequestsAccounted ==
  /\ \A id \in requested :
       \/ \E c \in Outstanding \cup Waiting : c.id = id
       \/ \E i \in DOMAIN replies : replies[i] = id
       \/ id \in rejected
  /\ \A c \in Outstanding \cup Waiting :
       /\ c.id \notin rejected
       /\ \A i \in DOMAIN replies : replies[i] # c.id
  /\ \A i \in DOMAIN replies : replies[i] \notin rejected

(* A held response always has the focus response still ahead of it, which   *)
(* is what delivers it (PendingAnswered): it is never stranded.             *)
HeldAwaitsFocus ==
  held => barrier # None /\ ~refused /\ pending # None /\ pending.kind = "focus"

(* The response to request id is still to come. *)
Awaited(id) ==
  \/ pending # None /\ pending.id = id
  \/ barrier # None /\ barrier.id = id /\ ~held /\ ~refused

Acted(id) == \E i \in DOMAIN executed : executed[i].id = id

(* Answers are earned: what the owner is answered the daemon acted on, never *)
(* a refusal passed on; what was rejected it did not act on; and every       *)
(* response on its way finds the request it is for, so that none ends the    *)
(* connection as unsolicited; one held back has the focus response ahead of  *)
(* it, which releases it (the response arm, Barrier::awaits).                *)
AnswersEarned ==
  /\ \A i \in DOMAIN replies : Acted(replies[i])
  /\ \A id \in rejected : ~Acted(id)
  /\ \A i \in DOMAIN toClient : toClient[i].kind = "response" => Awaited(toClient[i].id)
  /\ HeldAwaitsFocus

Promise == INSTANCE OrderedRequests
             WITH asked <- requested, acted <- {id \in requested : Acted(id)},
                  rejected <- rejected \cap requested

(* The connection keeps the promises of OrderedRequests: requests are acted  *)
(* on one by one in the order of issue, answered in that order and only when *)
(* acted on, though an activation is written ahead of the focus response,    *)
(* answered before it, or refused and resent (run_connection, handle_message *)
(* and session/barrier.rs).                                                  *)
KeepsOrder == Promise!Spec

(* The daemon acts on no command twice, although a refused activation is    *)
(* sent twice (take_refused_barrier).                                       *)
ExecutedOnce ==
  \A i, j \in DOMAIN executed : i # j => executed[i].id # executed[j].id

(* The daemon acts on commands in the order they were issued; the only one  *)
(* that may be overtaken is an activation it refused, and never by a        *)
(* request.                                                                 *)
OnlyRefusedOvertaken ==
  \A i, j \in DOMAIN executed :
    (i < j /\ executed[i].id > executed[j].id) =>
      /\ executed[j].kind = "activate" /\ executed[j].id \in busied
      /\ executed[i].kind \notin Requests

(* No frame is spliced into another that is only partly written: neither a  *)
(* probe, nor a resend, nor a later command (run_connection).               *)
Follows(before, chunk) ==
  IF before = None THEN chunk.part # "last" ELSE chunk.part = "last" /\ chunk.cmd = before

FramesIntact ==
  \A i \in DOMAIN toDaemon :
    Follows(IF i = 1 THEN assembling
            ELSE IF toDaemon[i - 1].part = "first" THEN toDaemon[i - 1].cmd ELSE None,
            toDaemon[i])

(* Every request issued is eventually answered or rejected, or the          *)
(* connection ends: no request waits forever behind a lease, an image that  *)
(* is never published, or a frame that is never finished.                   *)
RequestsSettle ==
  \A id \in 1..MaxCommands :
    (id \in requested) ~> \/ pc = "ended"
                          \/ id \in rejected
                          \/ \E i \in DOMAIN replies : replies[i] = id

(* The README's transport rule, "A waiting request holds later commands in  *)
(* FIFO order until the preceding response is complete", of an activation   *)
(* that was refused and waits to be resent.                                 *)
WaitingRequestHoldsLater ==
  [][(barrier # None /\ refused /\ Len(toDaemon') > Len(toDaemon)) =>
       LET chunk == toDaemon'[Len(toDaemon')]
       IN  chunk.cmd = None \/ chunk.cmd.id <= barrier.id]_vars
====
