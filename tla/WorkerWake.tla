------------------------------ MODULE WorkerWake ------------------------------
(***************************************************************************)
(* How the threads that own a connection get its worker's attention          *)
(* (sheprd-client: queue.rs, handle.rs, clipboard.rs, the wait of            *)
(* session.rs, run_connection).                                              *)
(*                                                                          *)
(* The worker blocks in poll(2) on its socket and on a wake pipe.  Every     *)
(* operation of the owner first stores what it has to say (a command in the  *)
(* queue, a flag, an image's bytes) and then writes the pipe; the worker     *)
(* empties the pipe after a poll and looks at everything stored before the   *)
(* next one.  The two halves of an operation are separate steps here, and so *)
(* are the worker's reads of the shared state.  The worker also polls inside *)
(* its batch, before it writes input beside a half-read frame, and that poll *)
(* empties the pipe as well, after the batch has looked at `stop`.           *)
(* A wait ends by itself at a deadline or at its cap (IDLE_WAIT); where that *)
(* would hide a lost wake it is not assumed to.                              *)
(*                                                                          *)
(* A clipboard image is a slot reserved in the queue and filled later by     *)
(* another thread.  One image lease per connection (ImageLease.busy) is held *)
(* by the upload and by the slot until both are gone.                        *)
(*                                                                          *)
(* The unix build; on Windows the wake is a no-op and the read times out.    *)
(* A poll that a signal interrupts, which returns as if nothing came, is     *)
(* left out; so is the wait of `deliver` for room in the event channel.      *)
(***************************************************************************)
EXTENDS Integers, Sequences, FiniteSets

CONSTANTS
  MaxCommands,    \* bound on the commands issued
  QueueCapacity,  \* COMMAND_CAPACITY
  BatchLimit,     \* iterations of one batch (16 in the code)
  Mixes,          \* what the owner may issue: kinds by id
  MaxOwed,        \* bound on the owner's operations between their store and wake
  Claims,         \* reservations made: with the image lease (TRUE), without (FALSE)
  Remote,         \* a link with health checks
  None            \* no command held

Ids == 1..MaxCommands

(* Input to the focused pane may be written beside a half-read surface; other *)
(* commands without a request ("plain") and requests may not.  "none" is not *)
(* issued, nor anything after it.                                            *)
Kinds == {"plain", "input", "request", "image", "none"}

(* ClipboardImageUpload: reserving its place, held by its thread, encoding,  *)
(* then dropped field by field: the sender, the wake, the lease.             *)
UploadStates == {"none", "reserving", "held", "encoding", "dropping", "woken", "gone"}

ASSUME BoundsAssumption ==
  /\ MaxCommands \in Nat
  /\ QueueCapacity \in Nat \ {0}
  /\ BatchLimit \in Nat \ {0, 1}
  /\ Mixes \subseteq [Ids -> Kinds]
  /\ MaxOwed \in Nat \ {0}
  /\ Claims \subseteq BOOLEAN
  /\ Remote \in BOOLEAN
  /\ None \notin Ids

VARIABLES
  issued,    \* ids given out
  kind,      \* kind[id], fixed
  queue,     \* the command queue, of ids
  wake,      \* the pipe holds a byte
  owed,      \* operations that stored and have not written the pipe yet
  stop,      \* HandleInner.stop
  liveness,  \* HandleInner.liveness
  upload,    \* upload[id]
  chan,      \* chan[id]: the slot's channel is "open" and empty, "sent" or "closed"
  cancelled, \* ImageLease.cancelled
  finished,  \* ImageLease.finished
  claimed,   \* ImageLease.claimed
  holders,   \* who holds Arc<ImageLease>: "upload", "slot"
  busy,      \* HandleInner.image_busy
  pc,        \* the worker, see Points
  round,     \* iterations of the running batch
  queued,    \* the command it holds
  taken,     \* its image's bytes have arrived
  partial,   \* part of its frame is on the wire (Command::started)
  attempted, \* its input's bounded write began (input_attempted)
  zero,      \* the wait was given a zero timeout
  writable,  \* the wait also ends when the socket has room
  got,       \* the poll reported the stream readable
  peeked,    \* the batch's own poll emptied the pipe
  pending,   \* a request is unanswered
  barrier,   \* the activation pipelined behind it: "none", "sent", "held", "refused"
  inbound,   \* the half-read frame: "none", "surface" (the current one's), "frame"
  readable   \* the socket has bytes

flags == <<stop, liveness>>
slots == <<upload, chan, cancelled, finished, claimed, holders, busy>>
held == <<queued, taken, partial, attempted>>
wait == <<zero, writable, got, peeked>>
link == <<pending, barrier, inbound, readable>>
vars == <<issued, kind, queue, wake, owed, flags, slots, pc, round, held, wait, link>>

(* Where the worker is: a pass begins at "top"; in the batch it takes a       *)
(* command, has it in hand, polls ("peekdrain" empties the pipe), writes.    *)
Points == {"top", "probe", "take", "hand", "peekdrain", "input", "image", "plan", "poll",
           "drain", "read", "ended"}

-----------------------------------------------------------------------------
(* The image lease *)

(* Drop for ImageLease, when `who` lets go of the leases of S. *)
BusyAfter(S, who) == busy /\ ~\E id \in S : claimed[id] /\ holders[id] = {who}

DropSlotsUnfinished(S) == \* mutant: the slot's end is not recorded
  /\ cancelled' = [id \in Ids |-> cancelled[id] \/ id \in S]
  /\ holders' = [id \in Ids |-> IF id \in S THEN holders[id] \ {"slot"} ELSE holders[id]]
  /\ busy' = BusyAfter(S, "slot")
  /\ UNCHANGED <<upload, chan, claimed, finished>>

(* Drop for ImageSlot: the slot is marked cancelled and finished, and its    *)
(* share of the lease goes.                                                 *)
DropSlots(S) ==
  /\ cancelled' = [id \in Ids |-> cancelled[id] \/ id \in S]
  /\ finished' = [id \in Ids |-> finished[id] \/ id \in S]
  /\ holders' = [id \in Ids |-> IF id \in S THEN holders[id] \ {"slot"} ELSE holders[id]]
  /\ busy' = BusyAfter(S, "slot")
  /\ UNCHANGED <<upload, chan, claimed>>

-----------------------------------------------------------------------------
(* The owner's threads: each operation stores, and owes a wake *)

Owe == owed < MaxOwed /\ owed' = owed + 1

(* Waker::wake.  A full pipe already holds a wake. *)
WakeOwed ==
  /\ owed > 0
  /\ owed' = owed - 1
  /\ wake' = TRUE
  /\ UNCHANGED <<issued, kind, queue, flags, slots, pc, round, held, wait, link>>

SendUnwoken == \* mutant: the wake is forgotten
  /\ issued < MaxCommands /\ ~stop /\ pc # "ended"
  /\ kind[issued + 1] \in {"plain", "input", "request"}
  /\ Len(queue) < QueueCapacity
  /\ issued' = issued + 1
  /\ queue' = Append(queue, issued + 1)
  /\ UNCHANGED <<kind, wake, owed, flags, slots, pc, round, held, wait, link>>

(* enqueue, CommandSender::try_send: a full queue is an error and no wake. *)
Send ==
  /\ issued < MaxCommands /\ ~stop /\ pc # "ended"
  /\ kind[issued + 1] \in {"plain", "input", "request"}
  /\ Len(queue) < QueueCapacity
  /\ issued' = issued + 1
  /\ queue' = Append(queue, issued + 1)
  /\ Owe
  /\ UNCHANGED <<kind, wake, flags, slots, pc, round, held, wait, link>>

ClaimUnchecked(id) == TRUE \* mutant: the exchange is a plain store

(* claim_image: the compare-exchange, unless the lease was claimed before. *)
MayClaim(id) == claimed[id] \/ ~busy

(* reserve_clipboard up to the queue: with the image lease, or without. *)
Reserve(claim) ==
  /\ issued < MaxCommands /\ ~stop
  /\ LET id == issued + 1
     IN  /\ kind[id] = "image"
         /\ claim => MayClaim(id)
         /\ issued' = id
         /\ upload' = [upload EXCEPT ![id] = "reserving"]
         /\ claimed' = [claimed EXCEPT ![id] = claim]
         /\ holders' = [holders EXCEPT ![id] = {"upload", "slot"}]
         /\ busy' = (busy \/ claim)
  /\ UNCHANGED <<kind, queue, wake, owed, flags, chan, cancelled, finished, pc, round, held, wait,
                 link>>

(* Its place in the queue.  A full or disconnected queue drops the slot and  *)
(* the lease.                                                               *)
QueueSlot(id) ==
  /\ upload[id] = "reserving"
  /\ IF pc # "ended" /\ Len(queue) < QueueCapacity
       THEN /\ queue' = Append(queue, id)
            /\ upload' = [upload EXCEPT ![id] = "held"]
            /\ Owe
            /\ UNCHANGED <<chan, cancelled, finished, claimed, holders, busy>>
       ELSE /\ upload' = [upload EXCEPT ![id] = "gone"]
            /\ cancelled' = [cancelled EXCEPT ![id] = TRUE]
            /\ finished' = [finished EXCEPT ![id] = TRUE]
            /\ holders' = [holders EXCEPT ![id] = {}]
            /\ busy' = (busy /\ ~claimed[id])
            /\ UNCHANGED <<queue, owed, chan, claimed>>
  /\ UNCHANGED <<issued, kind, wake, flags, pc, round, held, wait, link>>

Ready(id) == ~stop /\ ~cancelled[id]

(* publish up to its encoding: complete claims the lease, complete_input     *)
(* needs none.                                                              *)
BeginPublish(id, claim) ==
  /\ upload[id] = "held"
  /\ Ready(id)
  /\ claim => MayClaim(id)
  /\ upload' = [upload EXCEPT ![id] = "encoding"]
  /\ claimed' = [claimed EXCEPT ![id] = @ \/ claim]
  /\ busy' = (busy \/ claim)
  /\ UNCHANGED <<issued, kind, queue, wake, owed, flags, chan, cancelled, finished, holders, pc,
                 round, held, wait, link>>

(* The bytes, if it is still ready and the slot is there to receive them;    *)
(* the sender is dropped either way, and the wake follows it.               *)
Publish(id) ==
  /\ upload[id] = "encoding"
  /\ Ready(id) /\ "slot" \in holders[id]
  /\ chan' = [chan EXCEPT ![id] = "sent"]
  /\ upload' = [upload EXCEPT ![id] = "dropping"]
  /\ UNCHANGED <<issued, kind, queue, wake, owed, flags, cancelled, finished, claimed, holders,
                 busy, pc, round, held, wait, link>>

(* Every error of publish, and an upload its owner gives up. *)
Abandon(id) ==
  /\ upload[id] \in {"held", "encoding"}
  /\ chan' = [chan EXCEPT ![id] = "closed"]
  /\ upload' = [upload EXCEPT ![id] = "dropping"]
  /\ UNCHANGED <<issued, kind, queue, wake, owed, flags, cancelled, finished, claimed, holders,
                 busy, pc, round, held, wait, link>>

(* WakeOnDrop, after the sender. *)
WakeOnDrop(id) ==
  /\ upload[id] = "dropping"
  /\ upload' = [upload EXCEPT ![id] = "woken"]
  /\ wake' = TRUE
  /\ UNCHANGED <<issued, kind, queue, owed, flags, chan, cancelled, finished, claimed, holders,
                 busy, pc, round, held, wait, link>>

(* The upload's share of the lease, last. *)
DropUpload(id) ==
  /\ upload[id] = "woken"
  /\ upload' = [upload EXCEPT ![id] = "gone"]
  /\ holders' = [holders EXCEPT ![id] = @ \ {"upload"}]
  /\ busy' = BusyAfter({id}, "upload")
  /\ UNCHANGED <<issued, kind, queue, wake, owed, flags, chan, cancelled, finished, claimed, pc,
                 round, held, wait, link>>

(* ClipboardImageCancellation::cancel *)
Cancel(id) ==
  /\ upload[id] \notin {"none", "reserving"}
  /\ ~cancelled[id]
  /\ cancelled' = [cancelled EXCEPT ![id] = TRUE]
  /\ Owe
  /\ UNCHANGED <<issued, kind, queue, wake, flags, upload, chan, finished, claimed, holders, busy,
                 pc, round, held, wait, link>>

DisconnectUnwoken == \* mutant: stop is stored and the worker left to its wait
  /\ ~stop
  /\ stop' = TRUE
  /\ UNCHANGED <<issued, kind, queue, wake, owed, liveness, slots, pc, round, held, wait, link>>

(* disconnect, and the last handle dropped. *)
Disconnect ==
  /\ ~stop
  /\ stop' = TRUE
  /\ Owe
  /\ UNCHANGED <<issued, kind, queue, wake, liveness, slots, pc, round, held, wait, link>>

CheckLivenessUnwoken == \* mutant: the request is stored and not announced
  /\ ~liveness
  /\ liveness' = TRUE
  /\ UNCHANGED <<issued, kind, queue, wake, owed, stop, slots, pc, round, held, wait, link>>

(* check_liveness: the owner doubts the link (it was resumed, or moved). *)
CheckLiveness ==
  /\ ~liveness
  /\ liveness' = TRUE
  /\ Owe
  /\ UNCHANGED <<issued, kind, queue, wake, stop, slots, pc, round, held, wait, link>>

Owner ==
  \/ Send \/ Disconnect \/ CheckLiveness
  \/ \E claim \in Claims : Reserve(claim)
  \/ \E id \in Ids : \/ QueueSlot(id) \/ Publish(id) \/ Abandon(id) \/ DropUpload(id) \/ Cancel(id)
                     \/ \E claim \in BOOLEAN : BeginPublish(id, claim)

-----------------------------------------------------------------------------
(* The worker *)

InQueue == {queue[i] : i \in DOMAIN queue}
Slots(S) == {id \in S : kind[id] = "image"}

(* A resend, a probe or a command may be written: nothing of the held command *)
(* is on the wire or was tried.                                              *)
PartialOut == partial \/ attempted

ResendReady == ~pending /\ barrier = "refused"

(* permits_partial_input: only input, with no request out, beside a frame     *)
(* whose prefix is the current surface's.                                    *)
Permits(id) == kind[id] = "input" /\ ~pending /\ barrier = "none" /\ inbound = "surface"

Forget == queued' = None /\ taken' = FALSE /\ partial' = FALSE /\ attempted' = FALSE

(* run_connection returns: the receiver and what it holds are dropped, and   *)
(* the handle learns that the connection is over.                           *)
End ==
  /\ pc' = "ended"
  /\ stop' = TRUE
  /\ DropSlots(Slots(InQueue \cup ({queued} \ {None})))
  /\ queue' = <<>>
  /\ Forget
  /\ UNCHANGED <<issued, kind, wake, owed, liveness, round, wait, link>>

(* A timeout, a lost transport, a protocol error, at any of its calls. *)
Lose == pc \notin {"plan", "ended"} /\ End

Goto(next) ==
  /\ pc' = next
  /\ UNCHANGED <<issued, kind, queue, wake, owed, flags, slots, round, held, wait, link>>

TopUnstopped == \* mutant: the loop does not look at the flag
  /\ pc = "top"
  /\ IF partial /\ kind[queued] = "image" /\ cancelled[queued] THEN End ELSE Goto("probe")

Top ==
  /\ pc = "top"
  /\ IF stop \/ (partial /\ kind[queued] = "image" /\ cancelled[queued])
       THEN End ELSE Goto("probe")

(* A liveness request is taken only where a probe may be written. *)
Probe ==
  /\ pc = "probe"
  /\ liveness' = (liveness /\ ~(Remote /\ ~PartialOut))
  /\ pc' = "take"
  /\ round' = 0
  /\ UNCHANGED <<issued, kind, queue, wake, owed, stop, slots, held, wait, link>>

(* The batch: a refused activation goes first. *)
ResendNow == inbound = "none" /\ ~PartialOut /\ ResendReady

Resend ==
  /\ pc = "take" /\ round < BatchLimit
  /\ ResendNow
  /\ IF stop
       THEN End
       ELSE /\ barrier' = "none" /\ pending' = TRUE
            /\ round' = round + 1
            /\ UNCHANGED <<issued, kind, queue, wake, owed, flags, slots, pc, held, wait, inbound,
                           readable>>

(* Take the held command or the queue's head, and look at the flag. *)
Take ==
  /\ pc = "take" /\ round < BatchLimit
  /\ ~ResendNow
  /\ queued # None \/ queue # <<>>
  /\ IF stop
       THEN End
       ELSE /\ queued' = IF queued # None THEN queued ELSE Head(queue)
            /\ queue' = IF queued # None THEN queue ELSE Tail(queue)
            /\ pc' = "hand"
            /\ UNCHANGED <<issued, kind, wake, owed, flags, slots, round, taken, partial, attempted,
                           wait, link>>

TakeNothing ==
  /\ pc = "take"
  /\ round = BatchLimit \/ (~ResendNow /\ queued = None /\ queue = <<>>)
  /\ Goto("plan")

(* Behind a half-read frame only a frame already begun goes on. *)
PastFence == inbound = "none" \/ partial

Fenced ==
  /\ pc = "hand"
  /\ ~PastFence /\ ~Permits(queued)
  /\ Goto("plan")

(* The poll before input beside a frame.  Readable bytes go first. *)
Peek ==
  /\ pc = "hand"
  /\ ~PastFence /\ Permits(queued)
  /\ got' = readable
  /\ pc' = IF wake THEN "peekdrain" ELSE IF readable THEN "plan" ELSE "input"
  /\ UNCHANGED <<issued, kind, queue, wake, owed, flags, slots, round, held, zero, writable, peeked,
                 link>>

(* It empties the pipe like any poll. *)
PeekDrain ==
  /\ pc = "peekdrain"
  /\ wake' = FALSE
  /\ peeked' = TRUE
  /\ pc' = IF got THEN "plan" ELSE "input"
  /\ UNCHANGED <<issued, kind, queue, owed, flags, slots, round, held, zero, writable, got, link>>

(* rejection_reason: the wrong boot, or a method not advertised.  Which       *)
(* commands not yet begun it turns away is left open.                        *)
Reject ==
  /\ pc = "hand"
  /\ inbound = "none" /\ ~PartialOut
  /\ DropSlots(Slots({queued}))
  /\ Forget
  /\ pc' = "take" /\ round' = round + 1
  /\ UNCHANGED <<issued, kind, queue, wake, owed, flags, wait, link>>

(* A request waits for the one before, unless it is an activation behind a    *)
(* focus, which only some requests are.                                      *)
AwaitLease ==
  /\ pc = "hand"
  /\ PastFence
  /\ kind[queued] = "request" /\ (pending \/ barrier # "none")
  /\ Goto("plan")

(* An image is written by its own arm, input tried before by write_input. *)
Continue ==
  /\ pc = "hand"
  /\ PastFence
  /\ \/ kind[queued] = "image" /\ Goto("image")
     \/ kind[queued] # "image" /\ PartialOut /\ Goto("input")

(* write_all.  A request is then pending, or the barrier behind the pending one. *)
Write ==
  /\ pc = "hand"
  /\ inbound = "none" /\ ~PartialOut
  /\ \/ /\ kind[queued] \in {"plain", "input"}
        /\ UNCHANGED <<pending, barrier>>
     \/ /\ kind[queued] = "request" /\ barrier = "none"
        /\ pending' = TRUE
        /\ barrier' = IF pending THEN "sent" ELSE "none"
  /\ Forget
  /\ pc' = "take" /\ round' = round + 1
  /\ UNCHANGED <<issued, kind, queue, wake, owed, flags, slots, wait, inbound, readable>>

(* write_input: one bounded write of all of it, part, or nothing. *)
WriteInput ==
  /\ pc = "input"
  /\ \/ /\ Forget
        /\ pc' = "take" /\ round' = round + 1
     \/ /\ attempted' = TRUE
        /\ partial' \in {partial, TRUE}
        /\ pc' = "plan"
        /\ UNCHANGED <<round, queued, taken>>
  /\ UNCHANGED <<issued, kind, queue, wake, owed, flags, slots, wait, link>>

(* The slot is done with: sent, skipped or expired. *)
Release(next) ==
  /\ DropSlots({queued})
  /\ Forget
  /\ pc' = next
  /\ round' = IF next = "take" THEN round + 1 ELSE round
  /\ UNCHANGED <<issued, kind, queue, wake, owed, flags, wait, link>>

ImageCancelled ==
  /\ pc = "image"
  /\ cancelled[queued]
  /\ IF partial THEN End ELSE Release("take")

(* try_recv finds the slot's sender dropped; or its preparation has expired. *)
ImageSkipped ==
  /\ pc = "image"
  /\ ~cancelled[queued] /\ ~taken
  /\ chan[queued] \in {"closed", "open"}
  /\ Release("take")

ImagePreparing ==
  /\ pc = "image"
  /\ ~cancelled[queued] /\ ~taken
  /\ chan[queued] = "open"
  /\ Goto("plan")

(* One bounded write: all of it, part, or nothing; the batch ends. *)
ImageWrites ==
  /\ pc = "image"
  /\ ~cancelled[queued]
  /\ taken \/ chan[queued] = "sent"
  /\ \/ Release("plan")
     \/ /\ taken' = TRUE
        /\ partial' \in {partial, TRUE}
        /\ pc' = "plan"
        /\ UNCHANGED <<issued, kind, queue, wake, owed, flags, slots, round, queued, attempted, wait,
                       link>>

ZeroIgnoresQueue == \* mutant: a batch that was cut off waits
  ~PartialOut /\ ((Remote /\ liveness) \/ (inbound = "none" /\ ResendReady))

(* The reasons not to wait at all.  The stop flag is not among them. *)
ZeroTimeout ==
  \/ queued = None /\ queue # <<>>
  \/ ~PartialOut /\ Remote /\ liveness
  \/ ~PartialOut /\ inbound = "none" /\ ResendReady

(* Room in the socket ends the wait for a published image and for attempted   *)
(* input, unless a half-read frame fences it (input_writable).               *)
AwaitsRoom ==
  /\ queued # None
  /\ \/ kind[queued] = "image" /\ taken /\ PastFence
     \/ attempted /\ (PastFence \/ Permits(queued))

Plan ==
  /\ pc = "plan"
  /\ zero' = ZeroTimeout
  /\ writable' = AwaitsRoom
  /\ pc' = "poll"
  /\ round' = 0 /\ got' = FALSE
  /\ UNCHANGED <<issued, kind, queue, wake, owed, flags, slots, held, peeked, link>>

(* Wait::wait returns. *)
Returns ==
  /\ got' = readable /\ zero' = FALSE /\ writable' = FALSE /\ peeked' = FALSE
  /\ pc' = IF wake THEN "drain" ELSE IF readable THEN "read" ELSE "top"
  /\ UNCHANGED <<issued, kind, queue, wake, owed, flags, slots, round, held, link>>

(* A zero timeout, a wake or bytes of the peer. *)
Poll == pc = "poll" /\ (zero \/ wake \/ readable) /\ Returns

(* The socket has room. *)
Room == pc = "poll" /\ writable /\ Returns

(* A request, frame, health, image or input deadline, or the cap. *)
Deadline == pc = "poll" /\ Returns

(* One wake stands for everything stored so far. *)
Drain ==
  /\ pc = "drain"
  /\ wake' = FALSE
  /\ pc' = IF got THEN "read" ELSE "top"
  /\ UNCHANGED <<issued, kind, queue, owed, flags, slots, round, held, wait, link>>

(* What a whole frame may answer: the pending request, whose response also    *)
(* delivers a held one; the barrier's, held behind a pending request; busy.  *)
Answered ==
  \/ UNCHANGED <<pending, barrier>>
  \/ /\ pending /\ pending' = FALSE
     /\ barrier' = IF barrier = "held" THEN "none" ELSE barrier
  \/ /\ barrier = "sent"
     /\ barrier' \in {"refused", IF pending THEN "held" ELSE "none"}
     /\ UNCHANGED pending

(* One read: part of a frame, whose prefix may come to show that it is the    *)
(* current surface's, or its end.                                            *)
Read ==
  /\ pc = "read"
  /\ readable' = FALSE
  /\ \/ inbound' = "none" /\ Answered
     \/ /\ inbound' \in IF inbound = "surface" THEN {"surface"} ELSE {"frame", "surface"}
        /\ UNCHANGED <<pending, barrier>>
  /\ pc' = "top"
  /\ UNCHANGED <<issued, kind, queue, wake, owed, flags, slots, round, held, wait>>

PeerSends ==
  /\ ~readable
  /\ readable' = TRUE
  /\ UNCHANGED <<issued, kind, queue, wake, owed, flags, slots, pc, round, held, wait, pending,
                 barrier, inbound>>

Worker ==
  \/ Top \/ Probe \/ Resend \/ Take \/ TakeNothing
  \/ Fenced \/ Peek \/ PeekDrain \/ Reject \/ AwaitLease \/ Continue \/ Write \/ WriteInput
  \/ ImageCancelled \/ ImageSkipped \/ ImagePreparing \/ ImageWrites
  \/ Plan \/ Poll \/ Drain \/ Read

-----------------------------------------------------------------------------
Init ==
  /\ issued = 0 /\ kind \in Mixes /\ queue = <<>>
  /\ wake = FALSE /\ owed = 0 /\ stop = FALSE /\ liveness = FALSE
  /\ upload = [id \in Ids |-> "none"] /\ chan = [id \in Ids |-> "open"]
  /\ cancelled = [id \in Ids |-> FALSE] /\ finished = [id \in Ids |-> FALSE]
  /\ claimed = [id \in Ids |-> FALSE] /\ holders = [id \in Ids |-> {}] /\ busy = FALSE
  /\ pc = "top" /\ round = 0 /\ queued = None /\ taken = FALSE
  /\ partial = FALSE /\ attempted = FALSE
  /\ zero = FALSE /\ writable = FALSE /\ got = FALSE /\ peeked = FALSE
  /\ pending = FALSE /\ barrier = "none" /\ inbound = "none" /\ readable = FALSE

Next ==
  \/ Owner \/ WakeOwed \/ (\E id \in Ids : WakeOnDrop(id))
  \/ Worker \/ Room \/ Deadline \/ Lose \/ PeerSends

Spec == Init /\ [][Next]_vars

(* Threads keep running, and an operation that stored goes on to its wake.   *)
(* Nothing is assumed of the peer, of room in the socket, of deadlines or of *)
(* the wait's cap.                                                           *)
FairSpec ==
  /\ Spec
  /\ WF_vars(Worker)
  /\ WF_vars(WakeOwed)
  /\ \A id \in Ids : WF_vars(WakeOnDrop(id))

-----------------------------------------------------------------------------
(* Properties *)

(* Type correctness of the shared state and of the worker. *)
TypeOK ==
  /\ issued \in 0..MaxCommands
  /\ kind \in [Ids -> Kinds]
  /\ queue \in Seq(Ids) /\ Len(queue) <= QueueCapacity
  /\ wake \in BOOLEAN /\ owed \in 0..MaxOwed /\ stop \in BOOLEAN /\ liveness \in BOOLEAN
  /\ upload \in [Ids -> UploadStates]
  /\ chan \in [Ids -> {"open", "sent", "closed"}]
  /\ cancelled \in [Ids -> BOOLEAN] /\ finished \in [Ids -> BOOLEAN]
  /\ claimed \in [Ids -> BOOLEAN] /\ holders \in [Ids -> SUBSET {"upload", "slot"}]
  /\ busy \in BOOLEAN
  /\ pc \in Points
  /\ round \in 0..BatchLimit
  /\ queued \in Ids \cup {None} /\ taken \in BOOLEAN
  /\ partial \in BOOLEAN /\ attempted \in BOOLEAN
  /\ zero \in BOOLEAN /\ writable \in BOOLEAN /\ got \in BOOLEAN /\ peeked \in BOOLEAN
  /\ pending \in BOOLEAN /\ barrier \in {"none", "sent", "held", "refused"}
  /\ inbound \in {"none", "frame", "surface"} /\ readable \in BOOLEAN

(* What there is, but for a stop, that the worker could act on now: what the *)
(* owner stored, and a refused activation it may resend.                     *)
Noticeable ==
  \/ queued = None /\ queue # <<>>
  \/ Remote /\ liveness /\ ~PartialOut
  \/ /\ queued # None /\ kind[queued] = "image" /\ PastFence
     /\ cancelled[queued] \/ (~taken /\ chan[queued] # "open")
  \/ ResendNow

WakeComing == wake \/ owed > 0 \/ \E id \in Ids : upload[id] = "dropping"

Blocked == pc = "poll" /\ ~zero /\ ~WakeComing

(* No wake is lost but perhaps a stop's: the worker never blocks, with        *)
(* nothing in the pipe and no wake on its way, on a command it could take, a *)
(* liveness request it could serve, news of the image it holds or a refused  *)
(* activation to resend, though the batch may empty the pipe too; and not on *)
(* a stop either unless the batch did (try_send, WakeOnDrop, cancel,         *)
(* disconnect, check_liveness against run_connection's two polls).           *)
NoLostWake == Blocked => ~Noticeable /\ (stop => peeked)

(* What the comment on wait_timeout says of stop, that it wakes the worker    *)
(* itself.  The code breaks it: the poll inside the batch takes the wake     *)
(* after the flag was looked at, and the wait's timeout does not depend on   *)
(* the flag.                                                                 *)
StopWakes == Blocked => ~stop

(* One image lease per connection: the flag is set exactly while one lease   *)
(* claimed it and is still held by its upload or its slot, whatever way the  *)
(* two come to an end (claim_image, Drop for ImageLease).                    *)
OneImageLease ==
  LET live == {id \in Ids : claimed[id] /\ holders[id] # {}}
  IN  /\ Cardinality(live) <= 1
      /\ busy <=> live # {}

(* A slot is finished exactly when the worker can no longer send it:         *)
(* neither while it waits or is written, nor left unset when it is dropped   *)
(* on an error, at the end of the connection or by a full queue.             *)
FinishedWhenGone ==
  \A id \in Ids : upload[id] \notin {"none", "reserving"} =>
    (finished[id] <=> id \notin InQueue \cup {queued})

(* A stop ends the connection with no help of the wait's cap, unless the      *)
(* batch's own poll took its wake and left the worker blocked.               *)
StopEnds == stop ~> (pc = "ended" \/ (Blocked /\ peeked))

(* With the cap it always does: a wait ends, and the next pass looks.         *)
StopBounded == WF_vars(Deadline) => (stop ~> (pc = "ended"))

(* A queued command needs no cap: it is taken, or the worker holds one before *)
(* it.                                                                       *)
QueuedIsTaken ==
  \A id \in Ids : (id \in InQueue) ~> (id \notin InQueue \/ queued # None)

(* Nor does a liveness request, unless an image's or an input's frame was     *)
(* begun or tried, which has a deadline of its own.                          *)
LivenessHeard == (Remote /\ liveness) ~> (~liveness \/ PartialOut \/ pc = "ended")
====
