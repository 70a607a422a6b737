------------------------ MODULE CommandPipelineProofs ------------------------
(***************************************************************************)
(* Proofs about CommandPipeline for every queue capacity, batch limit, mix  *)
(* of commands and number of commands, and for any daemon of the model:     *)
(* type correctness, responses in the order of issue, and that a held       *)
(* response is never stranded; then, resting on the order of issue, what    *)
(* is on the wire: no frame is spliced into another, the daemon acts on no  *)
(* command twice and out of order only on an activation it refused, and no  *)
(* request is lost; then what is answered: only what was acted on, never    *)
(* unsolicited; and from all of it, that the connection implements          *)
(* OrderedRequests.                                                         *)
(***************************************************************************)
EXTENDS CommandPipeline, SequenceTheorems, TLAPS

(* Everything the worker has not written yet was issued after n. *)
Later(n) ==
  /\ queued # None => n < queued.id
  /\ \A i \in DOMAIN queue : n < queue[i].id

(* The commands still with the worker are in the order of issue. *)
QueueOrder ==
  /\ \A i \in DOMAIN queue : queue[i].id <= issued
  /\ \A i, j \in DOMAIN queue : i < j => queue[i].id < queue[j].id
  /\ queued # None => /\ queued.id <= issued
                      /\ \A i \in DOMAIN queue : queued.id < queue[i].id

(* The outstanding requests precede them, and the responses precede those. *)
RequestOrder ==
  /\ pending # None => pending.id <= issued /\ Later(pending.id)
  /\ barrier # None => barrier.id <= issued /\ Later(barrier.id)
  /\ (pending # None /\ barrier # None) => pending.id < barrier.id /\ pending.kind = "focus"

ReplyOrder ==
  /\ ResponsesInOrder
  /\ \A i \in DOMAIN replies :
       /\ replies[i] <= issued /\ Later(replies[i])
       /\ pending # None => replies[i] < pending.id
       /\ barrier # None => replies[i] < barrier.id

Order == QueueOrder /\ RequestOrder /\ ReplyOrder /\ HeldAwaitsFocus

IInv == TypeOK /\ Order

-----------------------------------------------------------------------------
(* The chunk of a command is a chunk. *)
LEMMA ChunkType ==
  ASSUME NEW c \in Commands
  PROVE  Whole(c) \in Chunks /\ First(c) \in Chunks /\ Last(c) \in Chunks /\ Ping \in Chunks
BY DEF Whole, First, Last, Ping, Chunks, MaybeCommand

(* A sequence of commands, and its identifiers. *)
LEMMA CommandSeq ==
  ASSUME NEW q \in Seq(Commands)
  PROVE  /\ Len(q) \in Nat /\ DOMAIN q = 1..Len(q)
         /\ \A i \in 1..Len(q) : q[i] \in Commands /\ q[i].id \in Nat
<1>1. Len(q) \in Nat /\ DOMAIN q = 1..Len(q) /\ \A i \in 1..Len(q) : q[i] \in Commands
  OBVIOUS
<1>2. \A c \in Commands : c.id \in Nat
  BY DEF Commands
<1>. QED BY <1>1, <1>2

(* The command an iteration works on. *)
LEMMA CurrentType ==
  ASSUME TypeOK, Available
  PROVE  /\ Current \in Commands /\ Current # None
         /\ queued = None => queue # <<>> /\ Current = queue[1] /\ Len(queue) \in Nat \ {0}
         /\ queued # None => Current = queued
<1>1. queued = None => queue # <<>> /\ Head(queue) = queue[1] /\ queue[1] \in Commands
                        /\ Len(queue) \in Nat \ {0}
  BY DEF TypeOK, Available
<1>2. queued # None => queued \in Commands
  BY DEF TypeOK, MaybeCommand
<1>. QED BY <1>1, <1>2, BoundsAssumption DEF Current

(* What leaves the queue when a command is taken. *)
LEMMA UnqueueEffect ==
  ASSUME TypeOK, Available, Unqueue
  PROVE  /\ queue' \in Seq(Commands) /\ Len(queue') <= QueueCapacity
         /\ issued' = issued /\ requested' = requested
         /\ queued # None => queue' = queue
         /\ queued = None => /\ Len(queue') = Len(queue) - 1
                             /\ \A i \in 1..Len(queue') : queue'[i] = queue[i + 1]
<1>1. CASE queued # None
  BY <1>1 DEF Unqueue, TypeOK
<1>2. CASE queued = None
  <2>1. queue \in Seq(Commands) /\ queue # <<>> /\ queue' = Tail(queue)
    BY <1>2 DEF Unqueue, Available, TypeOK
  <2>2. Len(queue') = Len(queue) - 1 /\ queue' \in Seq(Commands)
          /\ \A i \in 1..Len(queue') : queue'[i] = queue[i + 1]
    BY <2>1
  <2>. QED BY <1>2, <2>1, <2>2, BoundsAssumption DEF Unqueue, TypeOK
<1>. QED BY <1>1, <1>2

(* Taking the current command and dropping it or holding it keeps the order *)
(* of what is left, and the current command was next.                       *)
LEMMA TakeOrder ==
  ASSUME TypeOK, QueueOrder, Available, Unqueue, queued' \in {None, Current}
  PROVE  /\ QueueOrder'
         /\ Current.id <= issued
         /\ \A n \in Nat : (queued' = None /\ n = Current.id) => Later(n)'
         /\ \A n \in Nat : Later(n) => n < Current.id /\ Later(n)'
<1>1. /\ Current \in Commands /\ Current # None
      /\ queued = None => queue # <<>> /\ Current = queue[1] /\ Len(queue) \in Nat \ {0}
      /\ queued # None => Current = queued
  BY CurrentType
<1>2. /\ queue' \in Seq(Commands) /\ issued' = issued
      /\ queued # None => queue' = queue
      /\ queued = None => /\ Len(queue') = Len(queue) - 1
                          /\ \A i \in 1..Len(queue') : queue'[i] = queue[i + 1]
  BY UnqueueEffect
<1>3. /\ issued \in Nat /\ Current.id \in Nat
      /\ DOMAIN queue = 1..Len(queue) /\ Len(queue) \in Nat
      /\ \A i \in 1..Len(queue) : queue[i].id \in Nat
  BY <1>1, CommandSeq DEF TypeOK, Commands
<1>4. /\ DOMAIN queue' = 1..Len(queue') /\ Len(queue') \in Nat
      /\ \A i \in 1..Len(queue') : queue'[i].id \in Nat
  <2>1. queue' \in Seq(Commands)
    BY <1>2
  <2>. QED BY <2>1, CommandSeq
<1>5. /\ \A i \in 1..Len(queue) : queue[i].id <= issued
      /\ \A i, j \in 1..Len(queue) : i < j => queue[i].id < queue[j].id
      /\ queued # None => /\ queued.id <= issued
                          /\ \A i \in 1..Len(queue) : queued.id < queue[i].id
  BY <1>3 DEF QueueOrder
<1>6. /\ Current.id <= issued
      /\ \A i \in 1..Len(queue') : /\ queue'[i].id <= issued
                                   /\ Current.id < queue'[i].id
      /\ \A i, j \in 1..Len(queue') : i < j => queue'[i].id < queue'[j].id
  <2>1. CASE queued # None
    BY <1>1, <1>2, <1>5, <2>1
  <2>2. CASE queued = None
    <3>1. \A i \in 1..Len(queue') : /\ i + 1 \in 1..Len(queue) /\ 1 < i + 1
                                    /\ queue'[i] = queue[i + 1]
      BY <1>2, <1>3, <2>2
    <3>2. 1 \in 1..Len(queue) /\ Current = queue[1]
      BY <1>1, <2>2
    <3>3. \A i, j \in 1..Len(queue') : i < j => i + 1 < j + 1
      BY <1>4
    <3>. QED BY <1>5, <3>1, <3>2, <3>3
  <2>. QED BY <2>1, <2>2
<1>7. QueueOrder'
  BY <1>1, <1>2, <1>4, <1>6 DEF QueueOrder
<1>8. ASSUME NEW n \in Nat, queued' = None, n = Current.id
      PROVE  Later(n)'
  BY <1>4, <1>6, <1>8 DEF Later
<1>9. ASSUME NEW n \in Nat, Later(n)
      PROVE  n < Current.id /\ Later(n)'
  <2>1. n < Current.id
    BY <1>1, <1>3, <1>9 DEF Later
  <2>2. \A i \in 1..Len(queue') : n < queue'[i].id
    BY <1>3, <1>4, <1>6, <2>1
  <2>. QED BY <1>4, <2>1, <2>2 DEF Later
<1>. QED BY <1>6, <1>7, <1>8, <1>9

-----------------------------------------------------------------------------
(* Type correctness, one lemma for each part of the next-state relation. *)

\* A command taken from the queue, and the queue it leaves.
LEMMA TakeType ==
  ASSUME TypeOK, Available, Unqueue, queued' \in {None, Current}
  PROVE  /\ issued' \in Nat /\ requested' \subseteq Nat
         /\ queue' \in Seq(Commands) /\ Len(queue') <= QueueCapacity
         /\ queued' \in MaybeCommand
BY CurrentType, UnqueueEffect DEF TypeOK, MaybeCommand

\* The owner's operations and the end of the connection.
LEMMA OwnerType ==
  ASSUME TypeOK, Owner \/ Stop
  PROVE  TypeOK'
<1>1. CASE Enqueue
  <2>1. PICK kind \in OwnerKinds, ok \in Valid :
          /\ queue' = Append(queue, [id |-> issued + 1, kind |-> kind, ok |-> ok])
          /\ issued' = issued + 1
          /\ requested' = IF kind \in Requests THEN requested \cup {issued + 1} ELSE requested
    BY <1>1 DEF Enqueue
  <2>2. [id |-> issued + 1, kind |-> kind, ok |-> ok] \in Commands
    BY <2>1, BoundsAssumption DEF TypeOK, Commands
  <2>3. queue' \in Seq(Commands) /\ Len(queue') <= QueueCapacity
    BY <1>1, <2>1, <2>2, BoundsAssumption DEF TypeOK, Enqueue, QueueHasRoom
  <2>4. issued' \in Nat /\ requested' \subseteq Nat
    BY <2>1 DEF TypeOK
  <2>. QED BY <1>1, <2>3, <2>4 DEF TypeOK, Enqueue, worker, session, inbound, events, daemon
<1>2. CASE \E id \in 1..MaxCommands : PublishImage(id) \/ CloseImage(id) \/ CancelImage(id)
  <2>1. slot' \in [1..MaxCommands -> SlotStates]
    BY <1>2 DEF TypeOK, SlotStates, PublishImage, CloseImage, CancelImage
  <2>. QED BY <1>2, <2>1 DEF TypeOK, PublishImage, CloseImage, CancelImage, worker, session,
                            inbound, events, daemon
<1>3. CASE Stop
  BY <1>3 DEF TypeOK, Stop, End, owner, session, inbound, events, daemon
<1>. QED BY <1>1, <1>2, <1>3 DEF Owner

\* The top of the loop, with its timeouts and its probe.
LEMMA TopType ==
  ASSUME TypeOK, Top \/ Timeout
  PROVE  TypeOK'
<1>1. Ping \in Chunks
  BY DEF Ping, Chunks, MaybeCommand
<1>2. CASE Top
  <2>1. CASE End
    BY <2>1 DEF TypeOK, End, owner, session, inbound, events, daemon
  <2>2. CASE ~End
    <3>1. PICK ping \in BOOLEAN :
            /\ toDaemon' = IF ping THEN Append(toDaemon, Ping) ELSE toDaemon
            /\ probing' = (probing \/ ping)
      BY <1>2, <2>2 DEF Top
    <3>2. probing' \in BOOLEAN
      BY <3>1
    <3>3. toDaemon' \in Seq(Chunks)
      BY <1>1, <3>1 DEF TypeOK
    <3>4. /\ pc' = "batch" /\ round' = 0
          /\ UNCHANGED <<owner, queued, written, session, reader, events, toClient, daemon>>
      BY <1>2, <2>2 DEF Top
    <3>. QED BY <3>2, <3>3, <3>4, BoundsAssumption
             DEF TypeOK, owner, session, events, daemon
  <2>. QED BY <2>1, <2>2
<1>3. CASE Timeout
  BY <1>3 DEF TypeOK, Timeout, RequestTimeout, FrameTimeout, HealthTimeout, End, owner, session,
              inbound, events, daemon
<1>. QED BY <1>2, <1>3

(* What a bounded write does to the command it works on. *)
LEMMA WriteSomeType ==
  ASSUME TypeOK, Available, WriteSome
  PROVE  /\ toDaemon' \in Seq(Chunks)
         /\ Unqueue /\ queued' \in {None, Current} /\ written' \in Progress
<1>1. /\ Whole(Current) \in Chunks /\ First(Current) \in Chunks /\ Last(Current) \in Chunks
  BY CurrentType, ChunkType
<1>2. toDaemon' \in Seq(Chunks)
  <2>1. toDaemon' \in {toDaemon, Append(toDaemon, Whole(Current)),
                       Append(toDaemon, First(Current)), Append(toDaemon, Last(Current))}
    BY DEF WriteSome
  <2>2. \A s \in Seq(Chunks), c \in Chunks : Append(s, c) \in Seq(Chunks)
    OBVIOUS
  <2>. QED BY <1>1, <2>1, <2>2 DEF TypeOK
<1>3. Dispose \/ Hold("partial") \/ Hold("attempted")
  BY DEF WriteSome
<1>4. Unqueue /\ queued' \in {None, Current} /\ written' \in Progress
  BY <1>3 DEF Dispose, Hold, Progress
<1>. QED BY <1>2, <1>4

\* One iteration of the batch.
LEMMA BatchType ==
  ASSUME TypeOK, Batch
  PROVE  TypeOK'
<1>. USE DEF owner, session, inbound, events, daemon
<1>1. CASE Resend
  <2>1. barrier \in Commands /\ InBatch
    BY <1>1 DEF TypeOK, MaybeCommand, Resend, ResendFirst, ResendReady
  <2>2. toDaemon' \in Seq(Chunks)
    BY <1>1, <2>1, ChunkType DEF TypeOK, Resend
  <2>3. round' \in 0..BatchLimit /\ pc' = "batch"
    BY <1>1, <2>1, BoundsAssumption DEF TypeOK, Resend, Continue, InBatch
  <2>4. pending' \in MaybeCommand /\ barrier' \in MaybeCommand /\ held' \in BOOLEAN
          /\ refused' \in BOOLEAN
    BY <1>1, <2>1 DEF Resend, MaybeCommand
  <2>. QED BY <1>1, <2>2, <2>3, <2>4 DEF TypeOK, Resend
<1>2. CASE BatchEnds
  BY <1>2 DEF TypeOK, BatchEnds, Break
<1>3. ASSUME Available, Continue \/ Break PROVE round' \in 0..BatchLimit /\ pc' \in {"batch", "wait"}
  BY <1>3, BoundsAssumption DEF TypeOK, Available, InBatch, Continue, Break
<1>4. CASE ResumeInput \/ WriteBounded \/ ImageWrites
  <2>1. Available /\ WriteSome /\ (Continue \/ Break)
          /\ UNCHANGED <<slot, session, inbound, events, toClient, daemon>>
    BY <1>4 DEF ResumeInput, WriteBounded, ImageWrites, Sendable, Reached
  <2>2. /\ toDaemon' \in Seq(Chunks)
        /\ Unqueue /\ queued' \in {None, Current} /\ written' \in Progress
    BY <2>1, WriteSomeType
  <2>. QED BY <1>3, <2>1, <2>2, TakeType DEF TypeOK
<1>5. CASE FenceHolds \/ LeaseHolds \/ ImagePreparing \/ ImageClosed
  <2>1. Available /\ Unqueue /\ queued' \in {None, Current} /\ (Continue \/ Break)
          /\ UNCHANGED <<slot, session, inbound, events, toDaemon, toClient, daemon>>
    BY <1>5 DEF FenceHolds, LeaseHolds, ImagePreparing, ImageClosed, Sendable, Reached, Hold, Dispose
  <2>2. written' \in Progress
    BY <1>5 DEF FenceHolds, LeaseHolds, ImagePreparing, ImageClosed, Hold, Dispose, TypeOK, Progress
  <2>. QED BY <1>3, <2>1, <2>2, TakeType DEF TypeOK
<1>6. CASE ImageCancelled
  <2>1. CASE End
    BY <2>1 DEF TypeOK, End
  <2>2. CASE ~End
    <3>1. Available /\ Unqueue /\ queued' \in {None, Current} /\ (Continue \/ Break)
            /\ written' \in Progress
            /\ UNCHANGED <<slot, session, inbound, events, toDaemon, toClient, daemon>>
      BY <1>6, <2>2 DEF ImageCancelled, Sendable, Reached, Dispose, Progress
    <3>. QED BY <1>3, <3>1, TakeType DEF TypeOK
  <2>. QED BY <2>1, <2>2
<1>7. CASE Reject \/ ImageExpires
  <2>1. Available /\ Unqueue /\ queued' \in {None, Current} /\ (Continue \/ Break)
          /\ written' \in Progress /\ rejected' = rejected \cup {Current.id}
          /\ UNCHANGED <<session, inbound, replies, toDaemon, toClient, daemon>>
    BY <1>7 DEF Reject, ImageExpires, Sendable, Reached, Dispose, Progress
  <2>2. rejected' \subseteq Nat
    BY <2>1, CurrentType DEF TypeOK, Commands
  <2>3. slot' \in [1..MaxCommands -> SlotStates]
    BY <1>7 DEF TypeOK, Reject, ImageExpires, SlotStates
  <2>. QED BY <1>3, <2>1, <2>2, <2>3, TakeType DEF TypeOK
<1>8. CASE WriteAll
  <2>1. Available /\ Unqueue /\ queued' \in {None, Current} /\ (Continue \/ Break)
          /\ written' \in Progress /\ toDaemon' = Append(toDaemon, Whole(Current))
          /\ UNCHANGED <<slot, inbound, events, toClient, daemon>>
    BY <1>8 DEF WriteAll, Sendable, Reached, Dispose, Progress
  <2>2. Current \in Commands /\ toDaemon' \in Seq(Chunks)
    BY <2>1, CurrentType, ChunkType DEF TypeOK
  <2>3. /\ pending' \in MaybeCommand /\ barrier' \in MaybeCommand
        /\ held' \in BOOLEAN /\ refused' \in BOOLEAN /\ pipelining' \in BOOLEAN
    BY <1>8, <2>2 DEF TypeOK, WriteAll, MaybeCommand
  <2>. QED BY <1>3, <2>1, <2>2, <2>3, TakeType DEF TypeOK
<1>. QED BY <1>1, <1>2, <1>4, <1>5, <1>6, <1>7, <1>8 DEF Batch

(* What a response does to the session and to the owner's events: nothing;  *)
(* a refusal; the activation's response, held or delivered; the lease's     *)
(* response, with the one it held back or alone.                            *)
Refusal == /\ barrier # None /\ ~held
           /\ refused' = TRUE /\ pipelining' = FALSE
           /\ UNCHANGED <<pending, barrier, held, replies>>
HoldsBack == /\ barrier # None /\ ~refused /\ pending # None
             /\ held' = TRUE
             /\ UNCHANGED <<pending, barrier, refused, pipelining, replies>>
BarrierDelivered == /\ barrier # None /\ pending = None
                    /\ barrier' = None /\ held' = FALSE /\ refused' = FALSE
                    /\ replies' = Append(replies, barrier.id)
                    /\ UNCHANGED <<pending, pipelining>>
BothDelivered == /\ pending # None /\ barrier # None
                 /\ pending' = None /\ barrier' = None /\ held' = FALSE /\ refused' = FALSE
                 /\ replies' = Append(Append(replies, pending.id), barrier.id)
                 /\ UNCHANGED pipelining
PendingDelivered == /\ pending # None /\ ~(barrier # None /\ held)
                    /\ pending' = None
                    /\ replies' = Append(replies, pending.id)
                    /\ UNCHANGED <<barrier, held, refused, pipelining>>

\* A response does one of these.
LEMMA AnswerEffect ==
  ASSUME ReadResponse
  PROVE  \/ UNCHANGED <<session, replies>>
         \/ Refusal \/ HoldsBack \/ BarrierDelivered \/ BothDelivered \/ PendingDelivered
<1>. DEFINE m == Head(toClient)
<1>1. CASE Awaits(m) /\ BarrierAnswered(m)
  BY <1>1, Zenon DEF Awaits, BarrierAnswered, Refusal, HoldsBack, BarrierDelivered
<1>2. CASE pending # None /\ pending.id = m.id /\ PendingAnswered(m)
  <2>1. CASE barrier # None /\ held
    BY <1>2, <2>1, Zenon DEF PendingAnswered, BothDelivered
  <2>2. CASE ~(barrier # None /\ held)
    BY <1>2, <2>2, Zenon DEF PendingAnswered, PendingDelivered
  <2>. QED BY <2>1, <2>2
<1>. QED BY <1>1, <1>2, Zenon DEF ReadResponse

\* The wait and the read.
LEMMA ReadType ==
  ASSUME TypeOK, Woken \/ Read
  PROVE  TypeOK'
<1>. USE DEF owner, session, inbound, events, daemon
<1>1. CASE Woken \/ ReadPart
  BY <1>1 DEF TypeOK, Woken, ReadPart
<1>2. ASSUME ReadFrame PROVE toClient' \in Seq(Messages) /\ reader' = "idle" /\ probing' = FALSE
  BY <1>2 DEF TypeOK, ReadFrame
<1>3. CASE ReadSurface
  BY <1>2, <1>3 DEF TypeOK, ReadSurface
<1>4. CASE ReadResponse
  <2>1. ReadFrame /\ UNCHANGED <<owner, round, queued, written, rejected, toDaemon, daemon>>
    BY <1>4 DEF ReadResponse
  <2>2. pc' \in {"top", "ended"}
    BY <1>4 DEF ReadResponse
  <2>3. /\ pending # None => pending.id \in Nat
        /\ barrier # None => barrier.id \in Nat
        /\ \A s \in Seq(Nat), n \in Nat : Append(s, n) \in Seq(Nat)
    BY DEF TypeOK, MaybeCommand, Commands
  <2>4. /\ pending' \in MaybeCommand /\ barrier' \in MaybeCommand
        /\ held' \in BOOLEAN /\ refused' \in BOOLEAN /\ pipelining' \in BOOLEAN
        /\ replies' \in Seq(Nat)
    <3>1. CASE UNCHANGED <<session, replies>>
      BY <3>1 DEF TypeOK
    <3>2. CASE Refusal \/ HoldsBack
      BY <3>2 DEF TypeOK, Refusal, HoldsBack
    <3>3. CASE BarrierDelivered \/ PendingDelivered
      BY <2>3, <3>3 DEF TypeOK, BarrierDelivered, PendingDelivered, MaybeCommand
    <3>4. CASE BothDelivered
      BY <2>3, <3>4 DEF TypeOK, BothDelivered, MaybeCommand
    <3>. QED BY <1>4, <3>1, <3>2, <3>3, <3>4, AnswerEffect
  <2>. QED BY <1>2, <2>1, <2>2, <2>4 DEF TypeOK
<1>. QED BY <1>1, <1>3, <1>4 DEF Read

\* The daemon's reads, answers and surfaces.
LEMMA DaemonType ==
  ASSUME TypeOK, Daemon
  PROVE  TypeOK'
<1>. USE DEF owner, worker, session, inbound, events
<1>0. \A s \in Seq(Messages), msg \in Messages : Append(s, msg) \in Seq(Messages)
  OBVIOUS
<1>1. \A c \in Commands, b \in BOOLEAN : Response(c, b) \in Messages
  BY DEF Response, Messages, Commands
<1>2. CASE DaemonReads
  <2>. DEFINE chunk == Head(toDaemon)
  <2>1. chunk \in Chunks /\ toDaemon' \in Seq(Chunks) /\ chunk.cmd \in MaybeCommand
    <3>1. toDaemon \in Seq(Chunks) /\ toDaemon # <<>> /\ toDaemon' = Tail(toDaemon)
      BY <1>2 DEF TypeOK, DaemonReads
    <3>2. chunk \in Chunks /\ toDaemon' \in Seq(Chunks)
      BY <3>1
    <3>. HIDE DEF chunk
    <3>. QED BY <3>2 DEF Chunks
  <2>2. assembling' \in MaybeCommand
    BY <1>2, <2>1 DEF DaemonReads, MaybeCommand
  <2>3. /\ toClient' \in Seq(Messages) /\ open' \subseteq Commands
        /\ executed' \in Seq(Commands) /\ busied' \subseteq Nat
    <3>1. CASE UNCHANGED <<toClient, open, executed, busied>>
      BY <3>1 DEF TypeOK
    <3>2. CASE /\ chunk.cmd # None
               /\ toClient' = Append(toClient, Response(chunk.cmd, TRUE))
               /\ busied' = busied \cup {chunk.cmd.id}
               /\ UNCHANGED <<open, executed>>
      <4>1. chunk.cmd \in Commands /\ chunk.cmd.id \in Nat
        BY <2>1, <3>2 DEF MaybeCommand, Commands
      <4>2. Response(chunk.cmd, TRUE) \in Messages
        BY <1>1, <4>1
      <4>3. Append(toClient, Response(chunk.cmd, TRUE)) \in Seq(Messages)
        BY <1>0, <4>2 DEF TypeOK
      <4>. HIDE DEF chunk
      <4>. QED BY <3>2, <4>1, <4>3 DEF TypeOK
    <3>3. CASE /\ chunk.cmd # None
               /\ executed' = Append(executed, chunk.cmd)
               /\ open' \in {open, open \cup {chunk.cmd}}
               /\ UNCHANGED <<toClient, busied>>
      <4>1. chunk.cmd \in Commands
        BY <2>1, <3>3 DEF MaybeCommand
      <4>. HIDE DEF chunk
      <4>. QED BY <3>3, <4>1 DEF TypeOK
    <3>. QED BY <1>2, <3>1, <3>2, <3>3 DEF DaemonReads
  <2>. QED BY <1>2, <2>1, <2>2, <2>3 DEF TypeOK, DaemonReads
<1>3. CASE DaemonAnswers
  <2>1. PICK c \in open : toClient' = Append(toClient, Response(c, FALSE)) /\ open' = open \ {c}
    BY <1>3 DEF DaemonAnswers
  <2>2. Response(c, FALSE) \in Messages
    BY <1>1 DEF TypeOK
  <2>3. toClient' \in Seq(Messages) /\ open' \subseteq Commands
    BY <1>0, <2>1, <2>2 DEF TypeOK
  <2>. QED BY <1>3, <2>3 DEF TypeOK, DaemonAnswers
<1>4. CASE DaemonDraws
  <2>1. PICK kind \in {"current", "other"} : toClient' = Append(toClient, [kind |-> kind])
    BY <1>4 DEF DaemonDraws
  <2>2. [kind |-> kind] \in Messages
    BY DEF Messages
  <2>3. toClient' \in Seq(Messages)
    BY <2>1, <2>2 DEF TypeOK
  <2>. QED BY <1>4, <2>3 DEF TypeOK, DaemonDraws
<1>. QED BY <1>2, <1>3, <1>4 DEF Daemon

\* Every step keeps the types.
LEMMA NextType ==
  ASSUME TypeOK, [Next]_vars
  PROVE  TypeOK'
<1>1. CASE Next
  BY <1>1, OwnerType, TopType, BatchType, ReadType, DaemonType DEF Next, Worker
<1>2. CASE UNCHANGED vars
  BY <1>2 DEF TypeOK, vars, owner, worker, session, inbound, events, daemon
<1>. QED BY <1>1, <1>2

-----------------------------------------------------------------------------
(* The order, by what a step does to the commands and the responses. *)

outstanding == <<pending, barrier, held, refused>>

\* Every command and every response has a number.
LEMMA Identifiers ==
  ASSUME TypeOK
  PROVE  /\ issued \in Nat
         /\ queued # None => queued.id \in Nat
         /\ pending # None => pending.id \in Nat
         /\ barrier # None => barrier.id \in Nat
         /\ \A i \in DOMAIN queue : queue[i].id \in Nat
         /\ \A i \in DOMAIN replies : replies[i] \in Nat
<1>1. /\ queue \in Seq(Commands) /\ replies \in Seq(Nat) /\ issued \in Nat
      /\ queued \in MaybeCommand /\ pending \in MaybeCommand /\ barrier \in MaybeCommand
  BY DEF TypeOK
<1>2. \A c \in MaybeCommand : c # None => c.id \in Nat
  BY DEF MaybeCommand, Commands
<1>3. \A i \in DOMAIN queue : queue[i].id \in Nat
  BY <1>1, CommandSeq
<1>4. \A i \in DOMAIN replies : replies[i] \in Nat
  BY <1>1
<1>. QED BY <1>1, <1>2, <1>3, <1>4

(* A step that leaves all of it alone. *)
LEMMA UnchangedOrder ==
  ASSUME Order, UNCHANGED <<issued, queue, queued, outstanding, replies>>
  PROVE  Order'
BY DEF Order, QueueOrder, RequestOrder, ReplyOrder, ResponsesInOrder, HeldAwaitsFocus, Later,
       outstanding

(* A new command is the last one issued. *)
LEMMA EnqueueOrder ==
  ASSUME TypeOK, Order, Enqueue
  PROVE  Order'
<1>1. PICK c \in Commands : queue' = Append(queue, c) /\ c.id = issued + 1 /\ issued' = issued + 1
  <2>1. PICK kind \in OwnerKinds, ok \in Valid :
          /\ queue' = Append(queue, [id |-> issued + 1, kind |-> kind, ok |-> ok])
          /\ issued' = issued + 1
    BY DEF Enqueue
  <2>. DEFINE c == [id |-> issued + 1, kind |-> kind, ok |-> ok]
  <2>2. c \in Commands /\ c.id = issued + 1
    BY <2>1, BoundsAssumption DEF TypeOK, Commands
  <2>. HIDE DEF c
  <2>3. queue' = Append(queue, c) /\ issued' = issued + 1
    BY <2>1 DEF c
  <2>. QED BY <2>2, <2>3
<1>2. /\ queue \in Seq(Commands)
      /\ Len(queue) \in Nat /\ DOMAIN queue = 1..Len(queue)
      /\ DOMAIN queue' = 1..(Len(queue) + 1)
      /\ queue'[Len(queue) + 1] = c
      /\ \A i \in DOMAIN queue : queue'[i] = queue[i]
  BY <1>1 DEF TypeOK
<1>3. UNCHANGED <<queued, pending, barrier, held, refused, replies>>
  BY DEF Enqueue, worker, session, events
<1>4. ASSUME NEW n \in Nat, n <= issued, Later(n)
      PROVE  Later(n)'
  BY <1>1, <1>2, <1>3, <1>4, Identifiers DEF Later
<1>5. QueueOrder'
  <2>1. \A i \in DOMAIN queue' : i \in DOMAIN queue \/ i = Len(queue) + 1
    BY <1>2
  <2>2. /\ \A i \in DOMAIN queue : queue'[i].id <= issued
        /\ queue'[Len(queue) + 1].id = issued + 1
    BY <1>1, <1>2 DEF Order, QueueOrder
  <2>3. \A i \in DOMAIN queue' : queue'[i].id <= issued'
    BY <1>1, <1>2, <2>1, <2>2, Identifiers
  <2>4. \A i, j \in DOMAIN queue' : i < j => queue'[i].id < queue'[j].id
    <3>. SUFFICES ASSUME NEW i \in DOMAIN queue', NEW j \in DOMAIN queue', i < j
                  PROVE  queue'[i].id < queue'[j].id
      OBVIOUS
    <3>1. i \in DOMAIN queue
      BY <1>2
    <3>2. CASE j \in DOMAIN queue
      BY <1>2, <3>1, <3>2 DEF Order, QueueOrder
    <3>3. CASE j = Len(queue) + 1
      BY <1>2, <2>2, <3>1, <3>3, Identifiers
    <3>. QED BY <2>1, <3>2, <3>3
  <2>5. queued' # None => /\ queued'.id <= issued'
                          /\ \A i \in DOMAIN queue' : queued'.id < queue'[i].id
    <3>1. queued # None => queued.id <= issued /\ \A i \in DOMAIN queue : queued.id < queue[i].id
      BY DEF Order, QueueOrder
    <3>. QED BY <1>1, <1>2, <1>3, <2>1, <2>2, <3>1, Identifiers
  <2>. QED BY <2>3, <2>4, <2>5 DEF QueueOrder
<1>6. RequestOrder'
  BY <1>1, <1>3, <1>4, Identifiers DEF Order, RequestOrder
<1>7. ReplyOrder'
  <2>1. ResponsesInOrder'
    BY <1>3 DEF Order, ReplyOrder, ResponsesInOrder
  <2>2. \A n \in Nat : (\E i \in DOMAIN replies : replies[i] = n) => n <= issued' /\ Later(n)'
    <3>. SUFFICES ASSUME NEW n \in Nat, NEW i \in DOMAIN replies, replies[i] = n
                  PROVE  n <= issued' /\ Later(n)'
      OBVIOUS
    <3>1. n <= issued /\ Later(n)
      BY DEF Order, ReplyOrder
    <3>. QED BY <1>1, <1>4, <3>1, Identifiers
  <2>3. \A i \in DOMAIN replies' : /\ replies'[i] = replies[i] /\ replies'[i] \in Nat
                                   /\ i \in DOMAIN replies
    BY <1>3, Identifiers
  <2>4. \A i \in DOMAIN replies' : replies'[i] <= issued' /\ Later(replies[i])'
    BY <2>2, <2>3
  <2>. QED BY <1>3, <2>1, <2>4 DEF Order, ReplyOrder
<1>8. HeldAwaitsFocus'
  BY <1>3 DEF Order, HeldAwaitsFocus
<1>. QED BY <1>5, <1>6, <1>7, <1>8 DEF Order

(* What every command taken leaves true of the responses. *)
LEMMA RepliesAfterTake ==
  ASSUME TypeOK, Order, Available, Unqueue, queued' \in {None, Current}, UNCHANGED replies
  PROVE  /\ ResponsesInOrder'
         /\ issued' = issued /\ Current.id \in Nat
         /\ \A i \in DOMAIN replies' : /\ replies'[i] <= issued' /\ Later(replies[i])'
                                       /\ replies'[i] < Current.id
<1>1. issued' = issued /\ Current.id \in Nat
  BY CurrentType DEF Unqueue, Commands
<1>2. ResponsesInOrder'
  BY DEF Order, ReplyOrder, ResponsesInOrder
<1>3. \A n \in Nat : Later(n) => n < Current.id /\ Later(n)'
  BY TakeOrder DEF Order
<1>4. \A i \in DOMAIN replies : replies[i] \in Nat /\ replies[i] <= issued /\ Later(replies[i])
  BY Identifiers DEF Order, ReplyOrder
<1>5. \A i \in DOMAIN replies' : i \in DOMAIN replies /\ replies'[i] = replies[i]
  OBVIOUS
<1>. QED BY <1>1, <1>2, <1>3, <1>4, <1>5

(* A command taken that opens no request: written, held, rejected, skipped. *)
LEMMA TakeKeepsOrder ==
  ASSUME TypeOK, Order, Available, Unqueue, queued' \in {None, Current},
         UNCHANGED <<outstanding, replies>>
  PROVE  Order'
<1>1. QueueOrder'
  BY TakeOrder DEF Order
<1>2. UNCHANGED <<pending, barrier, held, refused, issued>>
  BY DEF outstanding, Unqueue
<1>3. RequestOrder'
  <2>1. \A n \in Nat : Later(n) => Later(n)'
    BY TakeOrder DEF Order
  <2>. QED BY <1>2, <2>1, Identifiers DEF Order, RequestOrder
<1>4. ReplyOrder'
  BY <1>2, RepliesAfterTake DEF Order, ReplyOrder
<1>5. HeldAwaitsFocus'
  BY <1>2 DEF Order, HeldAwaitsFocus
<1>. QED BY <1>1, <1>3, <1>4, <1>5 DEF Order

(* A whole command written: a request becomes the lease's or the barrier.   *)
LEMMA WriteAllOrder ==
  ASSUME TypeOK, Order, WriteAll
  PROVE  Order'
<1>1. /\ Available /\ ~LeaseTaken(Current) /\ Unqueue /\ queued' = None
      /\ UNCHANGED replies
  BY DEF WriteAll, Sendable, Reached, Dispose, events
<1>2. CASE UNCHANGED session
  BY <1>1, <1>2, TakeKeepsOrder DEF session, outstanding
<1>3. CASE ~UNCHANGED session
  <2>1. Current.kind \in Requests
    BY <1>3 DEF WriteAll
  <2>2. barrier = None /\ (pending # None => pending.kind = "focus")
    BY <1>1, <2>1 DEF LeaseTaken, Pipelines
  <2>3. /\ QueueOrder' /\ Current.id <= issued /\ issued' = issued
        /\ Current.id \in Nat /\ Current # None
        /\ \A n \in Nat : n = Current.id => Later(n)'
        /\ \A n \in Nat : Later(n) => n < Current.id /\ Later(n)'
    BY <1>1, TakeOrder, CurrentType DEF Order, Unqueue, Commands
  <2>4. CASE pending # None
    <3>1. barrier' = Current /\ held' = FALSE /\ refused' = FALSE /\ pending' = pending
      BY <2>1, <2>4 DEF WriteAll
    <3>2. pending.id \in Nat /\ pending.id <= issued /\ Later(pending.id)
      BY <2>4, Identifiers DEF Order, RequestOrder
    <3>3. RequestOrder'
      BY <2>2, <2>3, <2>4, <3>1, <3>2 DEF RequestOrder
    <3>4. ReplyOrder'
      BY <1>1, <2>3, <3>1, RepliesAfterTake DEF Order, ReplyOrder
    <3>5. HeldAwaitsFocus'
      BY <3>1 DEF HeldAwaitsFocus
    <3>. QED BY <2>3, <3>3, <3>4, <3>5 DEF Order
  <2>5. CASE pending = None
    <3>1. pending' = Current /\ UNCHANGED <<barrier, held, refused>>
      BY <2>1, <2>5 DEF WriteAll
    <3>2. RequestOrder'
      BY <2>2, <2>3, <3>1 DEF RequestOrder
    <3>3. ReplyOrder'
      BY <1>1, <2>2, <2>3, <3>1, RepliesAfterTake DEF Order, ReplyOrder
    <3>4. HeldAwaitsFocus'
      BY <2>2, <3>1 DEF Order, HeldAwaitsFocus
    <3>. QED BY <2>3, <3>2, <3>3, <3>4 DEF Order
  <2>. QED BY <2>4, <2>5
<1>. QED BY <1>2, <1>3

(* A refused activation takes the lease with its second attempt. *)
LEMMA ResendOrder ==
  ASSUME TypeOK, Order, Resend
  PROVE  Order'
<1>1. /\ pending = None /\ barrier # None /\ pending' = barrier /\ barrier' = None
      /\ held' = FALSE /\ UNCHANGED <<issued, queue, queued, replies>>
  BY DEF Resend, ResendFirst, ResendReady, owner, events
<1>2. QueueOrder'
  BY <1>1 DEF Order, QueueOrder
<1>3. RequestOrder'
  BY <1>1 DEF Order, RequestOrder, Later
<1>4. ReplyOrder'
  BY <1>1 DEF Order, ReplyOrder, ResponsesInOrder, Later
<1>. QED BY <1>1, <1>2, <1>3, <1>4 DEF Order, HeldAwaitsFocus

(* Appending what is later than every response keeps them in order. *)
LEMMA AppendReply ==
  ASSUME NEW s \in Seq(Nat), NEW n \in Nat,
         \A i, j \in DOMAIN s : i < j => s[i] < s[j],
         \A i \in DOMAIN s : s[i] < n
  PROVE  /\ Append(s, n) \in Seq(Nat)
         /\ \A i, j \in DOMAIN Append(s, n) : i < j => Append(s, n)[i] < Append(s, n)[j]
         /\ \A i \in DOMAIN Append(s, n) : \/ i \in DOMAIN s /\ Append(s, n)[i] = s[i]
                                           \/ Append(s, n)[i] = n
<1>1. /\ Len(s) \in Nat /\ DOMAIN s = 1..Len(s) /\ DOMAIN Append(s, n) = 1..(Len(s) + 1)
      /\ Append(s, n)[Len(s) + 1] = n
      /\ \A i \in 1..Len(s) : Append(s, n)[i] = s[i]
  OBVIOUS
<1>2. \A i \in 1..(Len(s) + 1) : i \in 1..Len(s) \/ i = Len(s) + 1
  BY <1>1
<1>3. \A i, j \in 1..(Len(s) + 1) : i < j => i \in 1..Len(s)
  BY <1>1
<1>. QED BY <1>1, <1>2, <1>3

(* A response delivers the oldest outstanding request, or is held for it. *)
LEMMA AnswerOrder ==
  ASSUME TypeOK, Order, ReadResponse
  PROVE  Order'
<1>1. UNCHANGED <<issued, queue, queued>>
  BY DEF ReadResponse, owner
<1>2. QueueOrder'
  BY <1>1 DEF Order, QueueOrder
<1>3. \A n \in Nat : Later(n) => Later(n)'
  BY <1>1 DEF Later
<1>4. /\ replies \in Seq(Nat) /\ issued \in Nat
      /\ \A i, j \in DOMAIN replies : i < j => replies[i] < replies[j]
      /\ \A i \in DOMAIN replies :
           /\ replies[i] \in Nat /\ replies[i] <= issued /\ Later(replies[i])
           /\ pending # None => replies[i] < pending.id
           /\ barrier # None => replies[i] < barrier.id
  BY Identifiers DEF TypeOK, Order, ReplyOrder, ResponsesInOrder
<1>5. /\ pending # None => pending.id \in Nat /\ pending.id <= issued /\ Later(pending.id)
      /\ barrier # None => barrier.id \in Nat /\ barrier.id <= issued /\ Later(barrier.id)
      /\ (pending # None /\ barrier # None) => pending.id < barrier.id /\ pending.kind = "focus"
  BY Identifiers DEF Order, RequestOrder
<1>6. CASE UNCHANGED <<session, replies>>
  BY <1>1, <1>6, UnchangedOrder DEF session, outstanding
<1>7. CASE Refusal \/ HoldsBack
  <2>1. UNCHANGED <<pending, barrier, replies>>
    BY <1>7 DEF Refusal, HoldsBack
  <2>2. RequestOrder' /\ ReplyOrder'
    BY <1>1, <2>1 DEF Order, RequestOrder, ReplyOrder, ResponsesInOrder, Later
  <2>3. HeldAwaitsFocus'
    BY <1>5, <1>7 DEF Order, HeldAwaitsFocus, Refusal, HoldsBack
  <2>. QED BY <1>2, <2>2, <2>3 DEF Order
<1>8. CASE BarrierDelivered
  <2>1. /\ barrier # None /\ pending' = None /\ barrier' = None /\ held' = FALSE
        /\ replies' = Append(replies, barrier.id)
    BY <1>8 DEF BarrierDelivered
  <2>2. /\ \A i, j \in DOMAIN replies' : i < j => replies'[i] < replies'[j]
        /\ \A i \in DOMAIN replies' : \/ i \in DOMAIN replies /\ replies'[i] = replies[i]
                                      \/ replies'[i] = barrier.id
    BY <1>4, <1>5, <2>1, AppendReply
  <2>3. \A i \in DOMAIN replies' : replies'[i] <= issued' /\ Later(replies[i])'
    BY <1>1, <1>3, <1>4, <1>5, <2>1, <2>2
  <2>4. RequestOrder' /\ HeldAwaitsFocus'
    BY <2>1 DEF RequestOrder, HeldAwaitsFocus
  <2>. QED BY <1>2, <2>1, <2>2, <2>3, <2>4 DEF Order, ReplyOrder, ResponsesInOrder
<1>9. CASE PendingDelivered
  <2>1. /\ pending # None /\ ~(barrier # None /\ held) /\ pending' = None
        /\ UNCHANGED <<barrier, held, refused>>
        /\ replies' = Append(replies, pending.id)
    BY <1>9 DEF PendingDelivered
  <2>2. /\ \A i, j \in DOMAIN replies' : i < j => replies'[i] < replies'[j]
        /\ \A i \in DOMAIN replies' : \/ i \in DOMAIN replies /\ replies'[i] = replies[i]
                                      \/ replies'[i] = pending.id
    BY <1>4, <1>5, <2>1, AppendReply
  <2>3. \A i \in DOMAIN replies' : /\ replies'[i] <= issued' /\ Later(replies[i])'
                                   /\ barrier' # None => replies'[i] < barrier'.id
    BY <1>1, <1>3, <1>4, <1>5, <2>1, <2>2
  <2>4. RequestOrder'
    BY <1>1, <1>3, <1>5, <2>1 DEF RequestOrder
  <2>5. HeldAwaitsFocus'
    BY <2>1 DEF Order, HeldAwaitsFocus
  <2>. QED BY <1>2, <2>1, <2>2, <2>3, <2>4, <2>5 DEF Order, ReplyOrder, ResponsesInOrder
<1>10. CASE BothDelivered
  <2>. DEFINE one == Append(replies, pending.id)
  <2>1. /\ pending # None /\ barrier # None /\ pending' = None /\ barrier' = None
        /\ held' = FALSE /\ replies' = Append(one, barrier.id)
    BY <1>10 DEF BothDelivered
  <2>2. /\ one \in Seq(Nat) /\ \A i, j \in DOMAIN one : i < j => one[i] < one[j]
        /\ \A i \in DOMAIN one : \/ i \in DOMAIN replies /\ one[i] = replies[i]
                                 \/ one[i] = pending.id
    BY <1>4, <1>5, <2>1, AppendReply
  <2>3. \A i \in DOMAIN one : /\ one[i] \in Nat /\ one[i] <= issued /\ Later(one[i])
                              /\ one[i] < barrier.id
    BY <1>4, <1>5, <2>1, <2>2
  <2>. HIDE DEF one
  <2>4. /\ \A i, j \in DOMAIN replies' : i < j => replies'[i] < replies'[j]
        /\ \A i \in DOMAIN replies' : \/ i \in DOMAIN one /\ replies'[i] = one[i]
                                      \/ replies'[i] = barrier.id
    BY <1>5, <2>1, <2>2, <2>3, AppendReply
  <2>5. \A i \in DOMAIN replies' : replies'[i] <= issued' /\ Later(replies[i])'
    BY <1>1, <1>3, <1>5, <2>1, <2>3, <2>4
  <2>6. RequestOrder' /\ HeldAwaitsFocus'
    BY <2>1 DEF RequestOrder, HeldAwaitsFocus
  <2>. QED BY <1>2, <2>1, <2>4, <2>5, <2>6 DEF Order, ReplyOrder, ResponsesInOrder
<1>. QED BY <1>6, <1>7, <1>8, <1>9, <1>10, AnswerEffect

-----------------------------------------------------------------------------
\* One iteration of the batch keeps the order.
LEMMA BatchOrder ==
  ASSUME TypeOK, Order, Batch
  PROVE  Order'
<1>. USE DEF owner, session, events
<1>1. CASE ResumeInput \/ WriteBounded \/ ImageWrites
  <2>1. Available /\ WriteSome /\ UNCHANGED <<outstanding, replies>>
    BY <1>1 DEF ResumeInput, WriteBounded, ImageWrites, Sendable, Reached, outstanding
  <2>2. Unqueue /\ queued' \in {None, Current}
    BY <2>1, WriteSomeType
  <2>. QED BY <2>1, <2>2, TakeKeepsOrder
<1>2. CASE FenceHolds \/ LeaseHolds \/ ImagePreparing \/ ImageClosed \/ Reject \/ ImageExpires
  <2>1. Available /\ Unqueue /\ queued' \in {None, Current} /\ UNCHANGED <<outstanding, replies>>
    BY <1>2 DEF FenceHolds, LeaseHolds, ImagePreparing, ImageClosed, Reject, ImageExpires,
                Sendable, Reached, Hold, Dispose, outstanding
  <2>. QED BY <2>1, TakeKeepsOrder
<1>3. CASE ImageCancelled
  <2>1. CASE End
    BY <2>1, UnchangedOrder DEF End, outstanding
  <2>2. CASE ~End
    <3>1. Available /\ Unqueue /\ queued' \in {None, Current} /\ UNCHANGED <<outstanding, replies>>
      BY <1>3, <2>2 DEF ImageCancelled, Sendable, Reached, Dispose, outstanding
    <3>. QED BY <3>1, TakeKeepsOrder
  <2>. QED BY <2>1, <2>2
<1>4. CASE BatchEnds
  BY <1>4, UnchangedOrder DEF BatchEnds, outstanding
<1>. QED BY <1>1, <1>2, <1>3, <1>4, ResendOrder, WriteAllOrder DEF Batch

(* The inductive step: every action of the owner, the worker, the clock and *)
(* the daemon keeps types and order.                                        *)
LEMMA NextIInv ==
  ASSUME IInv, [Next]_vars
  PROVE  IInv'
<1>. USE DEF owner, worker, session, events, daemon, outstanding
<1>1. TypeOK'
  BY NextType DEF IInv
<1>2. Order'
  <2>1. CASE Owner
    <3>1. CASE Enqueue
      BY <3>1, EnqueueOrder DEF IInv
    <3>2. CASE \E id \in 1..MaxCommands : PublishImage(id) \/ CloseImage(id) \/ CancelImage(id)
      <4>1. UNCHANGED <<issued, queue, queued, outstanding, replies>>
        BY <3>2 DEF PublishImage, CloseImage, CancelImage
      <4>. QED BY <4>1, UnchangedOrder DEF IInv
    <3>. QED BY <2>1, <3>1, <3>2 DEF Owner
  <2>2. CASE Stop \/ Timeout
    <3>1. UNCHANGED <<issued, queue, queued, outstanding, replies>>
      BY <2>2 DEF Stop, Timeout, RequestTimeout, FrameTimeout, HealthTimeout, End
    <3>. QED BY <3>1, UnchangedOrder DEF IInv
  <2>3. CASE Top
    <3>1. UNCHANGED <<issued, queue, queued, outstanding, replies>>
      BY <2>3 DEF Top, End
    <3>. QED BY <3>1, UnchangedOrder DEF IInv
  <2>4. CASE Batch
    BY <2>4, BatchOrder DEF IInv
  <2>5. CASE Woken \/ ReadPart \/ ReadSurface
    <3>1. UNCHANGED <<issued, queue, queued, outstanding, replies>>
      BY <2>5 DEF Woken, ReadPart, ReadSurface
    <3>. QED BY <3>1, UnchangedOrder DEF IInv
  <2>6. CASE ReadResponse
    BY <2>6, AnswerOrder DEF IInv
  <2>7. CASE Daemon
    <3>1. UNCHANGED <<issued, queue, queued, outstanding, replies>>
      BY <2>7 DEF Daemon, DaemonReads, DaemonAnswers, DaemonDraws
    <3>. QED BY <3>1, UnchangedOrder DEF IInv
  <2>8. CASE UNCHANGED vars
    <3>1. UNCHANGED <<issued, queue, queued, outstanding, replies>>
      BY <2>8 DEF vars
    <3>. QED BY <3>1, UnchangedOrder DEF IInv
  <2>. QED BY <2>1, <2>2, <2>3, <2>4, <2>5, <2>6, <2>7, <2>8 DEF Next, Worker, Read
<1>. QED BY <1>1, <1>2 DEF IInv

\* Nothing is issued at first.
LEMMA InitIInv ==
  ASSUME Init
  PROVE  IInv
<1>1. TypeOK
  <2>1. queue \in Seq(Commands) /\ Len(queue) <= QueueCapacity
    BY BoundsAssumption DEF Init
  <2>2. slot \in [1..MaxCommands -> SlotStates]
    BY DEF Init, SlotStates
  <2>3. pipelining \in BOOLEAN /\ exempt \in BOOLEAN
    BY BoundsAssumption DEF Init
  <2>4. round \in 0..BatchLimit
    BY BoundsAssumption DEF Init
  <2>5. /\ replies \in Seq(Nat) /\ executed \in Seq(Commands)
        /\ toDaemon \in Seq(Chunks) /\ toClient \in Seq(Messages)
    BY DEF Init
  <2>6. /\ queued \in MaybeCommand /\ pending \in MaybeCommand /\ barrier \in MaybeCommand
        /\ assembling \in MaybeCommand /\ written \in Progress
    BY DEF Init, MaybeCommand, Progress
  <2>7. /\ issued \in Nat /\ surfaces \in Nat
        /\ requested = {} /\ rejected = {} /\ open = {} /\ busied = {}
        /\ pc = "top" /\ reader = "idle" /\ held = FALSE /\ refused = FALSE /\ probing = FALSE
    BY DEF Init
  <2>. QED BY <2>1, <2>2, <2>3, <2>4, <2>5, <2>6, <2>7 DEF TypeOK
<1>2. Order
  BY DEF Init, Order, QueueOrder, RequestOrder, ReplyOrder, ResponsesInOrder, HeldAwaitsFocus, Later
<1>. QED BY <1>1, <1>2 DEF IInv

(* The inductive invariant holds in every reachable state. *)
THEOREM Invariance == Spec => []IInv
<1>1. Init => IInv
  BY InitIInv
<1>2. IInv /\ [Next]_vars => IInv'
  BY NextIInv
<1>. QED BY <1>1, <1>2, PTL DEF Spec

(* Type correctness of the worker's state, its queue's bound included, for  *)
(* every capacity and batch limit.                                          *)
THEOREM TypeCorrect == Spec => []TypeOK
<1>1. IInv => TypeOK
  BY DEF IInv
<1>. QED BY <1>1, Invariance, PTL

(* Responses reach the owner in the order of issue whatever order the       *)
(* daemon answers in, refusals and resends included (the response arm of    *)
(* handle_message, take_refused_barrier).                                   *)
THEOREM ResponsesOrdered == Spec => []ResponsesInOrder
<1>1. IInv => ResponsesInOrder
  BY DEF IInv, Order, ReplyOrder
<1>. QED BY <1>1, Invariance, PTL

(* A held response always has the focus response that delivers it ahead of  *)
(* it (Barrier.held in handle_message).                                     *)
THEOREM HeldNeverStranded == Spec => []HeldAwaitsFocus
<1>1. IInv => HeldAwaitsFocus
  BY DEF IInv, Order
<1>. QED BY <1>1, Invariance, PTL

-----------------------------------------------------------------------------
(* The frame a receiver is in the middle of before chunk i of w, when it    *)
(* was in the middle of a before the first.                                 *)
Half(chunk) == IF chunk.part = "first" THEN chunk.cmd ELSE None
Before(a, w, i) == IF i = 1 THEN a ELSE Half(w[i - 1])
Intact(a, w) == \A i \in DOMAIN w : Follows(Before(a, w, i), w[i])

(* The wire ends inside a frame exactly when the worker holds a command it  *)
(* wrote in part; such a command is one that may be written in part, is not *)
(* rejected any more, and if it is an image, was published.                 *)
Frames ==
  /\ Intact(assembling, toDaemon)
  /\ Before(assembling, toDaemon, Len(toDaemon) + 1) = IF written = "partial" THEN queued ELSE None
  /\ queued = None => written = "none"
  /\ written # "none" => queued.kind \in {"input", "image"}
  /\ written = "partial" =>
       /\ queued.ok
       /\ queued.kind = "image" => slot[queued.id] \in {"published", "cancelled"}

(* Commands are numbered within the bound, so an image has a slot. *)
Numbered ==
  /\ issued <= MaxCommands
  /\ queued # None => queued.id \in 1..MaxCommands
  /\ \A i \in DOMAIN queue : queue[i].id \in 1..MaxCommands

(* A chunk that completes a command; a response that refuses one. *)
Complete(chunk) == chunk.part # "first" /\ chunk.cmd # None
Refuses(m) == m.kind = "response" /\ m.busy

(* The commands the daemon acted on or was sent whole, and the ones it      *)
(* refused in a response not yet read.                                      *)
Sent == {executed[i] : i \in DOMAIN executed}
          \cup {toDaemon[i].cmd : i \in {j \in DOMAIN toDaemon : Complete(toDaemon[j])}}
Refused == {toClient[i].id : i \in {j \in DOMAIN toClient : Refuses(toClient[j])}}
Unsent(n) == \A c \in Sent : c.id # n

(* All of these were issued before what the worker still has. *)
Past(n) == n <= issued /\ Later(n)
Recent == (\A c \in Sent : Past(c.id)) /\ (\A n \in Refused : Past(n))

(* y may be acted on after x. *)
MayFollow(x, y) ==
  /\ x.id # y.id
  /\ x.id > y.id => y.kind = "activate" /\ y.id \in busied /\ x.kind \notin Requests

(* The commands acted on and, behind them, the ones on the wire. *)
InLine ==
  /\ \A i, j \in DOMAIN executed : i < j => MayFollow(executed[i], executed[j])
  /\ \A i \in DOMAIN executed, j \in DOMAIN toDaemon :
       Complete(toDaemon[j]) => MayFollow(executed[i], toDaemon[j].cmd)
  /\ \A i, j \in DOMAIN toDaemon :
       (i < j /\ Complete(toDaemon[i]) /\ Complete(toDaemon[j])) =>
         MayFollow(toDaemon[i].cmd, toDaemon[j].cmd)

(* A command is refused once at a time, and one that was refused, the       *)
(* activation to be resent too, is nowhere else.                            *)
RefusedOnce ==
  \A i, j \in DOMAIN toClient :
    (i # j /\ Refuses(toClient[i]) /\ Refuses(toClient[j])) => toClient[i].id # toClient[j].id
Refusals ==
  /\ \A n \in Refused : n \in busied /\ Unsent(n)
  /\ (barrier # None /\ refused) =>
       barrier.id \in busied /\ Unsent(barrier.id) /\ barrier.id \notin Refused

(* No request overtakes a pipelined activation. *)
Fence ==
  barrier # None =>
    /\ barrier.kind = "activate"
    /\ \A c \in Sent : c.id > barrier.id => c.kind \notin Requests

(* A rejected command is behind the worker and was none of its requests; a  *)
(* command that is no request is not counted as one.                        *)
Rejections ==
  /\ \A n \in rejected :
       /\ Past(n)
       /\ pending # None => n # pending.id
       /\ barrier # None => n # barrier.id
       /\ \A i \in DOMAIN replies : replies[i] # n
  /\ \A n \in requested : n <= issued
  /\ queued # None => (queued.id \in requested => queued.kind \in Requests)
  /\ \A i \in DOMAIN queue : queue[i].id \in requested => queue[i].kind \in Requests

(* Every request is somewhere. *)
Placed(id) ==
  \/ \E c \in Outstanding \cup Waiting : c.id = id
  \/ \E i \in DOMAIN replies : replies[i] = id
  \/ id \in rejected
AllPlaced == \A id \in requested : Placed(id)

Wire == Recent /\ InLine /\ RefusedOnce /\ Refusals /\ Fence
Accounts == Rejections /\ AllPlaced
WInv == IInv /\ Numbered /\ Frames /\ Wire /\ Accounts

-----------------------------------------------------------------------------
(* Frames *)

\* FramesIntact in terms of the receiver's state.
LEMMA IntactMeans ==
  FramesIntact <=> Intact(assembling, toDaemon)
BY DEF FramesIntact, Intact, Before, Half

\* A chunk that may follow the last keeps the frames whole.
LEMMA AppendIntact ==
  ASSUME NEW a, NEW w \in Seq(Chunks), NEW x \in Chunks,
         Intact(a, w), Follows(Before(a, w, Len(w) + 1), x)
  PROVE  /\ Intact(a, Append(w, x))
         /\ Before(a, Append(w, x), Len(Append(w, x)) + 1) = Half(x)
<1> DEFINE v == Append(w, x)
<1>1. /\ Len(w) \in Nat /\ DOMAIN w = 1..Len(w) /\ Len(v) = Len(w) + 1
      /\ DOMAIN v = 1..(Len(w) + 1) /\ v[Len(w) + 1] = x
      /\ \A i \in 1..Len(w) : v[i] = w[i]
  OBVIOUS
<1> HIDE DEF v
<1>2. \A i \in 1..(Len(w) + 1) : Before(a, v, i) = Before(a, w, i)
  <2> SUFFICES ASSUME NEW i \in 1..(Len(w) + 1)
               PROVE  Before(a, v, i) = Before(a, w, i)
    OBVIOUS
  <2>1. i # 1 => i - 1 \in 1..Len(w)
    BY <1>1
  <2> QED
    BY <1>1, <2>1 DEF Before
<1>3. \A i \in 1..(Len(w) + 1) : Follows(Before(a, v, i), v[i])
  <2>1. \A i \in 1..(Len(w) + 1) : i \in 1..Len(w) \/ i = Len(w) + 1
    BY <1>1
  <2> QED
    BY <1>1, <1>2, <2>1 DEF Intact
<1>4. Before(a, v, Len(v) + 1) = Half(x)
  <2>1. Len(v) + 1 # 1 /\ (Len(v) + 1) - 1 = Len(w) + 1
    BY <1>1
  <2> QED
    BY <1>1, <2>1 DEF Before
<1>5. Intact(a, v)
  BY <1>1, <1>3 DEF Intact
<1> QED
  BY <1>4, <1>5 DEF v

\* The receiver reads the first chunk.
LEMMA TailIntact ==
  ASSUME NEW a, NEW w \in Seq(Chunks), w # <<>>, Intact(a, w)
  PROVE  /\ Intact(Half(Head(w)), Tail(w))
         /\ Before(Half(Head(w)), Tail(w), Len(Tail(w)) + 1) = Before(a, w, Len(w) + 1)
<1> DEFINE v == Tail(w)
           b == Half(Head(w))
<1>1. /\ Len(w) \in Nat /\ Len(w) >= 1 /\ DOMAIN w = 1..Len(w) /\ Len(v) = Len(w) - 1
      /\ DOMAIN v = 1..(Len(w) - 1) /\ b = Half(w[1])
      /\ \A i \in 1..(Len(w) - 1) : v[i] = w[i + 1]
  OBVIOUS
<1> HIDE DEF v, b
<1>2. \A i \in 1..Len(w) : Before(b, v, i) = Before(a, w, i + 1)
  <2> SUFFICES ASSUME NEW i \in 1..Len(w)
               PROVE  Before(b, v, i) = Before(a, w, i + 1)
    OBVIOUS
  <2>1. CASE i = 1
    BY <1>1, <2>1 DEF Before
  <2>2. CASE i # 1
    <3>1. i - 1 \in 1..(Len(w) - 1) /\ (i - 1) + 1 = i /\ (i + 1) - 1 = i /\ i + 1 # 1
      BY <1>1, <2>2
    <3> QED
      BY <1>1, <2>2, <3>1 DEF Before
  <2> QED
    BY <2>1, <2>2
<1>3. \A i \in 1..(Len(w) - 1) : i \in 1..Len(w) /\ i + 1 \in 1..Len(w)
  BY <1>1
<1>4. Intact(b, v)
  BY <1>1, <1>2, <1>3 DEF Intact
<1>5. Before(b, v, Len(v) + 1) = Before(a, w, Len(w) + 1)
  BY <1>1, <1>2
<1> QED
  BY <1>4, <1>5 DEF v, b

\* A step that leaves the wire and what is being written alone.
LEMMA UnchangedFrames ==
  ASSUME Frames, UNCHANGED <<assembling, toDaemon, queued, written, slot>>
  PROVE  Frames'
BY DEF Frames, Intact, Before

\* A frame in one piece goes out when none is half written.
LEMMA WholeFrames ==
  ASSUME TypeOK, Frames, NEW x \in Chunks, x.part = "whole", toDaemon' = Append(toDaemon, x),
         written # "partial", queued' = None \/ queued' = queued, written' \in {"none", written},
         queued' = None => written' = "none", UNCHANGED <<assembling, slot>>
  PROVE  Frames'
<1>1. /\ toDaemon \in Seq(Chunks) /\ Intact(assembling, toDaemon)
      /\ Before(assembling, toDaemon, Len(toDaemon) + 1) = None
  BY DEF TypeOK, Frames
<1>2. Follows(Before(assembling, toDaemon, Len(toDaemon) + 1), x)
  BY <1>1 DEF Follows
<1>3. /\ Intact(assembling, toDaemon')
      /\ Before(assembling, toDaemon', Len(toDaemon') + 1) = Half(x)
  BY <1>1, <1>2, AppendIntact
<1>4. Half(x) = None /\ written' # "partial"
  BY DEF Half
<1>5. written' # "none" => queued'.kind \in {"input", "image"}
  BY DEF Frames
<1> QED
  BY <1>3, <1>4, <1>5 DEF Frames, Intact, Before

\* A bounded write of input, or of an image that was published.
LEMMA WriteSomeFrames ==
  ASSUME TypeOK, Frames, Available, WriteSome, UNCHANGED <<assembling, slot>>,
         Current.kind \in {"input", "image"}, Current.ok,
         Current.kind = "image" => slot[Current.id] \in {"published", "cancelled"}
  PROVE  Frames'
<1>1. Current \in Commands /\ Current # None /\ (queued # None => Current = queued)
  BY CurrentType
<1>2. Whole(Current) \in Chunks /\ First(Current) \in Chunks /\ Last(Current) \in Chunks
  BY <1>1, ChunkType
<1>3. toDaemon \in Seq(Chunks) /\ Intact(assembling, toDaemon)
  BY DEF TypeOK, Frames
<1> DEFINE end == Before(assembling, toDaemon, Len(toDaemon) + 1)
<1>4. end = IF written = "partial" THEN Current ELSE None
  BY <1>1 DEF Frames
<1> HIDE DEF end
<1>5. \A x \in Chunks : (toDaemon' = Append(toDaemon, x) /\ Follows(end, x)) =>
         /\ Intact(assembling, toDaemon')
         /\ Before(assembling, toDaemon', Len(toDaemon') + 1) = Half(x)
  BY <1>3, AppendIntact DEF end
<1>6. CASE /\ toDaemon' = Append(toDaemon, IF written = "partial" THEN Last(Current) ELSE Whole(Current))
           /\ Dispose
  <2>1. /\ Half(Last(Current)) = None /\ Half(Whole(Current)) = None
        /\ written = "partial" => Follows(end, Last(Current))
        /\ written # "partial" => Follows(end, Whole(Current))
    BY <1>1, <1>4 DEF Half, Last, Whole, Follows
  <2>2. /\ Intact(assembling, toDaemon')
        /\ Before(assembling, toDaemon', Len(toDaemon') + 1) = None
    BY <1>2, <1>5, <1>6, <2>1
  <2>3. queued' = None /\ written' = "none"
    BY <1>6 DEF Dispose
  <2> QED
    BY <2>2, <2>3 DEF Frames, Intact, Before
<1>7. CASE /\ toDaemon' = IF written = "partial" THEN toDaemon ELSE Append(toDaemon, First(Current))
           /\ Hold("partial")
  <2>1. queued' = Current /\ written' = "partial"
    BY <1>7 DEF Hold
  <2>2. /\ Intact(assembling, toDaemon')
        /\ Before(assembling, toDaemon', Len(toDaemon') + 1) = Current
    <3>1. CASE written = "partial"
      BY <1>3, <1>4, <1>7, <3>1 DEF end
    <3>2. CASE written # "partial"
      <4>1. Half(First(Current)) = Current /\ Follows(end, First(Current))
        BY <1>4, <3>2 DEF Half, First, Follows
      <4> QED
        BY <1>2, <1>5, <1>7, <3>2, <4>1
    <3> QED
      BY <3>1, <3>2
  <2> QED
    BY <1>1, <2>1, <2>2 DEF Frames, Intact, Before
<1>8. CASE toDaemon' = toDaemon /\ Hold(IF written = "partial" THEN "partial" ELSE "attempted")
  <2>1. queued' = Current /\ written' = IF written = "partial" THEN "partial" ELSE "attempted"
    BY <1>8 DEF Hold
  <2>2. /\ Intact(assembling, toDaemon')
        /\ Before(assembling, toDaemon', Len(toDaemon') + 1) = end
    BY <1>3, <1>8 DEF end
  <2> QED
    BY <1>1, <1>4, <2>1, <2>2 DEF Frames, Intact, Before
<1> QED
  BY <1>6, <1>7, <1>8 DEF WriteSome

\* A command is dropped, none of it written, or held as it is.
LEMMA TakeFrames ==
  ASSUME Frames, UNCHANGED <<assembling, toDaemon>>,
         \/ written # "partial" /\ queued' = None /\ written' = "none"
         \/ UNCHANGED slot /\ queued' = Current /\ written' = IF queued # None THEN written ELSE "none"
  PROVE  Frames'
<1>1. /\ Intact(assembling, toDaemon)' /\ queued = None => written = "none"
      /\ Before(assembling, toDaemon, Len(toDaemon) + 1)' = IF written = "partial" THEN queued ELSE None
  BY DEF Frames, Intact, Before
<1>2. CASE written # "partial" /\ queued' = None /\ written' = "none"
  BY <1>1, <1>2 DEF Frames
<1>3. CASE UNCHANGED slot /\ queued' = Current /\ written' = IF queued # None THEN written ELSE "none"
  <2>1. CASE queued # None
    BY <1>1, <1>3, <2>1 DEF Frames, Current
  <2>2. CASE queued = None
    BY <1>1, <1>3, <2>2 DEF Frames
  <2> QED
    BY <2>1, <2>2
<1> QED
  BY <1>2, <1>3

\* What is written in part is not rejected, skipped or found unpublished.
LEMMA PartialIsKept ==
  ASSUME TypeOK, Frames, Reached, written = "partial"
  PROVE  /\ queued # None /\ Current = queued /\ Current.kind = "image" /\ Current.ok
         /\ slot[Current.id] \in {"published", "cancelled"} /\ Started(Current)
<1>1. queued # None /\ Current = queued
  BY DEF Frames, Current
<1>2. Started(Current)
  BY <1>1 DEF Started
<1>3. Current.kind = "image"
  BY <1>2 DEF Reached
<1> QED
  BY <1>1, <1>2, <1>3 DEF Frames

\* Taking a command gives out no number.
LEMMA TakeNumbered ==
  ASSUME TypeOK, Numbered, Available, Unqueue, queued' \in {None, Current}
  PROVE  Numbered'
<1>1. /\ Current \in Commands
      /\ queued = None => queue # <<>> /\ Current = queue[1] /\ Len(queue) \in Nat \ {0}
      /\ queued # None => Current = queued
  BY CurrentType
<1>2. /\ queue' \in Seq(Commands) /\ issued' = issued
      /\ queued # None => queue' = queue
      /\ queued = None => /\ Len(queue') = Len(queue) - 1
                          /\ \A i \in 1..Len(queue') : queue'[i] = queue[i + 1]
  BY UnqueueEffect
<1>3. DOMAIN queue = 1..Len(queue) /\ DOMAIN queue' = 1..Len(queue') /\ Len(queue') \in Nat
  <2>1. queue \in Seq(Commands) /\ queue' \in Seq(Commands)
    BY <1>2 DEF TypeOK
  <2> QED
    BY <2>1
<1>4. \A i \in DOMAIN queue' : queue'[i].id \in 1..MaxCommands
  <2>1. CASE queued # None
    BY <1>2, <2>1 DEF Numbered
  <2>2. CASE queued = None
    <3>1. \A i \in 1..Len(queue') : i + 1 \in DOMAIN queue
      BY <1>1, <1>2, <1>3, <2>2
    <3> QED
      BY <1>2, <1>3, <2>2, <3>1 DEF Numbered
  <2> QED
    BY <2>1, <2>2
<1>5. Current.id \in 1..MaxCommands
  BY <1>1, <1>3 DEF Numbered
<1> QED
  BY <1>2, <1>4, <1>5 DEF Numbered

\* No step gives out a number past the bound.
LEMMA NumberedStep ==
  ASSUME TypeOK, Numbered, [Next]_vars
  PROVE  Numbered'
<1> USE DEF owner, worker, session, inbound, events, daemon
<1>1. CASE Enqueue
  <2>1. PICK kind \in OwnerKinds, ok \in Valid :
          queue' = Append(queue, [id |-> issued + 1, kind |-> kind, ok |-> ok])
    BY <1>1 DEF Enqueue
  <2> DEFINE c == [id |-> issued + 1, kind |-> kind, ok |-> ok]
  <2>2. c.id = issued + 1
    OBVIOUS
  <2>3. /\ issued' = issued + 1 /\ issued < MaxCommands /\ issued \in Nat
        /\ UNCHANGED queued /\ queue \in Seq(Commands)
    BY <1>1 DEF Enqueue, TypeOK
  <2>4. queue' = Append(queue, c) /\ c \in Commands
    BY <2>1, <2>3, BoundsAssumption DEF Commands
  <2> HIDE DEF c
  <2>5. \A i \in DOMAIN queue' : (i \in DOMAIN queue /\ queue'[i] = queue[i]) \/ queue'[i] = c
    BY <2>3, <2>4
  <2> QED
    BY <2>2, <2>3, <2>5, BoundsAssumption DEF Numbered
<1>2. CASE UNCHANGED <<issued, queued, queue>>
  BY <1>2 DEF Numbered
<1>3. ASSUME Batch PROVE Numbered'
  <2>1. CASE Available /\ Unqueue /\ queued' \in {None, Current}
    BY <2>1, TakeNumbered
  <2>2. Available /\ WriteSome => Unqueue /\ queued' \in {None, Current}
    BY WriteSomeType
  <2>3. \/ UNCHANGED <<issued, queued, queue>>
        \/ Available /\ Unqueue /\ queued' \in {None, Current}
    BY <1>3, <2>2 DEF Batch, Resend, ResumeInput, FenceHolds, Reject, LeaseHolds, ImageCancelled,
         ImageClosed, ImagePreparing, ImageWrites, ImageExpires, WriteBounded, WriteAll, BatchEnds,
         Sendable, Reached, Hold, Dispose, End
  <2> QED
    BY <1>2, <2>1, <2>3
<1>4. CASE Next
  <2>1. Enqueue \/ Batch \/ UNCHANGED <<issued, queued, queue>>
    BY <1>4 DEF Next, Owner, PublishImage, CloseImage, CancelImage, Stop, End, Worker, Top, Woken,
         Read, ReadPart, ReadSurface, ReadResponse, Timeout, RequestTimeout, FrameTimeout,
         HealthTimeout, Daemon, DaemonReads, DaemonAnswers, DaemonDraws
  <2> QED
    BY <1>1, <1>2, <1>3, <2>1
<1>5. CASE UNCHANGED vars
  BY <1>2, <1>5 DEF vars
<1> QED
  BY <1>4, <1>5

\* One iteration of the batch.
LEMMA BatchFrames ==
  ASSUME TypeOK, Frames, Batch
  PROVE  Frames'
<1> USE DEF owner, session, inbound, events, daemon
<1>1. CASE Resend
  <2>1. barrier \in Commands /\ Whole(barrier) \in Chunks /\ Whole(barrier).part = "whole"
    BY <1>1, ChunkType DEF Resend, ResendFirst, ResendReady, TypeOK, MaybeCommand, Whole
  <2>2. written # "partial"
    BY <1>1 DEF Resend, ResendFirst, PartialOut, Started, Frames
  <2>3. toDaemon' = Append(toDaemon, Whole(barrier)) /\ UNCHANGED <<queued, written, assembling, slot>>
    BY <1>1 DEF Resend
  <2>4. queued = None => written = "none"
    BY DEF Frames
  <2> QED
    BY <2>1, <2>2, <2>3, <2>4, WholeFrames
<1>2. CASE ResumeInput
  <2>1. Available /\ WriteSome /\ UNCHANGED <<assembling, slot>> /\ Started(Current) /\ Current.kind # "image"
    BY <1>2 DEF ResumeInput
  <2>2. Current.kind \in {"input", "image"} /\ Current.ok
    BY <2>1 DEF Started, Frames
  <2> QED
    BY <2>1, <2>2, WriteSomeFrames
<1>3. CASE ImageWrites
  BY <1>3, WriteSomeFrames DEF ImageWrites, Sendable, Reached
<1>4. CASE WriteBounded
  <2>1. /\ Sendable /\ Available /\ WriteSome /\ UNCHANGED <<assembling, slot>> /\ Current.ok
        /\ Current.kind # "image" /\ ~Started(Current) /\ (reader # "idle" \/ InputAttempted)
        /\ ~Fenced(FALSE)
    BY <1>4 DEF WriteBounded, Sendable, Reached
  <2>2. Current.kind = "input"
    <3>1. CASE reader # "idle"
      BY <2>1, <3>1 DEF Fenced, PermitsPartialInput
    <3>2. CASE InputAttempted
      BY <2>1, <3>2 DEF InputAttempted, Frames, Current
    <3> QED
      BY <2>1, <3>1, <3>2
  <2> QED
    BY <2>1, <2>2, WriteSomeFrames
<1>5. CASE WriteAll
  <2>1. /\ Reached /\ Available /\ Current.kind # "image" /\ ~InputAttempted
        /\ toDaemon' = Append(toDaemon, Whole(Current))
        /\ queued' = None /\ written' = "none" /\ UNCHANGED <<assembling, slot>>
    BY <1>5 DEF WriteAll, Dispose, Sendable, Reached
  <2>2. written # "partial"
    BY <2>1, PartialIsKept
  <2>3. Whole(Current) \in Chunks /\ Whole(Current).part = "whole"
    BY <2>1, CurrentType, ChunkType DEF Whole
  <2> QED
    BY <2>1, <2>2, <2>3, WholeFrames
<1>6. CASE FenceHolds \/ LeaseHolds
  <2>1. /\ queued' = Current /\ written' = IF queued # None THEN written ELSE "none"
        /\ UNCHANGED <<assembling, toDaemon, slot>>
    BY <1>6 DEF FenceHolds, LeaseHolds, Hold
  <2> QED
    BY <2>1, TakeFrames
<1>7. CASE Reject \/ ImageClosed \/ ImageExpires
  <2>1. /\ Reached /\ queued' = None /\ written' = "none" /\ UNCHANGED <<assembling, toDaemon>>
        /\ ~Current.ok \/ slot[Current.id] \in {"closed", "preparing"}
    BY <1>7 DEF Reject, ImageClosed, ImageExpires, Sendable, Dispose
  <2>2. written # "partial"
    BY <2>1, PartialIsKept
  <2> QED
    BY <2>1, <2>2, TakeFrames
<1>8. CASE ImagePreparing
  <2>1. /\ Reached /\ UNCHANGED <<assembling, toDaemon, slot>> /\ slot[Current.id] = "preparing"
        /\ queued' = Current /\ Current.kind = "image"
    BY <1>8 DEF ImagePreparing, Sendable, Hold
  <2>2. written # "partial"
    BY <2>1, PartialIsKept
  <2>3. written' # "partial" /\ (Current = None => written' = "none")
    BY <1>8, <2>1, <2>2, CurrentType DEF ImagePreparing, Hold, Reached
  <2>4. Intact(assembling, toDaemon)' /\ Before(assembling, toDaemon, Len(toDaemon) + 1)' = None
    BY <2>1, <2>2 DEF Frames, Intact, Before
  <2> QED
    BY <2>1, <2>3, <2>4 DEF Frames
<1>9. CASE ImageCancelled
  <2>1. CASE Started(Current)
    BY <1>9, <2>1, UnchangedFrames DEF ImageCancelled, End
  <2>2. CASE ~Started(Current)
    <3>1. Reached /\ queued' = None /\ written' = "none" /\ UNCHANGED <<assembling, toDaemon>>
      BY <1>9, <2>2 DEF ImageCancelled, Sendable, Dispose
    <3>2. written # "partial"
      BY <2>2, <3>1, PartialIsKept
    <3> QED
      BY <3>1, <3>2, TakeFrames
  <2> QED
    BY <2>1, <2>2
<1>10. CASE BatchEnds
  BY <1>10, UnchangedFrames DEF BatchEnds
<1> QED
  BY <1>1, <1>2, <1>3, <1>4, <1>5, <1>6, <1>7, <1>8, <1>9, <1>10 DEF Batch

\* No step splices a frame into another.
LEMMA FramesStep ==
  ASSUME TypeOK, Numbered, Frames, [Next]_vars
  PROVE  Frames'
<1> USE DEF owner, worker, session, inbound, events, daemon
<1>1. CASE Owner
  <2>1. CASE Enqueue
    BY <2>1, UnchangedFrames DEF Enqueue
  <2>2. ASSUME NEW id \in 1..MaxCommands, PublishImage(id) \/ CloseImage(id) \/ CancelImage(id)
        PROVE  Frames'
    <3>1. slot[id] # "cancelled" /\ UNCHANGED <<assembling, toDaemon, queued, written>>
      BY <2>2 DEF PublishImage, CloseImage, CancelImage
    <3>2. queued # None /\ slot[queued.id] \in {"published", "cancelled"} => slot'[queued.id] \in {"published", "cancelled"}
      BY <2>2 DEF PublishImage, CloseImage, CancelImage, TypeOK, Numbered
    <3> QED
      BY <3>1, <3>2 DEF Frames, Intact, Before
  <2> QED
    BY <1>1, <2>1, <2>2 DEF Owner
<1>2. CASE Stop \/ Timeout
  BY <1>2, UnchangedFrames DEF Stop, Timeout, RequestTimeout, FrameTimeout, HealthTimeout, End
<1>3. CASE Top
  <2>1. CASE End
    BY <2>1, UnchangedFrames DEF End
  <2>2. CASE ~End
    <3>1. PICK ping \in BOOLEAN :
            /\ ping => MayProbe
            /\ toDaemon' = IF ping THEN Append(toDaemon, Ping) ELSE toDaemon
      BY <1>3, <2>2 DEF Top
    <3>2. UNCHANGED <<assembling, queued, written, slot>>
      BY <1>3, <2>2 DEF Top
    <3>3. CASE ping
      <4>1. written # "partial" /\ (queued = None => written = "none")
        BY <3>1, <3>3 DEF MayProbe, PartialOut, Started, Frames
      <4>2. Ping \in Chunks /\ Ping.part = "whole"
        BY DEF Ping, Chunks, MaybeCommand
      <4> QED
        BY <3>1, <3>2, <3>3, <4>1, <4>2, WholeFrames
    <3>4. CASE ~ping
      BY <3>1, <3>2, <3>4, UnchangedFrames
    <3> QED
      BY <3>3, <3>4
  <2> QED
    BY <2>1, <2>2
<1>4. CASE Batch
  BY <1>4, BatchFrames
<1>5. CASE Woken \/ Read
  BY <1>5, UnchangedFrames DEF Woken, Read, ReadPart, ReadSurface, ReadResponse
<1>6. CASE Daemon
  <2>1. CASE DaemonReads
    <3>1. /\ toDaemon \in Seq(Chunks) /\ toDaemon # <<>> /\ toDaemon' = Tail(toDaemon)
          /\ assembling' = Half(Head(toDaemon)) /\ UNCHANGED <<queued, written, slot>>
      BY <2>1 DEF DaemonReads, TypeOK, Half
    <3>2. /\ Intact(assembling', toDaemon')
          /\ Before(assembling', toDaemon', Len(toDaemon') + 1)
               = Before(assembling, toDaemon, Len(toDaemon) + 1)
      BY <3>1, TailIntact DEF Frames
    <3>3. Before(assembling', toDaemon', Len(toDaemon') + 1) = IF written' = "partial" THEN queued' ELSE None
      BY <3>1, <3>2 DEF Frames
    <3> QED
      BY <3>1, <3>2, <3>3 DEF Frames
  <2>2. CASE DaemonAnswers \/ DaemonDraws
    BY <2>2, UnchangedFrames DEF DaemonAnswers, DaemonDraws
  <2> QED
    BY <1>6, <2>1, <2>2 DEF Daemon
<1>7. CASE UNCHANGED vars
  BY <1>7, UnchangedFrames DEF vars
<1> QED
  BY <1>1, <1>2, <1>3, <1>4, <1>5, <1>6, <1>7 DEF Next, Worker

-----------------------------------------------------------------------------
(* The wire *)

\* Commands sent have numbers, and so have refusals.
LEMMA SentType ==
  ASSUME TypeOK
  PROVE  /\ \A c \in Sent : c \in Commands /\ c.id \in Nat
         /\ \A n \in Refused : n \in Nat
<1>1. \A c \in Commands : c.id \in Nat
  BY DEF Commands
<1>2. \A i \in DOMAIN executed : executed[i] \in Commands
  BY DEF TypeOK
<1>3. \A i \in DOMAIN toDaemon : toDaemon[i] \in Chunks
  BY DEF TypeOK
<1>4. \A x \in Chunks : Complete(x) => x.cmd \in Commands
  BY DEF Chunks, MaybeCommand, Complete
<1>5. \A i \in DOMAIN toClient : toClient[i] \in Messages
  BY DEF TypeOK
<1>6. \A m \in Messages : Refuses(m) => m.id \in Nat
  BY DEF Messages, Refuses
<1>7. \A c \in Sent : c \in Commands
  BY <1>2, <1>3, <1>4 DEF Sent
<1>8. \A n \in Refused : n \in Nat
  BY <1>5, <1>6 DEF Refused
<1> QED
  BY <1>1, <1>7, <1>8

\* A chunk is written: a complete one may follow all that was sent.
LEMMA SentAppend ==
  ASSUME TypeOK, InLine, NEW x \in Chunks, toDaemon' = Append(toDaemon, x),
         UNCHANGED <<executed, busied>>,
         Complete(x) => \A c \in Sent : MayFollow(c, x.cmd)
  PROVE  /\ \A c \in Sent' : c \in Sent \/ (Complete(x) /\ c = x.cmd)
         /\ InLine'
<1>1. /\ toDaemon \in Seq(Chunks) /\ Len(toDaemon) \in Nat
      /\ DOMAIN toDaemon = 1..Len(toDaemon) /\ DOMAIN toDaemon' = 1..(Len(toDaemon) + 1)
      /\ toDaemon'[Len(toDaemon) + 1] = x
      /\ \A i \in 1..Len(toDaemon) : toDaemon'[i] = toDaemon[i]
  BY DEF TypeOK
<1>2. \A i \in DOMAIN toDaemon' :
        (i \in DOMAIN toDaemon /\ toDaemon'[i] = toDaemon[i]) \/ (i = Len(toDaemon) + 1 /\ toDaemon'[i] = x)
  BY <1>1
<1>3. \A c \in Sent' : c \in Sent \/ (Complete(x) /\ c = x.cmd)
  BY <1>2 DEF Sent
<1>4. \A y, z : MayFollow(y, z) => MayFollow(y, z)'
  BY DEF MayFollow
<1>5. Complete(x) => /\ \A i \in DOMAIN executed : MayFollow(executed[i], x.cmd)
                     /\ \A i \in DOMAIN toDaemon : Complete(toDaemon[i]) => MayFollow(toDaemon[i].cmd, x.cmd)
  BY DEF Sent
<1>6. \A i, j \in DOMAIN executed' : i < j => MayFollow(executed[i], executed[j])'
  BY <1>4 DEF InLine
<1>7. \A i \in DOMAIN executed', j \in DOMAIN toDaemon' :
        Complete(toDaemon'[j]) => MayFollow(executed[i], toDaemon[j].cmd)'
  BY <1>2, <1>5 DEF InLine, MayFollow
<1>8. \A i, j \in DOMAIN toDaemon' :
        (i < j /\ Complete(toDaemon'[i]) /\ Complete(toDaemon'[j])) => MayFollow(toDaemon[i].cmd, toDaemon[j].cmd)'
  <2> SUFFICES ASSUME NEW i \in DOMAIN toDaemon', NEW j \in DOMAIN toDaemon', i < j,
                      Complete(toDaemon'[i]), Complete(toDaemon'[j])
               PROVE  MayFollow(toDaemon[i].cmd, toDaemon[j].cmd)'
    OBVIOUS
  <2>1. i \in DOMAIN toDaemon /\ toDaemon'[i] = toDaemon[i]
    BY <1>1
  <2>2. CASE j \in DOMAIN toDaemon
    BY <1>2, <1>1, <2>1, <2>2 DEF InLine, MayFollow
  <2>3. CASE j = Len(toDaemon) + 1
    BY <1>1, <1>5, <2>1, <2>3 DEF MayFollow
  <2> QED
    BY <1>2, <2>2, <2>3
<1> QED
  BY <1>3, <1>6, <1>7, <1>8 DEF InLine, Complete

\* The daemon reads a chunk, and acts on the command it completes or not.
LEMMA SentTail ==
  ASSUME TypeOK, InLine, toDaemon # <<>>, toDaemon' = Tail(toDaemon), busied \subseteq busied',
         \/ executed' = executed
         \/ Complete(Head(toDaemon)) /\ executed' = Append(executed, Head(toDaemon).cmd)
  PROVE  /\ \A c \in Sent' : c \in Sent
         /\ InLine'
         /\ Complete(Head(toDaemon)) =>
              /\ Head(toDaemon).cmd \in Sent
              /\ executed' = executed => \A c \in Sent' : c.id # Head(toDaemon).cmd.id
<1> DEFINE x == Head(toDaemon)
           n == Len(toDaemon)
<1>1. /\ toDaemon \in Seq(Chunks) /\ n \in Nat /\ n >= 1 /\ DOMAIN toDaemon = 1..n
      /\ DOMAIN toDaemon' = 1..(n - 1) /\ x = toDaemon[1] /\ x \in Chunks
      /\ \A i \in 1..(n - 1) : toDaemon'[i] = toDaemon[i + 1]
  BY DEF TypeOK
<1> HIDE DEF x, n
<1>2. \A i \in DOMAIN toDaemon' : i + 1 \in DOMAIN toDaemon /\ 1 < i + 1 /\ toDaemon'[i] = toDaemon[i + 1]
  BY <1>1
<1>3. 1 \in DOMAIN toDaemon
  BY <1>1
<1>4. Complete(x) => x.cmd \in Sent
  BY <1>1, <1>3 DEF Sent
<1>5. \A i \in DOMAIN toDaemon' : Complete(toDaemon'[i]) => toDaemon'[i].cmd \in Sent
  BY <1>2 DEF Sent
<1>6. \A y, z : MayFollow(y, z) => MayFollow(y, z)'
  BY DEF MayFollow
<1>7. /\ \A i \in DOMAIN executed, j \in DOMAIN toDaemon' :
           Complete(toDaemon'[j]) => MayFollow(executed[i], toDaemon'[j].cmd)
      /\ \A j \in DOMAIN toDaemon' :
           (Complete(x) /\ Complete(toDaemon'[j])) => MayFollow(x.cmd, toDaemon'[j].cmd)
      /\ Complete(x) => \A i \in DOMAIN executed : MayFollow(executed[i], x.cmd)
  BY <1>1, <1>2, <1>3 DEF InLine
<1>8. \A i, j \in DOMAIN toDaemon' :
        (i < j /\ Complete(toDaemon'[i]) /\ Complete(toDaemon'[j])) => MayFollow(toDaemon'[i].cmd, toDaemon'[j].cmd)
  <2>1. \A i, j \in DOMAIN toDaemon' : i < j => i + 1 < j + 1
    BY <1>1
  <2> QED
    BY <1>2, <2>1 DEF InLine
<1>9. CASE executed' = executed
  <2>1. \A c \in Sent' : \/ \E i \in DOMAIN executed : c = executed[i]
                         \/ \E i \in DOMAIN toDaemon' : Complete(toDaemon'[i]) /\ c = toDaemon'[i].cmd
    BY <1>9 DEF Sent
  <2>2. \A c \in Sent' : c \in Sent
    BY <1>5, <2>1 DEF Sent
  <2>3. Complete(x) => \A c \in Sent' : c.id # x.cmd.id
    BY <1>7, <2>1 DEF MayFollow
  <2>4. InLine'
    <3>1. \A i, j \in DOMAIN executed' : i < j => MayFollow(executed[i], executed[j])'
      BY <1>6, <1>9 DEF InLine, MayFollow
    <3>2. \A i \in DOMAIN executed', j \in DOMAIN toDaemon' :
            Complete(toDaemon'[j]) => MayFollow(executed[i], toDaemon[j].cmd)'
      BY <1>7, <1>9 DEF MayFollow
    <3>3. \A i, j \in DOMAIN toDaemon' :
            (i < j /\ Complete(toDaemon'[i]) /\ Complete(toDaemon'[j])) => MayFollow(toDaemon[i].cmd, toDaemon[j].cmd)'
      BY <1>8 DEF MayFollow
    <3> QED
      BY <3>1, <3>2, <3>3 DEF InLine, Complete
  <2> QED
    BY <1>4, <2>2, <2>3, <2>4 DEF x
<1>10. CASE Complete(x) /\ executed' = Append(executed, x.cmd)
  <2>1. /\ x.cmd \in Commands /\ executed \in Seq(Commands)
    BY <1>1, <1>10 DEF TypeOK, Complete, Chunks, MaybeCommand
  <2>2. /\ Len(executed) \in Nat /\ DOMAIN executed = 1..Len(executed)
        /\ DOMAIN executed' = 1..(Len(executed) + 1) /\ executed'[Len(executed) + 1] = x.cmd
        /\ \A i \in 1..Len(executed) : executed'[i] = executed[i]
        /\ Len(executed') = Len(executed) + 1
    BY <1>10, <2>1
  <2>3. \A i \in DOMAIN executed' : \/ i \in DOMAIN executed /\ executed'[i] = executed[i]
                                    \/ i = Len(executed) + 1 /\ executed'[i] = x.cmd
    BY <2>2
  <2>4. \A c \in Sent' : c \in Sent
    <3>1. \A c \in Sent' : \/ \E i \in DOMAIN executed : c = executed[i]
                           \/ c = x.cmd
                           \/ \E i \in DOMAIN toDaemon' : Complete(toDaemon'[i]) /\ c = toDaemon'[i].cmd
      BY <2>3 DEF Sent
    <3> QED
      BY <1>4, <1>5, <1>10, <3>1 DEF Sent
  <2>5. \A i, j \in DOMAIN executed' : i < j => MayFollow(executed[i], executed[j])'
    <3> SUFFICES ASSUME NEW i \in DOMAIN executed', NEW j \in DOMAIN executed', i < j
                 PROVE  MayFollow(executed[i], executed[j])'
      OBVIOUS
    <3>1. i \in DOMAIN executed /\ executed'[i] = executed[i]
      BY <2>2
    <3>2. CASE j \in DOMAIN executed /\ executed'[j] = executed[j]
      BY <3>1, <3>2 DEF InLine, MayFollow
    <3>3. CASE executed'[j] = x.cmd
      BY <1>7, <1>10, <3>1, <3>3 DEF MayFollow
    <3> QED
      BY <2>3, <3>2, <3>3
  <2>6. \A i \in DOMAIN executed', j \in DOMAIN toDaemon' :
          Complete(toDaemon'[j]) => MayFollow(executed[i], toDaemon[j].cmd)'
    <3> SUFFICES ASSUME NEW i \in DOMAIN executed', NEW j \in DOMAIN toDaemon', Complete(toDaemon'[j])
                 PROVE  MayFollow(executed[i], toDaemon[j].cmd)'
      OBVIOUS
    <3>1. MayFollow(executed'[i], toDaemon'[j].cmd)
      BY <1>7, <1>10, <2>3
    <3> QED
      BY <3>1 DEF MayFollow
  <2>7. \A i, j \in DOMAIN toDaemon' :
          (i < j /\ Complete(toDaemon'[i]) /\ Complete(toDaemon'[j])) => MayFollow(toDaemon[i].cmd, toDaemon[j].cmd)'
    BY <1>8 DEF MayFollow
  <2>8. InLine'
    BY <2>5, <2>6, <2>7 DEF InLine, Complete
  <2>9. executed' # executed
    BY <2>2
  <2> QED
    BY <1>4, <2>4, <2>8, <2>9 DEF x
<1> QED
  BY <1>9, <1>10 DEF x

\* A message arrives at the client.
LEMMA RefusedAppend ==
  ASSUME TypeOK, RefusedOnce, NEW m \in Messages, toClient' = Append(toClient, m),
         Refuses(m) => m.id \notin Refused
  PROVE  /\ \A n \in Refused' : n \in Refused \/ (Refuses(m) /\ n = m.id)
         /\ RefusedOnce'
<1>1. /\ toClient \in Seq(Messages) /\ Len(toClient) \in Nat
      /\ DOMAIN toClient = 1..Len(toClient) /\ DOMAIN toClient' = 1..(Len(toClient) + 1)
      /\ toClient'[Len(toClient) + 1] = m
      /\ \A i \in 1..Len(toClient) : toClient'[i] = toClient[i]
  BY DEF TypeOK
<1>2. \A i \in DOMAIN toClient' : \/ i \in DOMAIN toClient /\ toClient'[i] = toClient[i]
                                  \/ i = Len(toClient) + 1 /\ toClient'[i] = m
  BY <1>1
<1>3. \A n \in Refused' : n \in Refused \/ (Refuses(m) /\ n = m.id)
  BY <1>2 DEF Refused
<1>4. \A i \in DOMAIN toClient : (Refuses(toClient[i]) /\ Refuses(m)) => toClient[i].id # m.id
  BY DEF Refused
<1>5. \A i, j \in DOMAIN toClient' :
        (i # j /\ Refuses(toClient'[i]) /\ Refuses(toClient'[j])) => toClient'[i].id # toClient'[j].id
  BY <1>2, <1>4 DEF RefusedOnce
<1> QED
  BY <1>3, <1>5 DEF RefusedOnce, Refuses

\* The client reads a message: a refusal read is not coming again.
LEMMA RefusedTail ==
  ASSUME TypeOK, RefusedOnce, toClient # <<>>, toClient' = Tail(toClient)
  PROVE  /\ \A n \in Refused' : n \in Refused
         /\ Refuses(Head(toClient)) => Head(toClient).id \in Refused /\ Head(toClient).id \notin Refused'
         /\ RefusedOnce'
<1> DEFINE m == Head(toClient)
           len == Len(toClient)
<1>1. /\ toClient \in Seq(Messages) /\ len \in Nat /\ len >= 1 /\ DOMAIN toClient = 1..len
      /\ DOMAIN toClient' = 1..(len - 1) /\ m = toClient[1]
      /\ \A i \in 1..(len - 1) : toClient'[i] = toClient[i + 1]
  BY DEF TypeOK
<1> HIDE DEF m, len
<1>2. /\ 1 \in DOMAIN toClient
      /\ \A i \in DOMAIN toClient' : i + 1 \in DOMAIN toClient /\ i + 1 # 1 /\ toClient'[i] = toClient[i + 1]
  BY <1>1
<1>3. \A n \in Refused' : \E i \in DOMAIN toClient' : Refuses(toClient'[i]) /\ n = toClient'[i].id
  BY DEF Refused
<1>4. \A n \in Refused' : n \in Refused
  BY <1>2, <1>3 DEF Refused
<1>5. Refuses(m) => m.id \in Refused
  BY <1>1, <1>2 DEF Refused
<1>6. Refuses(m) => m.id \notin Refused'
  BY <1>1, <1>2, <1>3 DEF RefusedOnce
<1>7. \A i, j \in DOMAIN toClient' : i # j => i + 1 # j + 1
  BY <1>1
<1>8. RefusedOnce'
  BY <1>2, <1>7 DEF RefusedOnce, Refuses
<1> QED
  BY <1>4, <1>5, <1>6, <1>8 DEF m

\* A step of which the daemon hears nothing; what is past stays past.
LEMMA QuietWire ==
  ASSUME TypeOK, Wire, UNCHANGED <<toDaemon, executed, busied, toClient, barrier, refused>>,
         \A n \in Nat : Past(n) => Past(n)'
  PROVE  Wire'
<1>1. Sent' = Sent /\ Refused' = Refused
  BY DEF Sent, Refused, Complete, Refuses
<1>2. Recent'
  BY <1>1, SentType DEF Wire, Recent
<1>3. InLine' /\ RefusedOnce'
  BY DEF Wire, InLine, RefusedOnce, MayFollow, Complete, Refuses
<1>4. Refusals' /\ Fence'
  BY <1>1 DEF Wire, Refusals, Fence, Unsent
<1> QED
  BY <1>2, <1>3, <1>4 DEF Wire

\* A chunk is written that completes no command.
LEMMA HalfWire ==
  ASSUME TypeOK, Wire, NEW x \in Chunks, ~Complete(x), toDaemon' = Append(toDaemon, x),
         UNCHANGED <<executed, busied, toClient, barrier, refused>>,
         \A n \in Nat : Past(n) => Past(n)'
  PROVE  Wire'
<1>1. (\A c \in Sent' : c \in Sent) /\ InLine'
  BY SentAppend DEF Wire
<1>2. Refused' = Refused
  BY DEF Refused, Refuses
<1>3. Recent' /\ RefusedOnce'
  BY <1>1, <1>2, SentType DEF Wire, Recent, RefusedOnce, Refuses
<1>4. Refusals' /\ Fence'
  BY <1>1, <1>2 DEF Wire, Refusals, Fence, Unsent
<1> QED
  BY <1>1, <1>3, <1>4 DEF Wire

\* A command newer than all that was sent goes out whole; with an activation
\* outstanding it is no request, and only an activation becomes the barrier.
LEMMA NewWire ==
  ASSUME TypeOK, Wire, NEW x \in Chunks, Complete(x), toDaemon' = Append(toDaemon, x),
         UNCHANGED <<executed, busied, toClient>>,
         \A n \in Nat : Past(n) => Past(n)' /\ n < x.cmd.id,
         Past(x.cmd.id)',
         \/ /\ UNCHANGED <<barrier, refused>>
            /\ barrier # None => Past(barrier.id) /\ barrier.id \in Nat /\ x.cmd.kind \notin Requests
         \/ barrier' = x.cmd /\ refused' = FALSE /\ x.cmd.kind = "activate"
  PROVE  Wire'
<1>1. \A c \in Sent : c.id \in Nat /\ c.id < x.cmd.id
  BY SentType DEF Wire, Recent
<1>2. x.cmd.id \in Nat
  BY DEF Complete, Chunks, MaybeCommand, Commands
<1>3. \A c \in Sent : MayFollow(c, x.cmd)
  BY <1>1, <1>2 DEF MayFollow
<1>4. (\A c \in Sent' : c \in Sent \/ c = x.cmd) /\ InLine'
  BY <1>3, SentAppend DEF Wire
<1>5. Refused' = Refused
  BY DEF Refused, Refuses
<1>6. \A n \in Refused : n \in Nat /\ n < x.cmd.id
  BY SentType DEF Wire, Recent
<1>7. Recent'
  <2>1. \A c \in Sent' : Past(c.id)'
    <3> SUFFICES ASSUME NEW c \in Sent' PROVE Past(c.id)'
      OBVIOUS
    <3>1. CASE c \in Sent
      BY <1>1, <3>1 DEF Wire, Recent
    <3>2. CASE c = x.cmd
      BY <3>2
    <3> QED
      BY <1>4, <3>1, <3>2
  <2>2. \A n \in Refused' : Past(n)'
    BY <1>5, <1>6 DEF Wire, Recent
  <2> QED
    BY <2>1, <2>2 DEF Recent
<1>8. RefusedOnce'
  BY DEF Wire, RefusedOnce, Refuses
<1>9. Refusals'
  <2>1. \A n \in Refused' : n \in busied' /\ Unsent(n)'
    BY <1>2, <1>4, <1>5, <1>6 DEF Wire, Refusals, Unsent
  <2>2. (barrier' # None /\ refused') => barrier'.id \in busied' /\ Unsent(barrier.id)' /\ barrier'.id \notin Refused'
    <3> SUFFICES ASSUME barrier' # None, refused'
                 PROVE  barrier'.id \in busied' /\ Unsent(barrier.id)' /\ barrier'.id \notin Refused'
      OBVIOUS
    <3>1. UNCHANGED <<barrier, refused>> /\ barrier.id < x.cmd.id /\ barrier.id \in Nat
      OBVIOUS
    <3> QED
      BY <1>2, <1>4, <1>5, <3>1 DEF Wire, Refusals, Unsent
  <2> QED
    BY <2>1, <2>2 DEF Refusals
<1>10. Fence'
  <2>1. CASE UNCHANGED <<barrier, refused>> /\ (barrier # None => x.cmd.kind \notin Requests)
    BY <1>4, <2>1 DEF Wire, Fence
  <2>2. CASE barrier' = x.cmd /\ refused' = FALSE /\ x.cmd.kind = "activate"
    <3>1. \A c \in Sent' : ~(c.id > barrier'.id)
      BY <1>1, <1>2, <1>4, <2>2
    <3> QED
      BY <2>2, <3>1 DEF Fence
  <2> QED
    BY <2>1, <2>2
<1> QED
  BY <1>4, <1>7, <1>8, <1>9, <1>10 DEF Wire

\* A refused activation goes out again, behind commands that are no requests.
LEMMA ResendWire ==
  ASSUME TypeOK, Order, Wire, Resend
  PROVE  Wire'
<1> DEFINE x == Whole(barrier)
<1>1. /\ barrier # None /\ refused /\ barrier' = None /\ toDaemon' = Append(toDaemon, Whole(barrier))
      /\ UNCHANGED <<executed, busied, toClient, issued, queue, queued>>
  BY DEF Resend, ResendFirst, ResendReady, owner, daemon
<1>2. barrier \in Commands /\ barrier.id \in Nat
  BY <1>1 DEF TypeOK, MaybeCommand, Commands
<1>3. x \in Chunks /\ Complete(x) /\ x.cmd = barrier
  BY <1>1, <1>2, ChunkType DEF Whole, Complete
<1>4. barrier.id \in busied /\ Unsent(barrier.id) /\ barrier.id \notin Refused
  BY <1>1 DEF Wire, Refusals
<1>5. barrier.kind = "activate" /\ \A c \in Sent : c.id > barrier.id => c.kind \notin Requests
  BY <1>1 DEF Wire, Fence
<1> HIDE DEF x
<1>6. \A c \in Sent : MayFollow(c, x.cmd)
  BY <1>3, <1>4, <1>5 DEF MayFollow, Unsent
<1>7. (\A c \in Sent' : c \in Sent \/ c = barrier) /\ InLine'
  BY <1>1, <1>3, <1>6, SentAppend DEF Wire, x
<1>8. Refused' = Refused
  BY <1>1 DEF Refused, Refuses
<1>9. Past(barrier.id) /\ \A n \in Nat : Past(n) => Past(n)'
  BY <1>1 DEF Past, Later, Order, RequestOrder
<1>10. \A n \in Nat : n = barrier.id => Past(n)'
  BY <1>2, <1>9
<1>11. Recent'
  <2>1. \A c \in Sent' : c.id \in Nat /\ Past(c.id)'
    BY <1>2, <1>7, <1>9, <1>10, SentType DEF Wire, Recent
  <2> QED
    BY <1>8, <1>9, <2>1, SentType DEF Wire, Recent
<1>12. RefusedOnce'
  BY <1>1 DEF Wire, RefusedOnce, Refuses
<1>13. Refusals' /\ Fence'
  BY <1>1, <1>4, <1>7, <1>8 DEF Wire, Refusals, Fence, Unsent
<1> QED
  BY <1>7, <1>11, <1>12, <1>13 DEF Wire

\* Taking a command puts it, and nothing after it, in the past.
LEMMA TakePast ==
  ASSUME TypeOK, Order, Available, Unqueue, queued' \in {None, Current}
  PROVE  /\ \A n \in Nat : Past(n) => Past(n)' /\ n < Current.id
         /\ Current.id \in Nat
         /\ \A n \in Nat : (queued' = None /\ n = Current.id) => Past(n)'
<1>1. /\ Current.id <= issued /\ issued' = issued /\ Current.id \in Nat
      /\ \A n \in Nat : (queued' = None /\ n = Current.id) => Later(n)'
      /\ \A n \in Nat : Later(n) => n < Current.id /\ Later(n)'
  BY TakeOrder, CurrentType DEF Order, Unqueue, Commands
<1> QED
  BY <1>1 DEF Past

\* A bounded write of input or an image.
LEMMA WriteSomeWire ==
  ASSUME TypeOK, Order, Wire, Available, WriteSome, Current.kind \notin Requests,
         UNCHANGED <<executed, busied, toClient, barrier, refused>>
  PROVE  Wire'
<1>1. /\ Unqueue /\ queued' \in {None, Current}
  BY WriteSomeType
<1>2. /\ \A n \in Nat : Past(n) => Past(n)' /\ n < Current.id
      /\ Current.id \in Nat
      /\ \A n \in Nat : (queued' = None /\ n = Current.id) => Past(n)'
  BY <1>1, TakePast
<1>3. Current \in Commands /\ Current # None
  BY CurrentType
<1>4. /\ Whole(Current) \in Chunks /\ First(Current) \in Chunks /\ Last(Current) \in Chunks
      /\ Complete(Whole(Current)) /\ Complete(Last(Current)) /\ ~Complete(First(Current))
      /\ Whole(Current).cmd = Current /\ Last(Current).cmd = Current
  BY <1>3, ChunkType DEF Whole, First, Last, Complete
<1>5. barrier # None => Past(barrier.id) /\ barrier.id \in Nat
  BY Identifiers DEF Order, RequestOrder, Past
<1>6. ASSUME queued' = None, NEW x \in {Whole(Current), Last(Current)}, toDaemon' = Append(toDaemon, x)
      PROVE  Wire'
  <2>1. x \in Chunks /\ Complete(x) /\ x.cmd = Current
    BY <1>4
  <2>2. \A n \in Nat : n = Current.id => Past(n)'
    BY <1>2, <1>6
  <2>3. Past(x.cmd.id)'
    BY <1>2, <2>1, <2>2
  <2>4. \A n \in Nat : Past(n) => Past(n)' /\ n < x.cmd.id
    BY <1>2, <2>1
  <2> QED
    BY <1>5, <1>6, <2>1, <2>3, <2>4, NewWire
<1>7. CASE toDaemon' = toDaemon
  BY <1>2, <1>7, QuietWire
<1>8. CASE toDaemon' = Append(toDaemon, First(Current))
  BY <1>2, <1>4, <1>8, HalfWire
<1>9. \/ toDaemon' = toDaemon \/ toDaemon' = Append(toDaemon, First(Current))
      \/ queued' = None /\ \E x \in {Whole(Current), Last(Current)} : toDaemon' = Append(toDaemon, x)
  BY DEF WriteSome, Dispose
<1> QED
  BY <1>6, <1>7, <1>8, <1>9

\* A command written at once: a request only when no activation is out.
LEMMA WriteAllWire ==
  ASSUME TypeOK, Order, Wire, WriteAll
  PROVE  Wire'
<1>1. /\ Available /\ ~LeaseTaken(Current) /\ Unqueue /\ queued' = None
      /\ toDaemon' = Append(toDaemon, Whole(Current)) /\ UNCHANGED <<executed, busied, toClient>>
  BY DEF WriteAll, Sendable, Reached, Dispose, daemon
<1>2. /\ \A n \in Nat : Past(n) => Past(n)' /\ n < Current.id
      /\ Current.id \in Nat
      /\ \A n \in Nat : n = Current.id => Past(n)'
  BY <1>1, TakePast
<1>0. PICK x : x = Whole(Current)
  OBVIOUS
<1>3. x \in Chunks /\ Complete(x) /\ x.cmd = Current
  BY <1>0, <1>1, CurrentType, ChunkType DEF Whole, Complete
<1>4. barrier # None => Past(barrier.id) /\ barrier.id \in Nat
  BY Identifiers DEF Order, RequestOrder, Past
<1>5. Past(x.cmd.id)'
  BY <1>2, <1>3
<1>6. \A n \in Nat : Past(n) => Past(n)' /\ n < x.cmd.id
  BY <1>2, <1>3
<1>7. \/ /\ UNCHANGED <<barrier, refused>>
         /\ barrier # None => x.cmd.kind \notin Requests
      \/ barrier' = x.cmd /\ refused' = FALSE /\ x.cmd.kind = "activate"
  <2>1. CASE Current.kind \notin Requests
    BY <1>3, <2>1 DEF WriteAll, session
  <2>2. CASE Current.kind \in Requests /\ pending # None
    BY <1>1, <1>3, <2>2 DEF WriteAll, LeaseTaken, Pipelines
  <2>3. CASE Current.kind \in Requests /\ pending = None
    BY <1>1, <2>3 DEF WriteAll, LeaseTaken, Pipelines
  <2> QED
    BY <2>1, <2>2, <2>3
<1>8. toDaemon' = Append(toDaemon, x)
  BY <1>0, <1>1
<1> QED
  BY <1>1, <1>3, <1>4, <1>5, <1>6, <1>7, <1>8, NewWire

\* Only input and images are written in bounded steps.
LEMMA BoundedKinds ==
  ASSUME Frames, ResumeInput \/ WriteBounded \/ ImageWrites
  PROVE  Current.kind \notin Requests
<1>1. CASE ResumeInput
  BY <1>1 DEF ResumeInput, Started, Frames, Requests
<1>2. CASE ImageWrites
  BY <1>2 DEF ImageWrites, Requests
<1>3. CASE WriteBounded
  <2>1. CASE InputAttempted
    BY <2>1 DEF InputAttempted, Frames, Current, Requests
  <2>2. CASE reader # "idle"
    BY <1>3, <2>2 DEF WriteBounded, Sendable, Reached, Fenced, PermitsPartialInput, Requests
  <2> QED
    BY <1>3, <2>1, <2>2 DEF WriteBounded
<1> QED
  BY <1>1, <1>2, <1>3

\* One iteration of the batch.
LEMMA BatchWire ==
  ASSUME TypeOK, Order, Frames, Wire, Batch
  PROVE  Wire'
<1> USE DEF owner, session, inbound, events, daemon
<1>1. CASE ResumeInput \/ WriteBounded \/ ImageWrites
  <2>1. Available /\ WriteSome /\ UNCHANGED <<executed, busied, toClient, barrier, refused>>
    BY <1>1 DEF ResumeInput, WriteBounded, ImageWrites, Sendable, Reached
  <2>3. Current.kind \notin Requests
    BY <1>1, BoundedKinds
  <2> QED
    BY <2>1, <2>3, WriteSomeWire
<1>2. CASE FenceHolds \/ LeaseHolds \/ ImagePreparing \/ ImageClosed \/ Reject \/ ImageExpires
  <2>1. Available /\ Unqueue /\ queued' \in {None, Current}
          /\ UNCHANGED <<toDaemon, executed, busied, toClient, barrier, refused>>
    BY <1>2 DEF FenceHolds, LeaseHolds, ImagePreparing, ImageClosed, Reject, ImageExpires,
                Sendable, Reached, Hold, Dispose
  <2> QED
    BY <2>1, TakePast, QuietWire
<1>3. CASE ImageCancelled
  <2>1. CASE End
    BY <2>1, QuietWire DEF End, Past, Later
  <2>2. CASE ~End
    <3>1. Available /\ Unqueue /\ queued' \in {None, Current}
            /\ UNCHANGED <<toDaemon, executed, busied, toClient, barrier, refused>>
      BY <1>3, <2>2 DEF ImageCancelled, Sendable, Reached, Dispose
    <3> QED
      BY <3>1, TakePast, QuietWire
  <2> QED
    BY <2>1, <2>2
<1>4. CASE BatchEnds
  BY <1>4, QuietWire DEF BatchEnds, Past, Later
<1> QED
  BY <1>1, <1>2, <1>3, <1>4, ResendWire, WriteAllWire DEF Batch

\* The client reads a message.
LEMMA ReadWire ==
  ASSUME TypeOK, Order, Wire, ReadFrame,
         UNCHANGED <<toDaemon, executed, busied, issued, queue, queued>>,
         \/ UNCHANGED <<barrier, refused>>
         \/ barrier' = None
         \/ /\ barrier' = barrier /\ refused' = TRUE
            /\ Refuses(Head(toClient)) /\ barrier # None /\ barrier.id = Head(toClient).id
  PROVE  Wire'
<1>1. toClient # <<>> /\ toClient' = Tail(toClient)
  BY DEF ReadFrame
<1>2. /\ \A n \in Refused' : n \in Refused
      /\ Refuses(Head(toClient)) => Head(toClient).id \in Refused /\ Head(toClient).id \notin Refused'
      /\ RefusedOnce'
  BY <1>1, RefusedTail DEF Wire
<1>3. Sent' = Sent
  BY DEF Sent, Complete
<1>4. \A n \in Nat : Past(n) => Past(n)'
  BY DEF Past, Later
<1>5. Recent'
  BY <1>2, <1>3, <1>4, SentType DEF Wire, Recent
<1>6. InLine'
  BY DEF Wire, InLine, MayFollow, Complete
<1>7. Fence'
  BY <1>3 DEF Wire, Fence
<1>8. Refusals'
  <2>1. \A n \in Refused' : n \in busied' /\ Unsent(n)'
    BY <1>2, <1>3 DEF Wire, Refusals, Unsent
  <2>2. (barrier' # None /\ refused') => barrier'.id \in busied' /\ Unsent(barrier.id)' /\ barrier'.id \notin Refused'
    <3>1. CASE UNCHANGED <<barrier, refused>>
      BY <1>2, <1>3, <3>1 DEF Wire, Refusals, Unsent
    <3>2. CASE /\ barrier' = barrier /\ Refuses(Head(toClient)) /\ barrier.id = Head(toClient).id
      BY <1>2, <1>3, <3>2 DEF Wire, Refusals, Unsent
    <3> QED
      BY <3>1, <3>2
  <2> QED
    BY <2>1, <2>2 DEF Refusals
<1> QED
  BY <1>2, <1>5, <1>6, <1>7, <1>8 DEF Wire

\* The response of the pipelined activation, of the lease, or of neither.
LEMMA ResponseWire ==
  ASSUME TypeOK, Order, Wire, ReadResponse
  PROVE  Wire'
<1> DEFINE m == Head(toClient)
<1>1. ReadFrame /\ UNCHANGED <<toDaemon, executed, busied, issued, queue, queued>>
  BY DEF ReadResponse, owner, daemon
<1>2. CASE Awaits(m) /\ BarrierAnswered(m)
  <2>1. CASE m.busy
    <3>1. Refuses(m) /\ barrier # None /\ barrier.id = m.id /\ barrier' = barrier /\ refused' = TRUE
      BY <1>2, <2>1 DEF ReadResponse, Refuses, Awaits, BarrierAnswered
    <3> QED
      BY <1>1, <3>1, ReadWire
  <2>2. CASE ~m.busy
    <3>1. UNCHANGED <<barrier, refused>> \/ barrier' = None
      BY <1>2, <2>2 DEF BarrierAnswered
    <3> QED
      BY <1>1, <3>1, ReadWire
  <2> QED
    BY <2>1, <2>2
<1>3. CASE PendingAnswered(m) \/ UNCHANGED session
  <2>1. UNCHANGED <<barrier, refused>> \/ barrier' = None
    BY <1>3 DEF PendingAnswered, session
  <2> QED
    BY <1>1, <2>1, ReadWire
<1> QED
  BY <1>2, <1>3, Zenon DEF ReadResponse

\* The daemon acts on the command a chunk completes, or refuses it.
LEMMA DaemonReadsWire ==
  ASSUME TypeOK, Order, Wire, DaemonReads
  PROVE  Wire'
<1> DEFINE x == Head(toDaemon)
<1>1. /\ toDaemon # <<>> /\ toDaemon' = Tail(toDaemon)
      /\ UNCHANGED <<barrier, refused, issued, queue, queued>>
  BY DEF DaemonReads, owner, worker, session
<1>2. \A n \in Nat : Past(n) => Past(n)'
  BY <1>1 DEF Past, Later
<1>3. x \in Chunks
  BY <1>1 DEF TypeOK
<1>4. CASE UNCHANGED <<toClient, busied>> /\ (executed' = executed \/ (Complete(x) /\ executed' = Append(executed, x.cmd)))
  <2>1. (\A c \in Sent' : c \in Sent) /\ InLine'
    BY <1>1, <1>4, SentTail DEF Wire
  <2>2. Refused' = Refused
    BY <1>4 DEF Refused, Refuses
  <2>3. Recent' /\ RefusedOnce'
    BY <1>2, <1>4, <2>1, <2>2, SentType DEF Wire, Recent, RefusedOnce, Refuses
  <2>4. Refusals' /\ Fence'
    BY <1>1, <1>4, <2>1, <2>2 DEF Wire, Refusals, Fence, Unsent
  <2> QED
    BY <2>1, <2>3, <2>4 DEF Wire
<1>5. CASE /\ Complete(x) /\ toClient' = Append(toClient, Response(x.cmd, TRUE))
           /\ busied' = busied \cup {x.cmd.id} /\ executed' = executed
  <2> DEFINE m == Response(x.cmd, TRUE)
  <2>1. x.cmd \in Commands
    BY <1>3, <1>5 DEF Complete, Chunks, MaybeCommand
  <2> HIDE DEF x
  <2>2. m \in Messages /\ Refuses(m) /\ m.id = x.cmd.id /\ x.cmd.id \in Nat
    BY <2>1 DEF Response, Messages, Refuses, Commands
  <2> HIDE DEF m
  <2>3. busied \subseteq busied'
    BY <1>5
  <2>4. /\ \A c \in Sent' : c \in Sent /\ c.id # x.cmd.id
        /\ InLine' /\ x.cmd \in Sent
    <3>1. /\ \A c \in Sent' : c \in Sent
          /\ InLine'
          /\ Complete(Head(toDaemon)) =>
               /\ Head(toDaemon).cmd \in Sent
               /\ executed' = executed => \A c \in Sent' : c.id # Head(toDaemon).cmd.id
      BY <1>1, <1>5, <2>3, SentTail DEF Wire
    <3> QED
      BY <1>5, <3>1 DEF x
  <2>5. x.cmd.id \notin Refused /\ ~(barrier # None /\ refused /\ barrier.id = x.cmd.id)
    BY <2>4 DEF Wire, Refusals, Unsent
  <2>6. toClient' = Append(toClient, m)
    BY <1>5 DEF m
  <2>7. (\A n \in Refused' : n \in Refused \/ n = x.cmd.id) /\ RefusedOnce'
    BY <2>2, <2>5, <2>6, RefusedAppend DEF Wire
  <2>8. Recent'
    BY <1>2, <2>2, <2>4, <2>7, SentType DEF Wire, Recent
  <2>9. Refusals'
    <3>1. \A n \in Refused' : n \in busied' /\ Unsent(n)'
      BY <1>5, <2>3, <2>4, <2>7 DEF Wire, Refusals, Unsent
    <3>2. (barrier # None /\ refused) => barrier.id \in busied' /\ Unsent(barrier.id)' /\ barrier.id \notin Refused'
      BY <1>1, <2>3, <2>4, <2>5, <2>7 DEF Wire, Refusals, Unsent
    <3> QED
      BY <1>1, <3>1, <3>2 DEF Refusals, Unsent
  <2>10. Fence'
    BY <1>1, <2>4 DEF Wire, Fence
  <2> QED
    BY <2>4, <2>7, <2>8, <2>9, <2>10 DEF Wire
<1>6. \/ UNCHANGED <<toClient, busied>> /\ (executed' = executed \/ (Complete(x) /\ executed' = Append(executed, x.cmd)))
      \/ /\ Complete(x) /\ toClient' = Append(toClient, Response(x.cmd, TRUE))
         /\ busied' = busied \cup {x.cmd.id} /\ executed' = executed
  BY DEF DaemonReads, Complete
<1> QED
  BY <1>4, <1>5, <1>6

\* The daemon answers a request it acted on, or sends something else.
LEMMA DaemonSendsWire ==
  ASSUME TypeOK, Wire, NEW m \in Messages, ~Refuses(m), toClient' = Append(toClient, m),
         UNCHANGED <<toDaemon, executed, busied, barrier, refused, issued, queue, queued>>
  PROVE  Wire'
<1>1. (\A n \in Refused' : n \in Refused) /\ RefusedOnce'
  BY RefusedAppend DEF Wire
<1>2. Sent' = Sent
  BY DEF Sent, Complete
<1>3. \A n \in Nat : Past(n) => Past(n)'
  BY DEF Past, Later
<1>4. Recent'
  BY <1>1, <1>2, <1>3, SentType DEF Wire, Recent
<1>5. InLine'
  BY DEF Wire, InLine, MayFollow, Complete
<1>6. Refusals' /\ Fence'
  BY <1>1, <1>2 DEF Wire, Refusals, Fence, Unsent
<1> QED
  BY <1>1, <1>4, <1>5, <1>6 DEF Wire

\* No step sends a command twice, or past what it may not overtake.
LEMMA WireStep ==
  ASSUME IInv, Frames, Wire, [Next]_vars
  PROVE  Wire'
<1> USE DEF owner, worker, session, inbound, events, daemon
<1>1. TypeOK /\ Order
  BY DEF IInv
<1>2. CASE Enqueue
  <2>1. PICK kind \in OwnerKinds, ok \in Valid :
          queue' = Append(queue, [id |-> issued + 1, kind |-> kind, ok |-> ok])
    BY <1>2 DEF Enqueue
  <2> DEFINE c == [id |-> issued + 1, kind |-> kind, ok |-> ok]
  <2>2. c.id = issued + 1
    OBVIOUS
  <2>3. issued' = issued + 1 /\ issued \in Nat /\ queue \in Seq(Commands) /\ UNCHANGED queued
    BY <1>1, <1>2 DEF Enqueue, TypeOK
  <2>4. queue' = Append(queue, c) /\ c \in Commands
    BY <2>1, <2>3, BoundsAssumption DEF Commands
  <2> HIDE DEF c
  <2>5. \A i \in DOMAIN queue' : (i \in DOMAIN queue /\ queue'[i] = queue[i]) \/ queue'[i] = c
    BY <2>3, <2>4
  <2>6. \A n \in Nat : Past(n) => Past(n)'
    BY <2>2, <2>3, <2>5 DEF Past, Later
  <2> QED
    BY <1>1, <1>2, <2>6, QuietWire DEF Enqueue
<1>3. CASE UNCHANGED <<toDaemon, executed, busied, toClient, barrier, refused, issued, queue, queued>>
  BY <1>1, <1>3, QuietWire DEF Past, Later
<1>4. CASE Top
  <2>1. CASE End
    BY <1>3, <2>1 DEF End
  <2>2. CASE ~End
    <3>1. PICK ping \in BOOLEAN : toDaemon' = IF ping THEN Append(toDaemon, Ping) ELSE toDaemon
      BY <1>4, <2>2 DEF Top
    <3>2. UNCHANGED <<executed, busied, toClient, barrier, refused, issued, queue, queued>>
      BY <1>4, <2>2 DEF Top
    <3>3. Ping \in Chunks /\ ~Complete(Ping)
      BY DEF Ping, Chunks, MaybeCommand, Complete
    <3>4. \A n \in Nat : Past(n) => Past(n)'
      BY <3>2 DEF Past, Later
    <3> QED
      BY <1>1, <3>1, <3>2, <3>3, <3>4, HalfWire, QuietWire
  <2> QED
    BY <2>1, <2>2
<1>5. CASE Batch
  BY <1>1, <1>5, BatchWire
<1>6. CASE ReadSurface
  BY <1>1, <1>6, ReadWire DEF ReadSurface
<1>7. CASE ReadResponse
  BY <1>1, <1>7, ResponseWire
<1>8. CASE DaemonReads
  BY <1>1, <1>8, DaemonReadsWire
<1>9. CASE DaemonAnswers
  <2>1. PICK c \in open : toClient' = Append(toClient, Response(c, FALSE))
    BY <1>9 DEF DaemonAnswers
  <2>2. Response(c, FALSE) \in Messages /\ ~Refuses(Response(c, FALSE))
    BY <1>1 DEF TypeOK, Response, Messages, Commands, Refuses
  <2> QED
    BY <1>1, <1>9, <2>1, <2>2, DaemonSendsWire DEF DaemonAnswers
<1>10. CASE DaemonDraws
  <2>1. PICK kind \in {"current", "other"} : toClient' = Append(toClient, [kind |-> kind])
    BY <1>10 DEF DaemonDraws
  <2>2. [kind |-> kind] \in Messages /\ ~Refuses([kind |-> kind])
    BY DEF Messages, Refuses
  <2> QED
    BY <1>1, <1>10, <2>1, <2>2, DaemonSendsWire DEF DaemonDraws
<1>11. CASE Next
  <2>1. \/ Enqueue \/ Top \/ Batch \/ ReadSurface \/ ReadResponse \/ DaemonReads \/ DaemonAnswers \/ DaemonDraws
        \/ UNCHANGED <<toDaemon, executed, busied, toClient, barrier, refused, issued, queue, queued>>
    BY <1>11 DEF Next, Owner, PublishImage, CloseImage, CancelImage, Stop, End, Worker, Woken,
         Read, ReadPart, Timeout, RequestTimeout, FrameTimeout, HealthTimeout, Daemon
  <2> QED
    BY <1>2, <1>3, <1>4, <1>5, <1>6, <1>7, <1>8, <1>9, <1>10, <2>1
<1>12. CASE UNCHANGED vars
  BY <1>3, <1>12 DEF vars
<1> QED
  BY <1>11, <1>12

-----------------------------------------------------------------------------
(* Requests *)

\* What has a place keeps it unless the step says otherwise.
LEMMA PlacedStep ==
  ASSUME NEW id, Placed(id), rejected \subseteq rejected',
         \A i \in DOMAIN replies : i \in DOMAIN replies' /\ replies'[i] = replies[i],
         \A c \in Outstanding \cup Waiting : c.id = id => Placed(id)'
  PROVE  Placed(id)'
BY DEF Placed

\* A command taken from the queue: the others stay where they are.
LEMMA TakeWaiting ==
  ASSUME TypeOK, Available, Unqueue
  PROVE  /\ \A c \in Waiting : c \in Waiting' \/ c = Current
         /\ \A i \in DOMAIN queue' : queue'[i] \in Waiting
         /\ Current \in Waiting \/ Current = queued
<1>1. /\ Current \in Commands
      /\ queued = None => queue # <<>> /\ Current = queue[1] /\ Len(queue) \in Nat \ {0}
      /\ queued # None => Current = queued
  BY CurrentType
<1>2. /\ queue' \in Seq(Commands)
      /\ queued # None => queue' = queue
      /\ queued = None => /\ Len(queue') = Len(queue) - 1
                          /\ \A i \in 1..Len(queue') : queue'[i] = queue[i + 1]
  BY UnqueueEffect
<1>3. DOMAIN queue = 1..Len(queue) /\ DOMAIN queue' = 1..Len(queue') /\ Len(queue') \in Nat
  <2>1. queue \in Seq(Commands) /\ queue' \in Seq(Commands)
    BY <1>2 DEF TypeOK
  <2> QED
    BY <2>1
<1>4. CASE queued # None
  BY <1>1, <1>2, <1>4 DEF Waiting
<1>5. CASE queued = None
  <2>1. \A i \in DOMAIN queue : i = 1 \/ (i - 1 \in DOMAIN queue' /\ queue'[i - 1] = queue[i])
    BY <1>1, <1>2, <1>3, <1>5
  <2>2. \A i \in DOMAIN queue' : i + 1 \in DOMAIN queue /\ queue'[i] = queue[i + 1]
    BY <1>1, <1>2, <1>3, <1>5
  <2>3. 1 \in DOMAIN queue
    BY <1>1, <1>3, <1>5
  <2> QED
    BY <1>1, <1>5, <2>1, <2>2, <2>3 DEF Waiting
<1> QED
  BY <1>4, <1>5

\* What a rejection, a request or a response is checked against, when a
\* command is taken.
LEMMA TakeRejections ==
  ASSUME TypeOK, Order, Rejections, Available, Unqueue, queued' \in {None, Current},
         UNCHANGED replies,
         \/ rejected' = rejected
         \/ queued' = None /\ rejected' = rejected \cup {Current.id} /\ UNCHANGED <<pending, barrier>>,
         pending' \in {pending, Current}, barrier' \in {barrier, Current}
  PROVE  Rejections' /\ (Current.id \in requested => Current.kind \in Requests)
<1>1. /\ \A n \in Nat : Past(n) => Past(n)' /\ n < Current.id
      /\ Current.id \in Nat
      /\ \A n \in Nat : (queued' = None /\ n = Current.id) => Past(n)'
  BY TakePast
<1>2. /\ \A i \in DOMAIN queue' : queue'[i] \in Waiting
      /\ Current \in Waiting \/ Current = queued
  BY TakeWaiting
<1>3. requested' = requested /\ issued' = issued
  BY DEF Unqueue
<1>4. Current.id \in requested => Current.kind \in Requests
  <2>1. Current # None
    BY CurrentType
  <2> QED
    BY <1>2, <2>1 DEF Rejections, Waiting
<1>5. \A i \in DOMAIN queue' : queue'[i].id \in requested' => queue'[i].kind \in Requests
  BY <1>2, <1>3 DEF Rejections, Waiting
<1>6. /\ pending # None => pending.id \in Nat /\ Past(pending.id)
      /\ barrier # None => barrier.id \in Nat /\ Past(barrier.id)
      /\ \A i \in DOMAIN replies : replies[i] \in Nat /\ Past(replies[i])
  BY Identifiers DEF Order, RequestOrder, ReplyOrder, Past
<1>7. ASSUME NEW n \in rejected'
      PROVE  /\ Past(n)'
             /\ pending' # None => n # pending'.id
             /\ barrier' # None => n # barrier'.id
             /\ \A i \in DOMAIN replies' : replies'[i] # n
  <2>1. CASE n \in rejected
    <3>1. n \in Nat /\ Past(n) /\ n < Current.id /\ Past(n)'
      BY <1>1, <2>1 DEF Rejections, TypeOK
    <3> QED
      BY <1>1, <2>1, <3>1 DEF Rejections
  <2>2. CASE n = Current.id /\ n \notin rejected
    BY <1>1, <1>6, <1>7, <2>2
  <2> QED
    BY <1>7, <2>1, <2>2
<1> QED
  BY <1>3, <1>4, <1>5, <1>7 DEF Rejections

\* A request that leaves the worker is outstanding or rejected.
LEMMA TakePlaced ==
  ASSUME TypeOK, AllPlaced, Available, Unqueue, queued' \in {None, Current}, UNCHANGED replies,
         rejected \subseteq rejected',
         pending # None => pending' = pending, barrier # None => barrier' = barrier,
         Current.id \in requested =>
           \/ queued' = Current \/ pending' = Current \/ barrier' = Current
           \/ Current.id \in rejected'
  PROVE  AllPlaced'
<1>1. \A c \in Waiting : c \in Waiting' \/ c = Current
  BY TakeWaiting
<1>2. requested' = requested
  BY DEF Unqueue
<1>3. Current # None /\ (queued # None => Current = queued)
  BY CurrentType
<1>4. ASSUME NEW id \in requested PROVE Placed(id)'
  <2>1. Placed(id)
    BY <1>4 DEF AllPlaced
  <2>2. ASSUME NEW c \in Outstanding \cup Waiting, c.id = id PROVE Placed(id)'
    <3>1. CASE c \in Outstanding' \cup Waiting'
      BY <2>2, <3>1 DEF Placed
    <3>2. CASE c = Current
      <4>1. \/ Current \in Outstanding'
            \/ id \in rejected'
        BY <1>3, <1>4, <2>2, <3>2 DEF Outstanding
      <4> QED
        BY <2>2, <3>2, <4>1 DEF Placed
    <3>3. c \in Outstanding' \cup Waiting' \/ c = Current
      BY <1>1, <1>3 DEF Outstanding
    <3> QED
      BY <3>1, <3>2, <3>3
  <2> QED
    BY <2>1, <2>2, PlacedStep
<1> QED
  BY <1>2, <1>4 DEF AllPlaced

\* A step that moves no command.
LEMMA QuietAccounts ==
  ASSUME Accounts, UNCHANGED <<issued, requested, queue, queued, pending, barrier, replies, rejected>>
  PROVE  Accounts'
BY DEF Accounts, Rejections, AllPlaced, Placed, Past, Later, Outstanding, Waiting

\* A new command waits in the queue.
LEMMA EnqueueAccounts ==
  ASSUME TypeOK, Order, Accounts, Enqueue
  PROVE  Accounts'
<1>1. PICK kind \in OwnerKinds, ok \in Valid :
        /\ queue' = Append(queue, [id |-> issued + 1, kind |-> kind, ok |-> ok])
        /\ requested' = IF kind \in Requests THEN requested \cup {issued + 1} ELSE requested
  BY DEF Enqueue
<1>2. PICK c : c = [id |-> issued + 1, kind |-> kind, ok |-> ok]
  OBVIOUS
<1>3. /\ issued' = issued + 1 /\ issued \in Nat /\ queue \in Seq(Commands)
      /\ UNCHANGED <<queued, pending, barrier, replies, rejected>>
  BY DEF Enqueue, TypeOK, worker, session, events
<1>4. queue' = Append(queue, c) /\ c \in Commands /\ c.id = issued + 1 /\ c.kind = kind
  BY <1>1, <1>2, <1>3, BoundsAssumption DEF Commands
<1>5. /\ \A i \in DOMAIN queue' : (i \in DOMAIN queue /\ queue'[i] = queue[i]) \/ queue'[i] = c
      /\ \A i \in DOMAIN queue : i \in DOMAIN queue' /\ queue'[i] = queue[i]
      /\ Len(queue) + 1 \in DOMAIN queue' /\ queue'[Len(queue) + 1] = c
  BY <1>3, <1>4
<1>6. \A n \in Nat : Past(n) => Past(n)'
  BY <1>3, <1>4, <1>5 DEF Past, Later
<1>7. \A n \in requested' : n <= issued'
  BY <1>1, <1>3 DEF Accounts, Rejections, TypeOK
<1>8. \A n \in requested' : n \in requested \/ (n = issued + 1 /\ c.kind \in Requests)
  BY <1>1, <1>4
<1>9. Rejections'
  <2>1. \A n \in rejected : n \in Nat /\ Past(n)'
    BY <1>6 DEF Accounts, Rejections, TypeOK
  <2>2. queued # None => (queued.id \in requested' => queued.kind \in Requests)
    BY <1>3, <1>8, Identifiers DEF Accounts, Rejections, Order, QueueOrder
  <2>3. \A i \in DOMAIN queue : queue[i].id \in requested' => queue[i].kind \in Requests
    BY <1>3, <1>8, Identifiers DEF Accounts, Rejections, Order, QueueOrder
  <2>4. c.id \in requested' => c.kind \in Requests
    <3>1. issued + 1 \notin requested
      BY <1>3 DEF Accounts, Rejections
    <3> QED
      BY <1>4, <1>8, <3>1
  <2>5. \A i \in DOMAIN queue' : queue'[i].id \in requested' => queue'[i].kind \in Requests
    BY <1>5, <2>3, <2>4
  <2> QED
    BY <1>3, <1>7, <2>1, <2>2, <2>5 DEF Accounts, Rejections
<1>10. ASSUME NEW id \in requested' PROVE Placed(id)'
  <2>1. c \in Waiting' /\ \A d \in Waiting : d \in Waiting'
    BY <1>5 DEF Waiting
  <2>2. Outstanding' = Outstanding
    BY <1>3 DEF Outstanding
  <2>3. CASE id \in requested
    BY <1>3, <2>1, <2>2, <2>3 DEF Accounts, AllPlaced, Placed
  <2>4. CASE id = c.id
    BY <2>1, <2>4 DEF Placed
  <2> QED
    BY <1>4, <1>8, <1>10, <2>3, <2>4
<1> QED
  BY <1>9, <1>10 DEF Accounts, AllPlaced

\* One iteration of the batch.
LEMMA BatchAccounts ==
  ASSUME TypeOK, Order, Frames, Accounts, Batch
  PROVE  Accounts'
<1> USE DEF owner, session, inbound, events, daemon
<1>1. CASE Resend
  <2>1. /\ pending = None /\ barrier # None /\ pending' = barrier /\ barrier' = None
        /\ UNCHANGED <<issued, requested, queue, queued, replies, rejected>>
    BY <1>1 DEF Resend, ResendFirst, ResendReady
  <2>2. Rejections'
    BY <2>1 DEF Accounts, Rejections, Past, Later
  <2>3. Outstanding' = Outstanding /\ Waiting' = Waiting
    BY <2>1 DEF Outstanding, Waiting
  <2> QED
    BY <2>1, <2>2, <2>3 DEF Accounts, AllPlaced, Placed
<1>2. CASE ResumeInput \/ WriteBounded \/ ImageWrites
  <2>1. Available /\ WriteSome /\ UNCHANGED <<replies, rejected, pending, barrier>>
    BY <1>2 DEF ResumeInput, WriteBounded, ImageWrites, Sendable, Reached
  <2>2. Unqueue /\ queued' \in {None, Current}
    BY <2>1, WriteSomeType
  <2>3. Current.kind \notin Requests
    <3>1. CASE ResumeInput
      BY <3>1 DEF ResumeInput, Started, Frames, Requests
    <3>2. CASE ImageWrites
      BY <3>2 DEF ImageWrites, Requests
    <3>3. CASE WriteBounded
      <4>1. CASE InputAttempted
        BY <4>1 DEF InputAttempted, Frames, Current, Requests
      <4>2. CASE reader # "idle"
        BY <3>3, <4>2 DEF WriteBounded, Sendable, Reached, Fenced, PermitsPartialInput, Requests
      <4> QED
        BY <3>3, <4>1, <4>2 DEF WriteBounded
    <3> QED
      BY <1>2, <3>1, <3>2, <3>3
  <2>4. Rejections' /\ (Current.id \in requested => Current.kind \in Requests)
    BY <2>1, <2>2, TakeRejections DEF Accounts
  <2>5. AllPlaced'
    BY <2>1, <2>2, <2>3, <2>4, TakePlaced DEF Accounts
  <2> QED
    BY <2>4, <2>5 DEF Accounts
<1>3. CASE FenceHolds \/ LeaseHolds \/ ImagePreparing
  <2>1. Available /\ Unqueue /\ queued' = Current /\ UNCHANGED <<replies, rejected, pending, barrier>>
    BY <1>3 DEF FenceHolds, LeaseHolds, ImagePreparing, Sendable, Reached, Hold
  <2> QED
    BY <2>1, TakeRejections, TakePlaced DEF Accounts
<1>4. CASE Reject \/ ImageExpires
  <2>1. Available /\ Unqueue /\ queued' = None /\ rejected' = rejected \cup {Current.id}
          /\ UNCHANGED <<replies, pending, barrier>>
    BY <1>4 DEF Reject, ImageExpires, Sendable, Reached, Dispose
  <2> QED
    BY <2>1, TakeRejections, TakePlaced DEF Accounts
<1>5. ASSUME Sendable, Dispose, Current.kind = "image", UNCHANGED <<replies, rejected, pending, barrier>>
      PROVE  Accounts'
  <2>1. Available /\ Unqueue /\ queued' = None /\ Current.kind \notin Requests
    BY <1>5 DEF Sendable, Reached, Dispose, Requests
  <2>2. Rejections' /\ Current.id \notin requested
    BY <1>5, <2>1, TakeRejections DEF Accounts
  <2> QED
    BY <1>5, <2>1, <2>2, TakePlaced DEF Accounts
<1>6. CASE ImageClosed
  BY <1>5, <1>6 DEF ImageClosed
<1>7. CASE ImageCancelled
  <2>1. CASE End
    BY <2>1, QuietAccounts DEF End
  <2>2. CASE ~End
    BY <1>5, <1>7, <2>2 DEF ImageCancelled
  <2> QED
    BY <2>1, <2>2
<1>8. CASE WriteAll
  <2>1. /\ Available /\ Unqueue /\ queued' = None /\ UNCHANGED <<replies, rejected>>
        /\ ~LeaseTaken(Current)
    BY <1>8 DEF WriteAll, Sendable, Reached, Dispose
  <2>2. /\ pending' \in {pending, Current} /\ barrier' \in {barrier, Current}
        /\ Current.kind \in Requests => pending' = Current \/ barrier' = Current
    BY <1>8 DEF WriteAll
  <2>3. Rejections' /\ (Current.id \in requested => Current.kind \in Requests)
    BY <2>1, <2>2, TakeRejections DEF Accounts
  <2>4. (pending # None => pending' = pending) /\ (barrier # None => barrier' = barrier)
    BY <1>8, <2>1 DEF WriteAll, LeaseTaken, Pipelines
  <2>5. AllPlaced'
    BY <2>1, <2>2, <2>3, <2>4, TakePlaced DEF Accounts
  <2> QED
    BY <2>3, <2>5 DEF Accounts
<1>9. CASE BatchEnds
  BY <1>9, QuietAccounts DEF BatchEnds
<1> QED
  BY <1>1, <1>2, <1>3, <1>4, <1>6, <1>7, <1>8, <1>9 DEF Batch

\* The responses with one more.
LEMMA OneMoreReply ==
  ASSUME NEW s \in Seq(Nat), NEW n \in Nat, NEW t, t = Append(s, n)
  PROVE  /\ t \in Seq(Nat)
         /\ \A i \in DOMAIN s : i \in DOMAIN t /\ t[i] = s[i]
         /\ \A i \in DOMAIN t : (i \in DOMAIN s /\ t[i] = s[i]) \/ t[i] = n
         /\ \E i \in DOMAIN t : t[i] = n
<1>1. Len(s) + 1 \in DOMAIN t /\ t[Len(s) + 1] = n
  OBVIOUS
<1> QED
  BY <1>1

\* A response answers what it takes off the session, in the owner's events.
LEMMA AnswerAccounts ==
  ASSUME TypeOK, Order, Accounts, ReadResponse
  PROVE  Accounts'
<1>1. UNCHANGED <<issued, requested, queue, queued, rejected>>
  BY DEF ReadResponse, owner
<1>2. /\ replies \in Seq(Nat)
      /\ pending # None => pending.id \in Nat
      /\ barrier # None => barrier.id \in Nat
  BY Identifiers DEF TypeOK
<1>3. \A n \in rejected : Past(n)'
  BY <1>1 DEF Accounts, Rejections, Past, Later
<1> DEFINE Given == {pending, barrier} \ {None}
\* The responses gained are of what the session lost.
<1>5. ASSUME /\ \A i \in DOMAIN replies : i \in DOMAIN replies' /\ replies'[i] = replies[i]
             /\ \A i \in DOMAIN replies' : \/ i \in DOMAIN replies /\ replies'[i] = replies[i]
                                           \/ \E c \in Given : replies'[i] = c.id
             /\ \A c \in Given : c \in {pending', barrier'} \/ \E i \in DOMAIN replies' : replies'[i] = c.id
             /\ pending' \in {None, pending} /\ barrier' \in {None, barrier}
      PROVE  Accounts'
  <2>1. Rejections'
    <3>1. \A n \in rejected : \A i \in DOMAIN replies' : replies'[i] # n
      BY <1>5 DEF Accounts, Rejections
    <3> QED
      BY <1>1, <1>3, <1>5, <3>1 DEF Accounts, Rejections
  <2>2. ASSUME NEW id \in requested PROVE Placed(id)'
    <3>1. Placed(id)
      BY <2>2 DEF Accounts, AllPlaced
    <3>2. ASSUME NEW c \in Outstanding \cup Waiting, c.id = id PROVE Placed(id)'
      <4>1. \/ c \in Outstanding' \cup Waiting'
            \/ \E i \in DOMAIN replies' : replies'[i] = c.id
        BY <1>1, <1>5 DEF Outstanding, Waiting
      <4> QED
        BY <3>2, <4>1 DEF Placed
    <3> QED
      BY <1>1, <1>5, <3>1, <3>2, PlacedStep
  <2> QED
    BY <1>1, <2>1, <2>2 DEF Accounts, AllPlaced
<1>6. CASE UNCHANGED <<session, replies>>
  BY <1>1, <1>6, QuietAccounts DEF session
<1>7. CASE Refusal \/ HoldsBack
  BY <1>1, <1>7, QuietAccounts DEF Refusal, HoldsBack
<1>8. CASE BarrierDelivered
  <2>1. barrier # None /\ pending = None /\ pending' = None /\ barrier' = None
          /\ replies' = Append(replies, barrier.id)
    BY <1>8 DEF BarrierDelivered
  <2>2. /\ \A i \in DOMAIN replies : i \in DOMAIN replies' /\ replies'[i] = replies[i]
        /\ \A i \in DOMAIN replies' : (i \in DOMAIN replies /\ replies'[i] = replies[i]) \/ replies'[i] = barrier.id
        /\ \E i \in DOMAIN replies' : replies'[i] = barrier.id
    BY <1>2, <2>1, OneMoreReply
  <2> QED
    BY <1>5, <2>1, <2>2
<1>9. CASE PendingDelivered
  <2>1. pending # None /\ pending' = None /\ barrier' = barrier /\ replies' = Append(replies, pending.id)
    BY <1>9 DEF PendingDelivered
  <2>2. /\ \A i \in DOMAIN replies : i \in DOMAIN replies' /\ replies'[i] = replies[i]
        /\ \A i \in DOMAIN replies' : (i \in DOMAIN replies /\ replies'[i] = replies[i]) \/ replies'[i] = pending.id
        /\ \E i \in DOMAIN replies' : replies'[i] = pending.id
    BY <1>2, <2>1, OneMoreReply
  <2> QED
    BY <1>5, <2>1, <2>2
<1>10. CASE BothDelivered
  <2>1. pending # None /\ barrier # None /\ pending' = None /\ barrier' = None
          /\ replies' = Append(Append(replies, pending.id), barrier.id)
    BY <1>10 DEF BothDelivered
  <2>0. PICK one : one = Append(replies, pending.id)
    OBVIOUS
  <2>2. /\ one \in Seq(Nat)
        /\ \A i \in DOMAIN replies : i \in DOMAIN one /\ one[i] = replies[i]
        /\ \A i \in DOMAIN one : (i \in DOMAIN replies /\ one[i] = replies[i]) \/ one[i] = pending.id
        /\ \E i \in DOMAIN one : one[i] = pending.id
    BY <1>2, <2>0, <2>1, OneMoreReply
  <2>3. replies' = Append(one, barrier.id)
    BY <2>0, <2>1
  <2>4. /\ \A i \in DOMAIN one : i \in DOMAIN replies' /\ replies'[i] = one[i]
        /\ \A i \in DOMAIN replies' : (i \in DOMAIN one /\ replies'[i] = one[i]) \/ replies'[i] = barrier.id
        /\ \E i \in DOMAIN replies' : replies'[i] = barrier.id
    <3>1. one \in Seq(Nat) /\ barrier.id \in Nat
      BY <1>2, <2>1, <2>2
    <3> QED
      BY <2>3, <3>1, OneMoreReply
  <2>5. /\ \A i \in DOMAIN replies : i \in DOMAIN replies' /\ replies'[i] = replies[i]
        /\ \A i \in DOMAIN replies' : \/ i \in DOMAIN replies /\ replies'[i] = replies[i]
                                      \/ \E c \in Given : replies'[i] = c.id
        /\ \A c \in Given : \E i \in DOMAIN replies' : replies'[i] = c.id
    BY <2>1, <2>2, <2>4
  <2> QED
    BY <1>5, <2>1, <2>5
<1> QED
  BY <1>6, <1>7, <1>8, <1>9, <1>10, AnswerEffect

\* No step loses a request or settles it twice.
LEMMA AccountsStep ==
  ASSUME IInv, Frames, Accounts, [Next]_vars
  PROVE  Accounts'
<1> USE DEF owner, worker, session, inbound, events, daemon
<1>1. TypeOK /\ Order
  BY DEF IInv
<1>2. CASE UNCHANGED <<issued, requested, queue, queued, pending, barrier, replies, rejected>>
  BY <1>2, QuietAccounts
<1>3. CASE Next
  <2>1. \/ Enqueue \/ Batch \/ ReadResponse
        \/ UNCHANGED <<issued, requested, queue, queued, pending, barrier, replies, rejected>>
    BY <1>3 DEF Next, Owner, PublishImage, CloseImage, CancelImage, Stop, End, Worker, Top, Woken,
         Read, ReadPart, ReadSurface, Timeout, RequestTimeout, FrameTimeout, HealthTimeout,
         Daemon, DaemonReads, DaemonAnswers, DaemonDraws
  <2> QED
    BY <1>1, <1>2, <2>1, EnqueueAccounts, BatchAccounts, AnswerAccounts
<1>4. CASE UNCHANGED vars
  BY <1>2, <1>4 DEF vars
<1> QED
  BY <1>3, <1>4

-----------------------------------------------------------------------------
(* Theorems *)

\* Nothing is on the wire, issued or outstanding at first.
LEMMA InitWInv ==
  ASSUME Init
  PROVE  WInv
<1>1. IInv
  BY InitIInv
<1>2. Numbered
  BY BoundsAssumption DEF Init, Numbered
<1>3. Frames
  BY DEF Init, Frames, Intact, Before
<1>4. Sent = {} /\ Refused = {}
  BY DEF Init, Sent, Refused
<1>5. Wire
  BY <1>4 DEF Init, Wire, Recent, InLine, RefusedOnce, Refusals, Fence
<1>6. Accounts
  BY DEF Init, Accounts, Rejections, AllPlaced
<1> QED
  BY <1>1, <1>2, <1>3, <1>5, <1>6 DEF WInv

\* The inductive invariant of the wire holds in every reachable state.
THEOREM WireInvariance == Spec => []WInv
<1>1. Init => WInv
  BY InitWInv
<1>2. WInv /\ [Next]_vars => WInv'
  <2> SUFFICES ASSUME WInv, [Next]_vars PROVE WInv'
    OBVIOUS
  <2>1. TypeOK
    BY DEF WInv, IInv
  <2> QED
    BY <2>1, NextIInv, NumberedStep, FramesStep, WireStep, AccountsStep DEF WInv
<1> QED
  BY <1>1, <1>2, PTL DEF Spec

\* However the socket takes input and images, and wherever a probe or a resend
\* falls, the daemon never receives a frame inside another (run_connection's
\* partial writes, Health::tick, take_refused_barrier).
THEOREM FramesStayIntact == Spec => []FramesIntact
<1>1. WInv => FramesIntact
  BY IntactMeans DEF WInv, Frames
<1> QED
  BY <1>1, WireInvariance, PTL

\* The daemon acts on no command twice: an activation is resent only when its
\* first copy was refused, and that copy is gone (take_refused_barrier).
THEOREM ActsOnce == Spec => []ExecutedOnce
<1>1. WInv => ExecutedOnce
  <2> SUFFICES ASSUME WInv, NEW i \in DOMAIN executed, NEW j \in DOMAIN executed, i # j
               PROVE  executed[i].id # executed[j].id
    BY DEF ExecutedOnce
  <2>1. i \in Nat /\ j \in Nat
    BY DEF WInv, IInv, TypeOK
  <2>2. i < j \/ j < i
    BY <2>1
  <2> QED
    BY <2>2 DEF WInv, Wire, InLine, MayFollow
<1> QED
  BY <1>1, WireInvariance, PTL

\* The daemon acts on commands in the order of issue, but for an activation it
\* refused, and no request ever overtakes that (Pipelines, the lease).
THEOREM OvertakesOnlyRefused == Spec => []OnlyRefusedOvertaken
<1>1. WInv => OnlyRefusedOvertaken
  BY DEF WInv, Wire, InLine, MayFollow, OnlyRefusedOvertaken
<1> QED
  BY <1>1, WireInvariance, PTL

\* Every request is waiting, outstanding, answered or rejected, and only one of
\* these, through holds, refusals, resends and barrier responses
\* (run_connection, handle_message).
THEOREM RequestsAreAccounted == Spec => []RequestsAccounted
<1>1. WInv => RequestsAccounted
  <2> SUFFICES ASSUME WInv PROVE RequestsAccounted
    OBVIOUS
  <2>1. TypeOK /\ Order /\ Rejections /\ AllPlaced
    BY DEF WInv, IInv, Accounts
  <2>2. \A i \in DOMAIN replies : replies[i] \in Nat /\ Later(replies[i])
    BY <2>1, Identifiers DEF Order, ReplyOrder
  <2>3. \A n \in Nat : Later(n) => \A c \in (Outstanding \ {pending, barrier}) \cup Waiting : c.id \in Nat /\ n < c.id
    BY <2>1, Identifiers DEF Later, Outstanding, Waiting
  <2>4. \A n \in rejected : n \in Nat /\ Later(n)
    BY <2>1 DEF Rejections, Past, TypeOK
  <2>5. ASSUME NEW c \in Outstanding \cup Waiting
        PROVE  c.id \notin rejected /\ \A i \in DOMAIN replies : replies[i] # c.id
    <3>1. CASE c \in (Outstanding \ {pending, barrier}) \cup Waiting
      BY <2>2, <2>3, <2>4, <3>1
    <3>2. CASE c \in {pending, barrier} /\ c # None
      <4>1. c.id \notin rejected
        BY <2>1, <3>2 DEF Rejections
      <4>2. \A i \in DOMAIN replies : replies[i] < c.id /\ c.id \in Nat
        BY <2>1, <3>2, Identifiers DEF Order, ReplyOrder
      <4> QED
        BY <2>2, <4>1, <4>2
    <3> QED
      BY <2>5, <3>1, <3>2 DEF Outstanding
  <2>6. \A i \in DOMAIN replies : replies[i] \notin rejected
    BY <2>1 DEF Rejections
  <2> QED
    BY <2>1, <2>5, <2>6 DEF RequestsAccounted, AllPlaced, Placed
<1> QED
  BY <1>1, WireInvariance, PTL

-----------------------------------------------------------------------------
(* Answers *)

(* A chunk of a request; a response. *)
Asks(chunk) == chunk.cmd # None /\ chunk.cmd.kind \in Requests
Answers(m) == m.kind = "response"

(* A request that is out is in one place: on the wire whole, begun by the   *)
(* daemon, or answered in a response not yet read; and it is awaited.       *)
Asked ==
  \A i \in DOMAIN toDaemon :
    Asks(toDaemon[i]) => toDaemon[i].part # "first" /\ Awaited(toDaemon[i].cmd.id)
Begun ==
  \A c \in open : /\ c.kind \in Requests /\ Awaited(c.id)
                  /\ \E i \in DOMAIN executed : executed[i] = c
Answered ==
  \A i \in DOMAIN toClient : Answers(toClient[i]) =>
    /\ Awaited(toClient[i].id)
    /\ \A c \in open : c.id # toClient[i].id
AnsweredOnce ==
  \A i, j \in DOMAIN toClient :
    (i # j /\ Answers(toClient[i]) /\ Answers(toClient[j])) => toClient[i].id # toClient[j].id

(* Only the pipelined activation is refused; any other response is to what  *)
(* the daemon acted on, and so is one that is held or was delivered.        *)
Truthful ==
  /\ \A i \in DOMAIN toClient : Answers(toClient[i]) =>
       /\ toClient[i].busy => barrier # None /\ toClient[i].id = barrier.id
       /\ ~toClient[i].busy => Acted(toClient[i].id)
  /\ held => Acted(barrier.id)
  /\ \A i \in DOMAIN replies : Acted(replies[i])
RejectedUnsent == \A n \in rejected : Unsent(n)

Places == Asked /\ Begun /\ Answered /\ AnsweredOnce
Earned == Places /\ Truthful /\ RejectedUnsent

\* A step that the wires, the session and the daemon's requests do not take part
\* in, though more may be rejected that was not sent.
LEMMA QuietEarned ==
  ASSUME Earned,
         UNCHANGED <<toDaemon, toClient, open, executed, pending, barrier, held, refused, replies>>,
         \A n \in rejected' : n \in rejected \/ Unsent(n)
  PROVE  Earned'
<1>1. Sent' = Sent
  BY DEF Sent, Complete
<1>2. RejectedUnsent'
  BY <1>1 DEF Earned, RejectedUnsent, Unsent
<1>3. Places'
  BY DEF Earned, Places, Asked, Begun, Answered, AnsweredOnce, Awaited, Asks, Answers
<1>4. Truthful'
  BY DEF Earned, Truthful, Answers, Acted
<1> QED
  BY <1>2, <1>3, <1>4 DEF Earned

\* The places hold command numbers.
LEMMA PlaceTypes ==
  ASSUME TypeOK
  PROVE  /\ \A i \in DOMAIN toDaemon : toDaemon[i] \in Chunks /\ (Asks(toDaemon[i]) => toDaemon[i].cmd.id \in Nat)
         /\ \A c \in open : c.id \in Nat
         /\ \A i \in DOMAIN toClient : Answers(toClient[i]) => toClient[i].id \in Nat /\ toClient[i].busy \in BOOLEAN
         /\ pending # None => pending.id \in Nat
         /\ barrier # None => barrier.id \in Nat
<1>1. \A c \in Commands : c.id \in Nat
  BY DEF Commands
<1>2. \A x \in Chunks : x.cmd # None => x.cmd \in Commands
  BY DEF Chunks, MaybeCommand
<1>3. \A m \in Messages : Answers(m) => m.id \in Nat /\ m.busy \in BOOLEAN
  BY DEF Messages, Answers
<1>4. /\ \A i \in DOMAIN toDaemon : toDaemon[i] \in Chunks
      /\ \A i \in DOMAIN toClient : toClient[i] \in Messages
      /\ pending # None => pending \in Commands
      /\ barrier # None => barrier \in Commands
      /\ open \subseteq Commands
  BY DEF TypeOK, MaybeCommand
<1> QED
  BY <1>1, <1>2, <1>3, <1>4 DEF Asks

\* A chunk is written: none of a request, or a request whole that is awaited from
\* now on.
LEMMA ChunkEarned ==
  ASSUME TypeOK, Earned, NEW x \in Chunks, toDaemon' = Append(toDaemon, x),
         UNCHANGED <<toClient, open, executed, replies, rejected>>,
         Asks(x) => x.part # "first" /\ Awaited(x.cmd.id)',
         Complete(x) => x.cmd.id \notin rejected,
         \A n \in Nat : Awaited(n) => Awaited(n)',
         \A i \in DOMAIN toClient :
           (Answers(toClient[i]) /\ toClient[i].busy) => barrier' # None /\ toClient[i].id = barrier'.id,
         held' => Acted(barrier.id)'
  PROVE  Earned'
<1>1. \A i \in DOMAIN toDaemon' :
        (i \in DOMAIN toDaemon /\ toDaemon'[i] = toDaemon[i]) \/ toDaemon'[i] = x
  BY DEF TypeOK
<1>2. Asked'
  BY <1>1, PlaceTypes DEF Earned, Places, Asked, Asks
<1>3. Begun'
  BY PlaceTypes DEF Earned, Places, Begun
<1>4. Answered' /\ AnsweredOnce'
  BY PlaceTypes DEF Earned, Places, Answered, AnsweredOnce, Answers
<1>5. Truthful'
  BY DEF Earned, Truthful, Answers, Acted
<1>6. RejectedUnsent'
  <2>1. \A c \in Sent' : c \in Sent \/ (Complete(x) /\ c = x.cmd)
    BY <1>1 DEF Sent
  <2> QED
    BY <2>1 DEF Earned, RejectedUnsent, Unsent
<1> QED
  BY <1>2, <1>3, <1>4, <1>5, <1>6 DEF Earned, Places

\* A bounded write of input or an image.
LEMMA WriteSomeEarned ==
  ASSUME TypeOK, Order, Rejections, Earned, Available, WriteSome, Current.kind \notin Requests,
         UNCHANGED <<toClient, open, executed, replies, rejected, pending, barrier, held, refused>>
  PROVE  Earned'
<1>1. Unqueue /\ queued' \in {None, Current}
  BY WriteSomeType
<1>2. Current.id \notin rejected
  <2>1. (\A n \in Nat : Past(n) => n < Current.id) /\ Current.id \in Nat
    BY <1>1, TakePast
  <2> QED
    BY <2>1 DEF Rejections
<1>3. Current \in Commands
  BY CurrentType
<1>4. ASSUME NEW x \in {Whole(Current), First(Current), Last(Current)}, toDaemon' = Append(toDaemon, x)
      PROVE  Earned'
  <2>1. x \in Chunks /\ x.cmd = Current
    <3>1. Whole(Current) \in Chunks /\ First(Current) \in Chunks /\ Last(Current) \in Chunks
      BY <1>3, ChunkType
    <3>2. Whole(Current).cmd = Current /\ First(Current).cmd = Current /\ Last(Current).cmd = Current
      BY DEF Whole, First, Last
    <3> QED
      BY <1>4, <3>1, <3>2
  <2>2. \A n \in Nat : Awaited(n) => Awaited(n)'
    BY DEF Awaited
  <2>3. ~Asks(x)
    BY <2>1 DEF Asks
  <2>4. \A i \in DOMAIN toClient :
          (Answers(toClient[i]) /\ toClient[i].busy) => barrier' # None /\ toClient[i].id = barrier'.id
    BY DEF Earned, Truthful
  <2>5. held' => Acted(barrier.id)'
    BY DEF Earned, Truthful, Acted
  <2> QED
    BY <1>2, <1>4, <2>1, <2>2, <2>3, <2>4, <2>5, ChunkEarned
<1>5. toDaemon' = toDaemon \/ \E x \in {Whole(Current), First(Current), Last(Current)} : toDaemon' = Append(toDaemon, x)
  BY DEF WriteSome
<1> QED
  BY <1>4, <1>5, QuietEarned

\* A refused activation is sent again when nothing is out.
LEMMA ResendEarned ==
  ASSUME TypeOK, Order, Rejections, Earned, Resend
  PROVE  Earned'
<1>1. /\ pending = None /\ barrier # None /\ refused /\ toDaemon' = Append(toDaemon, Whole(barrier))
      /\ pending' = barrier /\ barrier' = None /\ held' = FALSE
      /\ UNCHANGED <<toClient, open, executed, replies, rejected>>
  BY DEF Resend, ResendFirst, ResendReady, events, daemon
<1>2. \A n \in Nat : ~Awaited(n)
  BY <1>1 DEF Awaited
<1>3. PICK x : x = Whole(barrier)
  OBVIOUS
<1>4. barrier \in Commands
  BY <1>1 DEF TypeOK, MaybeCommand
<1>5. x \in Chunks /\ x.cmd = barrier /\ x.part # "first"
  BY <1>3, <1>4, ChunkType DEF Whole
<1>6. Awaited(x.cmd.id)'
  BY <1>1, <1>5 DEF Awaited
<1>7. x.cmd.id \notin rejected
  BY <1>1, <1>5 DEF Rejections
<1>8. \A i \in DOMAIN toClient : ~Answers(toClient[i])
  BY <1>2, PlaceTypes DEF Earned, Places, Answered
<1> QED
  BY <1>1, <1>2, <1>3, <1>5, <1>6, <1>7, <1>8, ChunkEarned

\* A command written at once: a request is the lease's or the barrier's.
LEMMA WriteAllEarned ==
  ASSUME TypeOK, Order, Rejections, Earned, WriteAll
  PROVE  Earned'
<1>1. /\ Available /\ ~LeaseTaken(Current) /\ Unqueue /\ queued' = None
      /\ toDaemon' = Append(toDaemon, Whole(Current))
      /\ UNCHANGED <<toClient, open, executed, replies, rejected>>
  BY DEF WriteAll, Sendable, Reached, Dispose, daemon, events
<1>2. Current.id \notin rejected
  <2>1. (\A n \in Nat : Past(n) => n < Current.id) /\ Current.id \in Nat
    BY <1>1, TakePast
  <2> QED
    BY <2>1 DEF Rejections
<1>3. PICK x : x = Whole(Current)
  OBVIOUS
<1>4. x \in Chunks /\ x.cmd = Current /\ x.part # "first" /\ Current # None
  BY <1>1, <1>3, CurrentType, ChunkType DEF Whole
<1>5. \A i \in DOMAIN toClient :
        (Answers(toClient[i]) /\ toClient[i].busy) => barrier # None /\ toClient[i].id = barrier.id
  BY DEF Earned, Truthful
<1>6. held => barrier # None /\ Acted(barrier.id)
  BY DEF Earned, Truthful, Order, HeldAwaitsFocus
<1>7. /\ \A n \in Nat : Awaited(n) => Awaited(n)'
      /\ Asks(x) => Awaited(x.cmd.id)'
      /\ barrier # None => barrier' = barrier
      /\ held' => held /\ barrier' = barrier
  <2>1. CASE Current.kind \notin Requests
    <3>1. UNCHANGED <<pending, barrier, held, refused>> /\ ~Asks(x)
      BY <1>4, <2>1 DEF WriteAll, session, Asks
    <3> QED
      BY <3>1 DEF Awaited
  <2>2. CASE Current.kind \in Requests /\ pending # None
    <3>1. barrier = None /\ barrier' = Current /\ held' = FALSE /\ refused' = FALSE /\ pending' = pending
      BY <1>1, <2>2 DEF WriteAll, LeaseTaken, Pipelines
    <3> QED
      BY <1>4, <2>2, <3>1 DEF Awaited
  <2>3. CASE Current.kind \in Requests /\ pending = None
    <3>1. barrier = None /\ pending' = Current /\ UNCHANGED <<barrier, held, refused>>
      BY <1>1, <2>3 DEF WriteAll, LeaseTaken, Pipelines
    <3> QED
      BY <1>4, <2>3, <3>1 DEF Awaited
  <2> QED
    BY <2>1, <2>2, <2>3
<1>8. held' => Acted(barrier.id)'
  BY <1>1, <1>6, <1>7 DEF Acted
<1> QED
  BY <1>1, <1>2, <1>3, <1>4, <1>5, <1>7, <1>8, ChunkEarned

\* One iteration of the batch.
LEMMA BatchEarned ==
  ASSUME TypeOK, Order, Frames, Wire, Rejections, Earned, Batch
  PROVE  Earned'
<1> USE DEF owner, session, inbound, events, daemon
<1>1. CASE ResumeInput \/ WriteBounded \/ ImageWrites
  <2>1. /\ Available /\ WriteSome
        /\ UNCHANGED <<toClient, open, executed, replies, rejected, pending, barrier, held, refused>>
    BY <1>1 DEF ResumeInput, WriteBounded, ImageWrites, Sendable, Reached
  <2>2. Current.kind \notin Requests
    BY <1>1, BoundedKinds
  <2> QED
    BY <2>1, <2>2, WriteSomeEarned
<1>2. CASE FenceHolds \/ LeaseHolds \/ ImagePreparing \/ ImageClosed \/ BatchEnds \/ ImageCancelled
  <2>1. UNCHANGED <<toDaemon, toClient, open, executed, pending, barrier, held, refused, replies, rejected>>
    BY <1>2 DEF FenceHolds, LeaseHolds, ImagePreparing, ImageClosed, BatchEnds, ImageCancelled, End
  <2> QED
    BY <2>1, QuietEarned
<1>3. CASE Reject \/ ImageExpires
  <2>1. /\ Available /\ Unqueue /\ queued' \in {None, Current} /\ rejected' = rejected \cup {Current.id}
        /\ UNCHANGED <<toDaemon, toClient, open, executed, pending, barrier, held, refused, replies>>
    BY <1>3 DEF Reject, ImageExpires, Sendable, Reached, Dispose
  <2>2. (\A n \in Nat : Past(n) => n < Current.id) /\ Current.id \in Nat
    BY <2>1, TakePast
  <2>3. Unsent(Current.id)
    BY <2>2, SentType DEF Wire, Recent, Unsent
  <2> QED
    BY <2>1, <2>3, QuietEarned
<1> QED
  BY <1>1, <1>2, <1>3, ResendEarned, WriteAllEarned DEF Batch

\* A message arrives at the client: no response, or one to a request that was on
\* the wire or begun, and is there no more.
LEMMA MessageEarned ==
  ASSUME TypeOK, Earned, NEW m \in Messages, toClient' = Append(toClient, m),
         UNCHANGED <<pending, barrier, held, refused, replies, rejected>>,
         \A c \in Sent' : c \in Sent,
         \A i \in DOMAIN executed : \E j \in DOMAIN executed' : executed'[j] = executed[i],
         \A i \in DOMAIN toDaemon' : \E j \in DOMAIN toDaemon : toDaemon'[i] = toDaemon[j],
         open' \subseteq open,
         Answers(m) =>
           /\ Awaited(m.id)
           /\ \A c \in open' : c.id # m.id
           /\ \A i \in DOMAIN toClient : Answers(toClient[i]) => toClient[i].id # m.id
           /\ m.busy => barrier # None /\ m.id = barrier.id
           /\ ~m.busy => Acted(m.id)
  PROVE  Earned'
<1>1. /\ toClient \in Seq(Messages) /\ Len(toClient) \in Nat
      /\ DOMAIN toClient = 1..Len(toClient) /\ DOMAIN toClient' = 1..(Len(toClient) + 1)
      /\ toClient'[Len(toClient) + 1] = m
      /\ \A i \in 1..Len(toClient) : toClient'[i] = toClient[i]
  BY DEF TypeOK
<1>2. \A i \in DOMAIN toClient' : \/ i \in DOMAIN toClient /\ toClient'[i] = toClient[i]
                                  \/ i = Len(toClient) + 1 /\ toClient'[i] = m
  BY <1>1
<1>3. \A n : Awaited(n) => Awaited(n)'
  BY DEF Awaited
<1>4. Asked'
  BY <1>3 DEF Earned, Places, Asked, Asks
<1>5. Begun'
  BY <1>3 DEF Earned, Places, Begun
<1>6. Answered'
  BY <1>2, <1>3 DEF Earned, Places, Answered, Answers
<1>7. AnsweredOnce'
  BY <1>2 DEF Earned, Places, AnsweredOnce, Answers
<1>8. Truthful'
  <2>1. ASSUME NEW i \in DOMAIN toClient', Answers(toClient'[i])
        PROVE  /\ toClient'[i].busy => barrier' # None /\ toClient'[i].id = barrier'.id
               /\ ~toClient'[i].busy => Acted(toClient'[i].id)
    BY <1>2, <2>1 DEF Earned, Truthful
  <2>2. \A n : Acted(n) => \E j \in DOMAIN executed' : executed'[j].id = n
    BY DEF Acted
  <2>3. (held => Acted(barrier.id)) /\ \A i \in DOMAIN replies : Acted(replies[i])
    BY DEF Earned, Truthful
  <2>4. \A i \in DOMAIN toClient' : Answers(toClient'[i]) =>
          /\ toClient'[i].busy => barrier' # None /\ toClient'[i].id = barrier'.id
          /\ ~toClient'[i].busy => \E j \in DOMAIN executed' : executed'[j].id = toClient'[i].id
    BY <2>1, <2>2
  <2>5. held' => \E j \in DOMAIN executed' : executed'[j].id = barrier'.id
    BY <2>2, <2>3
  <2>6. \A i \in DOMAIN replies' : \E j \in DOMAIN executed' : executed'[j].id = replies'[i]
    BY <2>2, <2>3
  <2> QED
    BY <2>4, <2>5, <2>6 DEF Truthful, Answers, Acted
<1>9. RejectedUnsent'
  BY DEF Earned, RejectedUnsent, Unsent
<1> QED
  BY <1>4, <1>5, <1>6, <1>7, <1>8, <1>9 DEF Earned, Places

\* The daemon answers a request it has begun.
LEMMA AnswersOpen ==
  ASSUME TypeOK, Order, Wire, Earned, DaemonAnswers
  PROVE  Earned'
<1>1. PICK c \in open : toClient' = Append(toClient, Response(c, FALSE)) /\ open' = open \ {c}
  BY DEF DaemonAnswers
<1>2. UNCHANGED <<pending, barrier, held, refused, replies, rejected, toDaemon, executed>>
  BY DEF DaemonAnswers, worker, session, events
<1>3. PICK m : m = Response(c, FALSE)
  OBVIOUS
<1>4. c \in Commands
  BY DEF TypeOK
<1>5. m \in Messages /\ m.id = c.id /\ m.busy = FALSE /\ m.kind = "response"
  BY <1>3, <1>4 DEF Response, Messages, Commands
<1>6. Sent' = Sent
  BY <1>2 DEF Sent, Complete
<1>8. Awaited(c.id) /\ Acted(c.id)
  BY DEF Earned, Places, Begun, Acted
<1>9. \A i \in DOMAIN toClient : Answers(toClient[i]) => toClient[i].id # c.id
  BY DEF Earned, Places, Answered
<1>10. ASSUME NEW o \in open' PROVE o.id # c.id
  <2>1. o \in open /\ o # c
    BY <1>1
  <2>2. PICK i \in DOMAIN executed : executed[i] = o
    BY <2>1 DEF Earned, Places, Begun
  <2>3. PICK j \in DOMAIN executed : executed[j] = c
    BY DEF Earned, Places, Begun
  <2>4. i \in Nat /\ j \in Nat
    BY DEF TypeOK
  <2>5. i < j \/ j < i
    BY <2>1, <2>2, <2>3, <2>4
  <2> QED
    BY <2>2, <2>3, <2>5 DEF Wire, InLine, MayFollow
<1> QED
  BY <1>1, <1>2, <1>3, <1>5, <1>6, <1>8, <1>9, <1>10, MessageEarned DEF Answers

\* A request finds the daemon busy only when it is the pipelined activation,
\* which the focus ahead of it has kept waiting.
LEMMA OnlyBarrierRefused ==
  ASSUME TypeOK, Order, Wire, Earned, toDaemon # <<>>, Asks(Head(toDaemon)), open # {}
  PROVE  barrier # None /\ Head(toDaemon).cmd.id = barrier.id
<1>1. PICK x : x = Head(toDaemon)
  OBVIOUS
<1>2. 1 \in DOMAIN toDaemon /\ x = toDaemon[1] /\ x \in Chunks
  BY <1>1 DEF TypeOK
<1>3. Asks(x) /\ Complete(x) /\ Awaited(x.cmd.id)
  BY <1>1, <1>2 DEF Earned, Places, Asked, Asks, Complete
<1>4. PICK o \in open : TRUE
  OBVIOUS
<1>5. PICK i \in DOMAIN executed : executed[i] = o
  BY DEF Earned, Places, Begun
<1>6. o.kind \in Requests /\ Awaited(o.id)
  BY DEF Earned, Places, Begun
<1>7. MayFollow(o, x.cmd)
  BY <1>2, <1>3, <1>5 DEF Wire, InLine
<1>8. o.id \in Nat /\ x.cmd.id \in Nat
  BY <1>1, <1>2, <1>3, PlaceTypes
<1>9. o.id # x.cmd.id /\ ~(o.id > x.cmd.id)
  BY <1>6, <1>7 DEF MayFollow
<1>10. (pending # None /\ barrier # None) => pending.id < barrier.id
  BY DEF Order, RequestOrder
<1>11. ~(pending # None /\ x.cmd.id = pending.id)
  BY <1>6, <1>8, <1>9, <1>10, PlaceTypes DEF Awaited
<1> QED
  BY <1>1, <1>3, <1>11 DEF Awaited

\* A request at the head of the wire is neither begun nor answered.
LEMMA HeadApart ==
  ASSUME TypeOK, Wire, Earned, toDaemon # <<>>, NEW x, x = Head(toDaemon), Complete(x)
  PROVE  /\ 1 \in DOMAIN toDaemon /\ x = toDaemon[1] /\ x.cmd \in Sent
         /\ \A c \in open : c.id # x.cmd.id
         /\ \A i \in DOMAIN toClient : Answers(toClient[i]) => toClient[i].id # x.cmd.id
<1>1. 1 \in DOMAIN toDaemon /\ x = toDaemon[1]
  BY DEF TypeOK
<1>2. x.cmd \in Sent
  BY <1>1 DEF Sent
<1>3. \A i \in DOMAIN executed : executed[i].id # x.cmd.id
  BY <1>1 DEF Wire, InLine, MayFollow
<1>4. \A c \in open : c.id # x.cmd.id
  BY <1>3 DEF Earned, Places, Begun
<1>5. ASSUME NEW i \in DOMAIN toClient, Answers(toClient[i]) PROVE toClient[i].id # x.cmd.id
  <2>1. CASE toClient[i].busy
    <3>1. toClient[i].id \in Refused
      BY <1>5, <2>1 DEF Refused, Refuses, Answers
    <3> QED
      BY <1>2, <3>1 DEF Wire, Refusals, Unsent
  <2>2. CASE ~toClient[i].busy
    BY <1>3, <1>5, <2>2 DEF Earned, Truthful, Acted
  <2> QED
    BY <2>1, <2>2
<1> QED
  BY <1>1, <1>2, <1>4, <1>5

\* The daemon acts on the command a chunk completes, or refuses it, or waits for
\* the rest.
LEMMA DaemonReadsEarned ==
  ASSUME TypeOK, Order, Wire, Earned, DaemonReads
  PROVE  Earned'
<1>1. PICK x : x = Head(toDaemon)
  OBVIOUS
<1>2. /\ toDaemon # <<>> /\ toDaemon' = Tail(toDaemon)
      /\ UNCHANGED <<pending, barrier, held, refused, replies, rejected>>
  BY DEF DaemonReads, worker, session, events
<1>3. /\ x \in Chunks /\ 1 \in DOMAIN toDaemon /\ x = toDaemon[1]
      /\ \A i \in DOMAIN toDaemon' : i + 1 \in DOMAIN toDaemon /\ toDaemon'[i] = toDaemon[i + 1]
  BY <1>1, <1>2 DEF TypeOK
<1>4. \A i \in DOMAIN toDaemon' : \E j \in DOMAIN toDaemon : toDaemon'[i] = toDaemon[j]
  BY <1>3
<1>5. \A n : Awaited(n) => Awaited(n)'
  BY <1>2 DEF Awaited
<1>6. Asked'
  BY <1>4, <1>5 DEF Earned, Places, Asked, Asks
<1>7. ASSUME \/ executed' = executed
             \/ Complete(x) /\ executed' = Append(executed, x.cmd)
      PROVE  /\ \A c \in Sent' : c \in Sent
             /\ \A i \in DOMAIN executed : i \in DOMAIN executed' /\ executed'[i] = executed[i]
  <2>1. CASE executed' = executed
    BY <1>4, <2>1 DEF Sent
  <2>2. CASE Complete(x) /\ executed' = Append(executed, x.cmd)
    <3>1. /\ \A i \in DOMAIN executed' :
               (i \in DOMAIN executed /\ executed'[i] = executed[i]) \/ executed'[i] = x.cmd
          /\ \A i \in DOMAIN executed : i \in DOMAIN executed' /\ executed'[i] = executed[i]
      BY <2>2 DEF TypeOK
    <3>2. x.cmd \in Sent
      BY <1>3, <2>2 DEF Sent
    <3> QED
      BY <1>4, <3>1, <3>2 DEF Sent
  <2> QED
    BY <1>7, <2>1, <2>2
<1>8. CASE /\ UNCHANGED <<toClient, executed>> \/ (Complete(x) /\ toClient' = toClient /\ executed' = Append(executed, x.cmd))
           /\ \/ open' = open
              \/ open' = open \cup {x.cmd} /\ Asks(x) /\ Complete(x) /\ executed' = Append(executed, x.cmd)
  <2>1. /\ \A c \in Sent' : c \in Sent
        /\ \A i \in DOMAIN executed : i \in DOMAIN executed' /\ executed'[i] = executed[i]
    BY <1>7, <1>8
  <2>2. toClient' = toClient
    BY <1>8
  <2>3. \A c \in open' : \/ c \in open
                         \/ /\ c = x.cmd /\ Asks(x) /\ Complete(x)
                            /\ executed' = Append(executed, x.cmd)
    BY <1>8
  <2>4. Begun'
    <3>1. ASSUME NEW c \in open' PROVE c.kind \in Requests /\ Awaited(c.id) /\ \E i \in DOMAIN executed' : executed'[i] = c
      <4>1. CASE c \in open
        BY <2>1, <4>1 DEF Earned, Places, Begun
      <4>2. CASE c = x.cmd /\ Asks(x) /\ executed' = Append(executed, x.cmd)
        <5>1. c.kind \in Requests /\ Awaited(c.id)
          BY <1>3, <4>2 DEF Earned, Places, Asked, Asks
        <5>2. Len(executed) + 1 \in DOMAIN executed' /\ executed'[Len(executed) + 1] = c
          BY <4>2 DEF TypeOK
        <5> QED
          BY <5>1, <5>2
      <4> QED
        BY <2>3, <4>1, <4>2
    <3> QED
      BY <1>5, <3>1 DEF Begun
  <2>5. Answered' /\ AnsweredOnce'
    <3>1. \A c \in open' : \A i \in DOMAIN toClient : Answers(toClient[i]) => c.id # toClient[i].id
      BY <1>1, <1>2, <2>3, HeadApart DEF Earned, Places, Answered
    <3> QED
      BY <1>5, <2>2, <3>1 DEF Earned, Places, Answered, AnsweredOnce, Answers
  <2>6. Truthful'
    <3>1. \A n : Acted(n) => \E j \in DOMAIN executed' : executed'[j].id = n
      BY <2>1 DEF Acted
    <3> QED
      BY <1>2, <2>2, <3>1 DEF Earned, Truthful, Answers, Acted
  <2>7. RejectedUnsent'
    BY <1>2, <2>1 DEF Earned, RejectedUnsent, Unsent
  <2> QED
    BY <1>6, <2>4, <2>5, <2>6, <2>7 DEF Earned, Places
<1>9. CASE /\ Asks(x) /\ Complete(x) /\ open # {} /\ toClient' = Append(toClient, Response(x.cmd, TRUE))
           /\ UNCHANGED <<open, executed>>
  <2>1. x.cmd \in Commands
    BY <1>3, <1>9 DEF Complete, Chunks, MaybeCommand
  <2>2. PICK m : m = Response(x.cmd, TRUE)
    OBVIOUS
  <2>3. m \in Messages /\ m.id = x.cmd.id /\ m.busy = TRUE
    BY <2>1, <2>2 DEF Response, Messages, Commands
  <2>4. barrier # None /\ m.id = barrier.id
    BY <1>1, <1>2, <1>9, <2>3, OnlyBarrierRefused
  <2>5. Awaited(m.id)
    BY <1>3, <1>9, <2>3 DEF Earned, Places, Asked
  <2>6. /\ \A c \in open : c.id # m.id
        /\ \A i \in DOMAIN toClient : Answers(toClient[i]) => toClient[i].id # m.id
    BY <1>1, <1>2, <1>9, <2>3, HeadApart
  <2>7. \A c \in Sent' : c \in Sent
    BY <1>7, <1>9
  <2> QED
    BY <1>2, <1>4, <1>9, <2>2, <2>3, <2>4, <2>5, <2>6, <2>7, MessageEarned
<1>10. \/ UNCHANGED <<toClient, open, executed>>
       \/ /\ Asks(x) /\ Complete(x) /\ open # {} /\ toClient' = Append(toClient, Response(x.cmd, TRUE))
          /\ UNCHANGED <<open, executed>>
       \/ /\ Complete(x) /\ executed' = Append(executed, x.cmd) /\ toClient' = toClient
          /\ open' = IF x.cmd.kind \in Requests THEN open \cup {x.cmd} ELSE open
  BY <1>1 DEF DaemonReads, Complete, Asks
<1> QED
  <2>1. CASE UNCHANGED <<toClient, open, executed>>
    BY <1>8, <2>1
  <2>2. CASE /\ Complete(x) /\ executed' = Append(executed, x.cmd) /\ toClient' = toClient
             /\ open' = IF x.cmd.kind \in Requests THEN open \cup {x.cmd} ELSE open
    <3>1. Asks(x) <=> x.cmd.kind \in Requests
      BY <2>2 DEF Asks, Complete
    <3> QED
      BY <1>8, <2>2, <3>1
  <2> QED
    BY <1>9, <1>10, <2>1, <2>2

\* The client reads a message.  A response leaves its own request's place empty,
\* so that what is still out is still awaited.
LEMMA ReadEarned ==
  ASSUME TypeOK, Wire, Earned, ReadFrame, NEW m, m = Head(toClient),
         UNCHANGED <<toDaemon, open, executed, rejected>>,
         \A n \in Nat : (Awaited(n) /\ ~(Answers(m) /\ n = m.id)) =>
                          Awaited(n)' /\ (barrier # None /\ n = barrier.id => barrier' = barrier),
         held' => Acted(barrier.id)', (\A i \in DOMAIN replies : Acted(replies[i]))'
  PROVE  Earned'
<1>1. /\ 1 \in DOMAIN toClient /\ m = toClient[1]
      /\ \A i \in DOMAIN toClient' : i \in Nat /\ i + 1 \in DOMAIN toClient /\ i + 1 # 1 /\ toClient'[i] = toClient[i + 1]
  BY DEF ReadFrame, TypeOK
<1>2. \A i \in DOMAIN toClient' : (Answers(m) /\ Answers(toClient'[i])) => toClient'[i].id # m.id
  BY <1>1 DEF Earned, Places, AnsweredOnce
<1>3. ASSUME NEW i \in DOMAIN toDaemon, Asks(toDaemon[i]), Answers(m) PROVE toDaemon[i].cmd.id # m.id
  <2>1. Complete(toDaemon[i])
    BY <1>3 DEF Earned, Places, Asked, Asks, Complete
  <2>2. CASE m.busy
    <3>1. m.id \in Refused
      BY <1>1, <1>3, <2>2 DEF Refused, Refuses, Answers
    <3>2. toDaemon[i].cmd \in Sent
      BY <2>1 DEF Sent
    <3> QED
      BY <3>1, <3>2 DEF Wire, Refusals, Unsent
  <2>3. CASE ~m.busy
    <3>1. Acted(m.id)
      BY <1>1, <1>3, <2>3 DEF Earned, Truthful
    <3> QED
      BY <2>1, <3>1 DEF Acted, Wire, InLine, MayFollow
  <2> QED
    BY <2>2, <2>3
<1>4. Asked'
  BY <1>3, PlaceTypes DEF Earned, Places, Asked, Asks
<1>5. Begun'
  BY <1>1, PlaceTypes DEF Earned, Places, Begun, Answered
<1>6. ASSUME NEW i \in DOMAIN toClient', Answers(toClient'[i])
      PROVE  /\ Awaited(toClient'[i].id) /\ toClient'[i].id \in Nat
             /\ ~(Answers(m) /\ toClient'[i].id = m.id)
             /\ \A c \in open : c.id # toClient'[i].id
             /\ toClient'[i].busy => barrier # None /\ toClient'[i].id = barrier.id
             /\ ~toClient'[i].busy => Acted(toClient'[i].id)
  <2>1. i + 1 \in DOMAIN toClient /\ toClient'[i] = toClient[i + 1]
    BY <1>1
  <2> QED
    BY <1>2, <1>6, <2>1, PlaceTypes DEF Earned, Places, Answered, Truthful
<1>7. ASSUME NEW i \in DOMAIN toClient', Answers(toClient'[i]), NEW n, n = toClient'[i].id
      PROVE  Awaited(n)' /\ (barrier # None /\ n = barrier.id => barrier' = barrier)
  BY <1>6, <1>7
<1>8. Answered'
  <2>1. \A i \in DOMAIN toClient' : Answers(toClient'[i]) => \A c \in open' : c.id # toClient'[i].id
    BY <1>6
  <2> QED
    BY <1>7, <2>1 DEF Answered, Answers, Awaited
<1>9. AnsweredOnce'
  <2>1. \A i, j \in DOMAIN toClient' : i # j => i + 1 # j + 1
    BY <1>1
  <2> QED
    BY <1>1, <2>1 DEF Earned, Places, AnsweredOnce, Answers
<1>10. Truthful'
  <2>1. ASSUME NEW i \in DOMAIN toClient', Answers(toClient'[i])
        PROVE  /\ toClient'[i].busy => barrier' # None /\ toClient'[i].id = barrier'.id
               /\ ~toClient'[i].busy => \E j \in DOMAIN executed' : executed'[j].id = toClient'[i].id
    BY <1>6, <1>7, <2>1 DEF Acted
  <2> QED
    BY <2>1 DEF Truthful, Answers, Acted
<1>11. RejectedUnsent'
  <2>1. Sent' = Sent
    BY DEF Sent, Complete
  <2> QED
    BY <2>1 DEF Earned, RejectedUnsent, Unsent
<1> QED
  BY <1>4, <1>5, <1>8, <1>9, <1>10, <1>11 DEF Earned, Places

\* The response of the activation, or of the lease; there is no third.
LEMMA ResponseEarned ==
  ASSUME TypeOK, Order, Wire, Earned, ReadResponse
  PROVE  Earned' /\ pc' = "top"
<1>1. PICK m : m = Head(toClient)
  OBVIOUS
<1>2. /\ ReadFrame /\ Answers(m) /\ UNCHANGED <<toDaemon, open, executed, rejected>>
  BY <1>1 DEF ReadResponse, daemon, Answers
<1>3. 1 \in DOMAIN toClient /\ m = toClient[1]
  BY <1>1, <1>2 DEF ReadFrame, TypeOK
<1>4. /\ Awaited(m.id) /\ m.id \in Nat /\ m.busy \in BOOLEAN
      /\ m.busy => barrier # None /\ m.id = barrier.id
      /\ ~m.busy => Acted(m.id)
  BY <1>2, <1>3, PlaceTypes DEF Earned, Places, Answered, Truthful
<1>5. /\ held => barrier # None /\ Acted(barrier.id)
      /\ \A i \in DOMAIN replies : Acted(replies[i])
  BY DEF Earned, Truthful, Order, HeldAwaitsFocus
<1>6. ASSUME NEW n, Acted(n) PROVE Acted(n)'
  BY <1>2, <1>6 DEF Acted
<1>7. ASSUME NEW n \in Nat, Acted(n), replies' = Append(replies, n)
      PROVE  (\A i \in DOMAIN replies : Acted(replies[i]))'
  <2>1. \A i \in DOMAIN replies' : (i \in DOMAIN replies /\ replies'[i] = replies[i]) \/ replies'[i] = n
    BY <1>7 DEF TypeOK
  <2> QED
    BY <1>2, <1>5, <1>7, <2>1 DEF Acted
<1>8. (pending # None /\ barrier # None) => pending.id < barrier.id
  BY DEF Order, RequestOrder
<1>9. CASE Awaits(m) /\ BarrierAnswered(m) /\ pc' = "top"
  <2>1. barrier # None /\ barrier.id = m.id /\ ~held /\ ~refused
    BY <1>9 DEF Awaits
  <2>2. CASE m.busy
    <3>1. refused' = TRUE /\ UNCHANGED <<pending, barrier, held, replies>>
      BY <1>9, <2>2 DEF BarrierAnswered
    <3>2. \A n \in Nat : (Awaited(n) /\ ~(Answers(m) /\ n = m.id)) =>
            Awaited(n)' /\ (barrier # None /\ n = barrier.id => barrier' = barrier)
      BY <1>2, <2>1, <3>1 DEF Awaited
    <3>3. ~held'
      BY <2>1, <3>1
    <3>4. (\A i \in DOMAIN replies : Acted(replies[i]))'
      BY <1>2, <1>5, <3>1 DEF Acted
    <3> QED
      BY <1>1, <1>2, <1>9, <3>2, <3>3, <3>4, ReadEarned
  <2>3. CASE ~m.busy /\ pending # None
    <3>1. held' = TRUE /\ UNCHANGED <<pending, barrier, refused, replies>>
      BY <1>9, <2>3 DEF BarrierAnswered
    <3>2. \A n \in Nat : (Awaited(n) /\ ~(Answers(m) /\ n = m.id)) =>
            Awaited(n)' /\ (barrier # None /\ n = barrier.id => barrier' = barrier)
      BY <1>2, <2>1, <3>1 DEF Awaited
    <3>3. Acted(barrier.id)'
      BY <1>2, <1>4, <2>1, <2>3, <3>1 DEF Acted
    <3>4. (\A i \in DOMAIN replies : Acted(replies[i]))'
      BY <1>2, <1>5, <3>1 DEF Acted
    <3> QED
      BY <1>1, <1>2, <1>9, <3>2, <3>3, <3>4, ReadEarned
  <2>4. CASE ~m.busy /\ pending = None
    <3>1. barrier' = None /\ held' = FALSE /\ replies' = Append(replies, m.id)
      BY <1>9, <2>4 DEF BarrierAnswered
    <3>2. \A n \in Nat : ~(Awaited(n) /\ ~(Answers(m) /\ n = m.id))
      BY <1>2, <2>1, <2>4 DEF Awaited
    <3>3. (\A i \in DOMAIN replies : Acted(replies[i]))'
      BY <1>4, <1>7, <2>4, <3>1
    <3> QED
      BY <1>1, <1>2, <1>9, <3>1, <3>2, <3>3, ReadEarned
  <2> QED
    BY <2>2, <2>3, <2>4
<1>10. CASE pending # None /\ pending.id = m.id /\ PendingAnswered(m) /\ pc' = "top"
  <2>1. ~m.busy /\ Acted(m.id)
    BY <1>4, <1>8, <1>10, PlaceTypes
  <2>2. CASE barrier # None /\ held
    <3>1. /\ barrier' = None /\ held' = FALSE
          /\ replies' = Append(Append(replies, m.id), barrier.id)
      BY <1>10, <2>2 DEF PendingAnswered
    <3>2. \A n \in Nat : ~(Awaited(n) /\ ~(Answers(m) /\ n = m.id))
      BY <1>2, <1>10, <2>2 DEF Awaited
    <3>3. (\A i \in DOMAIN replies : Acted(replies[i]))'
      <4>1. barrier.id \in Nat /\ Acted(barrier.id)
        BY <1>5, <2>2, PlaceTypes
      <4>2. \A i \in DOMAIN replies' :
              (i \in DOMAIN replies /\ replies'[i] = replies[i]) \/ replies'[i] \in {m.id, barrier.id}
        BY <1>4, <3>1, <4>1 DEF TypeOK
      <4> QED
        BY <1>2, <1>5, <2>1, <4>1, <4>2 DEF Acted
    <3> QED
      BY <1>1, <1>2, <1>10, <3>1, <3>2, <3>3, ReadEarned
  <2>3. CASE ~(barrier # None /\ held)
    <3>1. replies' = Append(replies, m.id) /\ UNCHANGED <<barrier, held, refused>>
      BY <1>10, <2>3 DEF PendingAnswered
    <3>2. \A n \in Nat : (Awaited(n) /\ ~(Answers(m) /\ n = m.id)) =>
            Awaited(n)' /\ (barrier # None /\ n = barrier.id => barrier' = barrier)
      BY <1>2, <1>10, <3>1 DEF Awaited
    <3>3. ~held'
      BY <1>5, <2>3, <3>1
    <3>4. (\A i \in DOMAIN replies : Acted(replies[i]))'
      BY <1>4, <1>7, <2>1, <3>1
    <3> QED
      BY <1>1, <1>2, <1>10, <3>2, <3>3, <3>4, ReadEarned
  <2> QED
    BY <2>2, <2>3
<1>11. Awaits(m) \/ (pending # None /\ pending.id = m.id)
  BY <1>4 DEF Awaited, Awaits
<1> QED
  BY <1>1, <1>9, <1>10, <1>11, Zenon DEF ReadResponse

\* Every step keeps what is out awaited and what is answered earned.
LEMMA EarnedStep ==
  ASSUME WInv, Earned, [Next]_vars
  PROVE  Earned'
<1> USE DEF owner, worker, session, inbound, events, daemon
<1>1. TypeOK /\ Order /\ Frames /\ Wire /\ Rejections
  BY DEF WInv, IInv, Accounts
<1>2. CASE UNCHANGED <<toDaemon, toClient, open, executed, pending, barrier, held, refused, replies, rejected>>
  BY <1>2, QuietEarned
<1>3. CASE Top
  <2>1. CASE End
    BY <1>2, <2>1 DEF End
  <2>2. CASE ~End
    <3>1. PICK ping \in BOOLEAN : toDaemon' = IF ping THEN Append(toDaemon, Ping) ELSE toDaemon
      BY <1>3, <2>2 DEF Top
    <3>2. UNCHANGED <<toClient, open, executed, pending, barrier, held, refused, replies, rejected>>
      BY <1>3, <2>2 DEF Top
    <3>3. Ping \in Chunks /\ ~Complete(Ping) /\ ~Asks(Ping)
      BY DEF Ping, Chunks, MaybeCommand, Complete, Asks
    <3>4. \A n \in Nat : Awaited(n) => Awaited(n)'
      BY <3>2 DEF Awaited
    <3>5. /\ \A i \in DOMAIN toClient :
               (Answers(toClient[i]) /\ toClient[i].busy) => barrier' # None /\ toClient[i].id = barrier'.id
          /\ held' => Acted(barrier.id)'
      BY <3>2 DEF Earned, Truthful, Acted
    <3>6. CASE toDaemon' = toDaemon
      BY <1>2, <3>2, <3>6
    <3>7. CASE toDaemon' = Append(toDaemon, Ping)
      BY <1>1, <3>2, <3>3, <3>4, <3>5, <3>7, ChunkEarned
    <3> QED
      BY <3>1, <3>6, <3>7
  <2> QED
    BY <2>1, <2>2
<1>4. CASE Batch
  BY <1>1, <1>4, BatchEarned
<1>5. CASE ReadSurface
  <2>1. /\ ReadFrame /\ ~Answers(Head(toClient))
        /\ UNCHANGED <<toDaemon, open, executed, pending, barrier, held, refused, replies, rejected>>
    BY <1>5 DEF ReadSurface, Answers
  <2>2. PICK m : m = Head(toClient)
    OBVIOUS
  <2>3. \A n \in Nat : Awaited(n) => Awaited(n)' /\ barrier' = barrier
    BY <2>1 DEF Awaited
  <2>4. (held' => Acted(barrier.id)') /\ (\A i \in DOMAIN replies : Acted(replies[i]))'
    BY <2>1 DEF Earned, Truthful, Acted
  <2> QED
    BY <1>1, <2>1, <2>2, <2>3, <2>4, ReadEarned
<1>6. CASE DaemonDraws
  <2>1. PICK kind \in {"current", "other"} : toClient' = Append(toClient, [kind |-> kind])
    BY <1>6 DEF DaemonDraws
  <2>2. [kind |-> kind] \in Messages /\ ~Answers([kind |-> kind])
    BY DEF Messages, Answers
  <2>3. UNCHANGED <<toDaemon, open, executed, pending, barrier, held, refused, replies, rejected>>
    BY <1>6 DEF DaemonDraws
  <2>4. Sent' = Sent
    BY <2>3 DEF Sent, Complete
  <2> QED
    BY <1>1, <2>1, <2>2, <2>3, <2>4, MessageEarned
<1>7. CASE Next
  <2>1. \/ Top \/ Batch \/ ReadSurface \/ ReadResponse \/ DaemonReads \/ DaemonAnswers \/ DaemonDraws
        \/ UNCHANGED <<toDaemon, toClient, open, executed, pending, barrier, held, refused, replies, rejected>>
    BY <1>7 DEF Next, Owner, Enqueue, PublishImage, CloseImage, CancelImage, Stop, End, Worker, Woken,
         Read, ReadPart, Timeout, RequestTimeout, FrameTimeout, HealthTimeout, Daemon
  <2> QED
    BY <1>1, <1>2, <1>3, <1>4, <1>5, <1>6, <2>1, ResponseEarned, DaemonReadsEarned, AnswersOpen
<1>8. CASE UNCHANGED vars
  BY <1>2, <1>8 DEF vars
<1> QED
  BY <1>7, <1>8

\* Nothing is out at first.
LEMMA InitEarned == ASSUME Init PROVE Earned
BY DEF Init, Earned, Places, Asked, Begun, Answered, AnsweredOnce, Truthful, RejectedUnsent

-----------------------------------------------------------------------------
\* Every request that is out is awaited and in one place, and nothing is
\* answered that the daemon did not act on, in every reachable state.
THEOREM EarnedInvariance == Spec => [](WInv /\ Earned)
<1>1. Init => Earned
  BY InitEarned
<1>2. WInv /\ Earned /\ [Next]_vars => Earned'
  BY EarnedStep
<1> QED
  BY <1>1, <1>2, WireInvariance, PTL DEF Spec

\* The owner is answered only what the daemon acted on, though activations are
\* refused and resent; what is rejected is never acted on; and each response on
\* its way is for a request that awaits it (the response arm of handle_message,
\* Barrier::awaits).
THEOREM AnswersAreEarned == Spec => []AnswersEarned
<1>1. WInv /\ Earned => AnswersEarned
  <2> SUFFICES ASSUME WInv, Earned PROVE AnswersEarned
    OBVIOUS
  <2>1. \A n \in rejected : ~Acted(n)
    BY DEF Earned, RejectedUnsent, Unsent, Sent, Acted
  <2> QED
    BY <2>1 DEF WInv, IInv, Order, Earned, Places, Answered, Truthful, Answers, AnswersEarned
<1> QED
  BY <1>1, EarnedInvariance, PTL

\* A response read is never unsolicited: with the daemon's order of answers left
\* open, handle_message's UnsolicitedResponse does not end the connection.
THEOREM NoneUnsolicited == Spec => [][ReadResponse => pc' = "top"]_vars
<1>1. WInv /\ Earned /\ [Next]_vars => [ReadResponse => pc' = "top"]_vars
  BY ResponseEarned DEF WInv, IInv
<1> QED
  BY <1>1, EarnedInvariance, PTL DEF Spec

\* The daemon refuses no request but the pipelined activation: the lease keeps
\* every other until the one before is answered (LeaseTaken, Pipelines).
THEOREM OnlyActivationsRefused ==
  Spec => [][\A n \in busied' \ busied : barrier # None /\ barrier.kind = "activate" /\ n = barrier.id]_vars
<1>1. ASSUME WInv, Earned, Next, NEW n \in busied' \ busied
      PROVE  barrier # None /\ barrier.kind = "activate" /\ n = barrier.id
  <2>1. DaemonReads
    BY <1>1 DEF Next, Owner, Enqueue, PublishImage, CloseImage, CancelImage, Stop, End, Worker, Top, Batch,
         Resend, ResumeInput, FenceHolds, Reject, LeaseHolds, ImageCancelled, ImageClosed, ImagePreparing,
         ImageWrites, ImageExpires, WriteBounded, WriteAll, BatchEnds, Woken, Read, ReadPart, ReadSurface,
         ReadResponse, Timeout, RequestTimeout, FrameTimeout, HealthTimeout, Daemon, DaemonAnswers,
         DaemonDraws, daemon
  <2>2. /\ toDaemon # <<>> /\ Asks(Head(toDaemon)) /\ open # {} /\ n = Head(toDaemon).cmd.id
    BY <1>1, <2>1 DEF DaemonReads, Asks
  <2>3. barrier # None /\ n = barrier.id
    BY <1>1, <2>2, OnlyBarrierRefused DEF WInv, IInv
  <2>4. barrier.kind = "activate"
    BY <1>1, <2>3 DEF WInv, Wire, Fence
  <2> QED
    BY <2>3, <2>4
<1>2. WInv /\ Earned /\ [Next]_vars =>
        [\A n \in busied' \ busied : barrier # None /\ barrier.kind = "activate" /\ n = barrier.id]_vars
  BY <1>1
<1> QED
  BY <1>2, EarnedInvariance, PTL DEF Spec

-----------------------------------------------------------------------------
(* The promise to the owner *)

(* Requests are told from other commands by their number too. *)
Known(c) == c.id \in requested <=> c.kind \in Requests
AllKnown ==
  /\ \A c \in Sent \cup Waiting : Known(c)
  /\ queued # None => Known(queued)
  /\ pending # None => pending.id \in requested
  /\ barrier # None => barrier.id \in requested

(* The lease's request is on the wire or was acted on. *)
Underway ==
  pending # None =>
    \/ Acted(pending.id)
    \/ \E i \in DOMAIN toDaemon : Complete(toDaemon[i]) /\ toDaemon[i].cmd.id = pending.id

PInv == WInv /\ Earned /\ AllKnown /\ Underway

\* A new command is known; earlier ones stay so.
LEMMA EnqueueKnown ==
  ASSUME WInv, AllKnown, Enqueue
  PROVE  AllKnown'
<1>1. PICK kind \in OwnerKinds, ok \in Valid :
        /\ queue' = Append(queue, [id |-> issued + 1, kind |-> kind, ok |-> ok])
        /\ requested' = IF kind \in Requests THEN requested \cup {issued + 1} ELSE requested
  BY DEF Enqueue
<1>2. PICK c : c = [id |-> issued + 1, kind |-> kind, ok |-> ok]
  OBVIOUS
<1>3. c.id = issued + 1 /\ c.kind = kind /\ queue' = Append(queue, c)
  BY <1>1, <1>2
<1>4. UNCHANGED <<queued, pending, barrier, executed, toDaemon>> /\ issued \in Nat
  BY DEF Enqueue, worker, session, daemon, WInv, IInv, TypeOK
<1>5. Sent' = Sent
  BY <1>4 DEF Sent, Complete
<1>6. \A d \in Waiting' : d \in Waiting \/ d = c
  <2>1. queue \in Seq(Commands) /\ c \in Commands
    BY <1>2, <1>4, BoundsAssumption DEF WInv, IInv, TypeOK, Commands
  <2>2. \A i \in DOMAIN queue' : (i \in DOMAIN queue /\ queue'[i] = queue[i]) \/ queue'[i] = c
    BY <1>3, <2>1
  <2> QED
    BY <2>2 DEF Waiting
<1>7. Known(c)'
  <2>1. issued + 1 \notin requested
    BY <1>4 DEF WInv, Accounts, Rejections
  <2> QED
    BY <1>1, <1>3, <2>1 DEF Known
<1>8. /\ \A d \in Sent \cup Waiting : d.id # issued + 1
      /\ queued # None => queued.id # issued + 1
  <2>1. \A d \in Sent : d.id <= issued /\ d.id \in Nat
    BY SentType DEF WInv, IInv, Wire, Recent, Past
  <2>2. \A d \in Waiting : d.id <= issued /\ d.id \in Nat
    BY CommandSeq DEF WInv, IInv, TypeOK, Order, QueueOrder, Waiting
  <2>3. queued # None => queued.id <= issued /\ queued.id \in Nat
    BY DEF WInv, IInv, TypeOK, Order, QueueOrder, MaybeCommand, Commands
  <2> QED
    BY <1>4, <2>1, <2>2, <2>3
<1>9. requested \subseteq requested' /\ \A n \in requested' : n \in requested \/ n = issued + 1
  BY <1>1
<1>10. \A d \in Sent \cup Waiting : Known(d)'
  BY <1>8, <1>9 DEF AllKnown, Known
<1>11. queued # None => Known(queued)'
  BY <1>4, <1>8, <1>9 DEF AllKnown, Known
<1> QED
  BY <1>4, <1>5, <1>6, <1>7, <1>9, <1>10, <1>11 DEF AllKnown

\* Taking, writing and reading hand on commands that are known.
LEMMA HandKnown ==
  ASSUME AllKnown, UNCHANGED requested,
         \A c \in Sent' : c \in Sent \cup Waiting \/ (c = queued /\ queued # None) \/ (c = barrier /\ barrier # None /\ c.kind \in Requests),
         \A c \in Waiting' : c \in Waiting,
         queued' # None => queued' \in Waiting \/ queued' = queued,
         pending' # None => \/ pending' \in {pending, barrier} \ {None}
                            \/ pending'.kind \in Requests /\ (pending' \in Waiting \/ (pending' = queued /\ queued # None)),
         barrier' # None => \/ barrier' = barrier
                            \/ barrier'.kind \in Requests /\ (barrier' \in Waiting \/ (barrier' = queued /\ queued # None))
  PROVE  AllKnown'
<1>1. \A c : Known(c) => Known(c)'
  BY DEF Known
<1>2. \A c \in Sent' : Known(c)
  BY DEF AllKnown, Known
<1>3. \A c \in Waiting' : Known(c)
  BY DEF AllKnown
<1>4. queued' # None => (queued'.id \in requested' <=> queued'.kind \in Requests)
  BY DEF AllKnown, Known
<1>5. pending' # None => pending'.id \in requested'
  BY DEF AllKnown, Known
<1>6. barrier' # None => barrier'.id \in requested'
  BY DEF AllKnown, Known
<1> QED
  BY <1>1, <1>2, <1>3, <1>4, <1>5, <1>6 DEF AllKnown, Known

\* A command is taken, and held, written or given up.
LEMMA TakeKnown ==
  ASSUME TypeOK, AllKnown, Available, Unqueue, queued' \in {None, Current}, UNCHANGED executed,
         \/ toDaemon' = toDaemon
         \/ \E x \in Chunks : toDaemon' = Append(toDaemon, x) /\ (Complete(x) => x.cmd = Current),
         pending' = pending \/ (pending' = Current /\ Current.kind \in Requests),
         barrier' = barrier \/ (barrier' = Current /\ Current.kind \in Requests)
  PROVE  AllKnown'
<1>1. /\ \A i \in DOMAIN queue' : queue'[i] \in Waiting
      /\ Current \in Waiting \/ Current = queued
      /\ Current # None
  BY TakeWaiting, CurrentType
<1>2. \A c \in Waiting' : c \in Waiting
  BY <1>1 DEF Waiting
<1>3. \A c \in Sent' : c \in Sent \/ c = Current
  <2>1. CASE toDaemon' = toDaemon
    BY <2>1 DEF Sent
  <2>2. CASE \E x \in Chunks : toDaemon' = Append(toDaemon, x) /\ (Complete(x) => x.cmd = Current)
    <3>1. PICK x \in Chunks : toDaemon' = Append(toDaemon, x) /\ (Complete(x) => x.cmd = Current)
      BY <2>2
    <3>2. \A i \in DOMAIN toDaemon' :
            (i \in DOMAIN toDaemon /\ toDaemon'[i] = toDaemon[i]) \/ toDaemon'[i] = x
      BY <3>1 DEF TypeOK
    <3> QED
      BY <3>1, <3>2 DEF Sent
  <2> QED
    BY <2>1, <2>2
<1>4. requested' = requested
  BY DEF Unqueue
<1> QED
  BY <1>1, <1>2, <1>3, <1>4, HandKnown

\* One iteration of the batch.
LEMMA BatchKnown ==
  ASSUME WInv, AllKnown, Batch
  PROVE  AllKnown'
<1> USE DEF owner, session, inbound, events, daemon
<1>1. TypeOK /\ Frames
  BY DEF WInv, IInv
<1>2. CASE ResumeInput \/ WriteBounded \/ ImageWrites
  <2>1. Available /\ WriteSome /\ UNCHANGED <<executed, pending, barrier>>
    BY <1>2 DEF ResumeInput, WriteBounded, ImageWrites, Sendable, Reached
  <2>2. Current \in Commands
    BY <1>1, <2>1, CurrentType
  <2>3. /\ Whole(Current) \in Chunks /\ Whole(Current).cmd = Current
        /\ Last(Current) \in Chunks /\ Last(Current).cmd = Current
        /\ First(Current) \in Chunks /\ ~Complete(First(Current))
    BY <2>2, ChunkType DEF Whole, Last, First, Complete
  <2>4. /\ Unqueue /\ queued' \in {None, Current}
        /\ \/ toDaemon' = toDaemon
           \/ \E x \in {Whole(Current), Last(Current), First(Current)} : toDaemon' = Append(toDaemon, x)
    BY <2>1 DEF WriteSome, Dispose, Hold
  <2> QED
    BY <1>1, <2>1, <2>3, <2>4, TakeKnown
<1>3. CASE FenceHolds \/ LeaseHolds \/ ImagePreparing \/ ImageClosed \/ Reject \/ ImageExpires
  <2>1. Available /\ Unqueue /\ queued' \in {None, Current} /\ UNCHANGED <<toDaemon, executed, pending, barrier>>
    BY <1>3 DEF FenceHolds, LeaseHolds, ImagePreparing, ImageClosed, Reject, ImageExpires,
                Sendable, Reached, Hold, Dispose
  <2> QED
    BY <1>1, <2>1, TakeKnown
<1>4. CASE UNCHANGED <<requested, queue, queued, pending, barrier, executed, toDaemon>>
  BY <1>4 DEF AllKnown, Known, Sent, Complete, Waiting
<1>5. CASE ImageCancelled
  <2>1. CASE End
    BY <1>4, <2>1 DEF End
  <2>2. CASE ~End
    <3>1. Available /\ Unqueue /\ queued' \in {None, Current} /\ UNCHANGED <<toDaemon, executed, pending, barrier>>
      BY <1>5, <2>2 DEF ImageCancelled, Sendable, Reached, Dispose
    <3> QED
      BY <1>1, <3>1, TakeKnown
  <2> QED
    BY <2>1, <2>2
<1>6. CASE BatchEnds
  BY <1>4, <1>6 DEF BatchEnds
<1>7. CASE WriteAll
  <2>1. /\ Available /\ Unqueue /\ queued' = None /\ executed' = executed
        /\ toDaemon' = Append(toDaemon, Whole(Current))
        /\ pending' = pending \/ (pending' = Current /\ Current.kind \in Requests)
        /\ barrier' = barrier \/ (barrier' = Current /\ Current.kind \in Requests)
    BY <1>7 DEF WriteAll, Sendable, Reached, Dispose
  <2>2. Whole(Current) \in Chunks /\ Whole(Current).cmd = Current
    BY <1>1, <2>1, CurrentType, ChunkType DEF Whole
  <2> QED
    BY <1>1, <2>1, <2>2, TakeKnown
<1>8. CASE Resend
  <2>1. /\ barrier # None /\ toDaemon' = Append(toDaemon, Whole(barrier))
        /\ pending' = barrier /\ barrier' = None /\ UNCHANGED <<requested, queue, queued, executed>>
    BY <1>8 DEF Resend, ResendFirst, ResendReady
  <2>2. barrier.kind \in Requests
    BY <2>1 DEF WInv, Wire, Fence, Requests
  <2>3. \A i \in DOMAIN toDaemon' :
          (i \in DOMAIN toDaemon /\ toDaemon'[i] = toDaemon[i]) \/ toDaemon'[i] = Whole(barrier)
    BY <1>1, <2>1 DEF TypeOK
  <2>4. Whole(barrier).cmd = barrier
    BY DEF Whole
  <2>5. \A c \in Sent' : c \in Sent \/ c = barrier
    BY <2>1, <2>3, <2>4 DEF Sent
  <2>6. Waiting' = Waiting
    BY <2>1 DEF Waiting
  <2> QED
    BY <2>1, <2>2, <2>5, <2>6, HandKnown
<1> QED
  BY <1>2, <1>3, <1>5, <1>6, <1>7, <1>8 DEF Batch

\* Every step.
LEMMA KnownStep ==
  ASSUME WInv, AllKnown, [Next]_vars
  PROVE  AllKnown'
<1> USE DEF owner, worker, session, inbound, events, daemon
<1>1. CASE UNCHANGED <<requested, queue, queued, pending, barrier, executed, toDaemon>>
  BY <1>1 DEF AllKnown, Known, Sent, Complete, Waiting
<1>2. CASE UNCHANGED <<requested, queue, queued, executed>>
           /\ (toDaemon' = toDaemon \/ toDaemon' = Append(toDaemon, Ping))
           /\ pending' \in {pending, None} /\ barrier' \in {barrier, None}
  <2>1. ~Complete(Ping)
    BY DEF Ping, Complete
  <2>2. \A c \in Sent' : c \in Sent
    <3>1. \A i \in DOMAIN toDaemon' :
            (i \in DOMAIN toDaemon /\ toDaemon'[i] = toDaemon[i]) \/ toDaemon'[i] = Ping
      <4>1. toDaemon \in Seq(Chunks)
        BY DEF WInv, IInv, TypeOK
      <4> QED
        BY <1>2, <4>1
    <3> QED
      BY <1>2, <2>1, <3>1 DEF Sent
  <2>3. Waiting' = Waiting
    BY <1>2 DEF Waiting
  <2> QED
    BY <1>2, <2>2, <2>3, HandKnown
<1>3. CASE Top
  <2>1. CASE End
    BY <1>1, <2>1 DEF End
  <2>2. CASE ~End
    <3>1. PICK ping \in BOOLEAN : toDaemon' = IF ping THEN Append(toDaemon, Ping) ELSE toDaemon
      BY <1>3, <2>2 DEF Top
    <3>2. UNCHANGED <<requested, queue, queued, executed, pending, barrier>>
      BY <1>3, <2>2 DEF Top
    <3> QED
      BY <1>2, <3>1, <3>2
  <2> QED
    BY <2>1, <2>2
<1>4. CASE ReadResponse
  <2>1. /\ UNCHANGED <<requested, queue, queued, executed, toDaemon>>
        /\ pending' \in {pending, None} /\ barrier' \in {barrier, None}
    BY <1>4 DEF ReadResponse, BarrierAnswered, PendingAnswered
  <2> QED
    BY <1>2, <2>1
<1>5. CASE DaemonReads
  <2>1. PICK x : x = Head(toDaemon)
    OBVIOUS
  <2>2. /\ toDaemon # <<>> /\ toDaemon' = Tail(toDaemon) /\ busied \subseteq busied'
        /\ UNCHANGED <<requested, queue, queued, pending, barrier>>
        /\ executed' = executed \/ (Complete(x) /\ executed' = Append(executed, x.cmd))
    BY <1>5, <2>1 DEF DaemonReads, Complete
  <2>3. \A c \in Sent' : c \in Sent
    BY <2>1, <2>2, SentTail DEF WInv, IInv, Wire
  <2>4. Waiting' = Waiting
    BY <2>2 DEF Waiting
  <2> QED
    BY <2>2, <2>3, <2>4, HandKnown
<1>6. CASE Next
  <2>1. \/ Enqueue \/ Top \/ Batch \/ ReadResponse \/ DaemonReads
        \/ UNCHANGED <<requested, queue, queued, pending, barrier, executed, toDaemon>>
    BY <1>6 DEF Next, Owner, PublishImage, CloseImage, CancelImage, Stop, End, Worker, Woken,
         Read, ReadPart, ReadSurface, Timeout, RequestTimeout, FrameTimeout, HealthTimeout, Daemon,
         DaemonAnswers, DaemonDraws
  <2> QED
    BY <1>1, <1>3, <1>4, <1>5, <2>1, EnqueueKnown, BatchKnown
<1>7. CASE UNCHANGED vars
  BY <1>1, <1>7 DEF vars
<1> QED
  BY <1>6, <1>7

\* Writing keeps the lease's request under way, or puts a new one there.
LEMMA WriteUnderway ==
  ASSUME TypeOK, Underway, NEW x \in Chunks, UNCHANGED executed,
         toDaemon' = toDaemon \/ toDaemon' = Append(toDaemon, x),
         \/ pending' \in {pending, None}
         \/ toDaemon' = Append(toDaemon, x) /\ Complete(x) /\ pending' = x.cmd
  PROVE  Underway'
<1>1. toDaemon \in Seq(Chunks)
  BY DEF TypeOK
<1>2. \A i \in DOMAIN toDaemon : i \in DOMAIN toDaemon' /\ toDaemon'[i] = toDaemon[i]
  BY <1>1
<1>3. CASE pending' \in {pending, None}
  BY <1>2, <1>3 DEF Underway, Acted, Complete
<1>4. CASE toDaemon' = Append(toDaemon, x) /\ Complete(x) /\ pending' = x.cmd
  <2>1. Len(toDaemon) + 1 \in DOMAIN toDaemon' /\ toDaemon'[Len(toDaemon) + 1] = x
    BY <1>1, <1>4
  <2> QED
    BY <1>4, <2>1 DEF Underway, Complete
<1> QED
  BY <1>3, <1>4

\* The daemon reads a chunk: if it is the lease's request it acts on it, as it
\* refuses only the activation behind it.
LEMMA ReadsUnderway ==
  ASSUME WInv, Earned, Underway, DaemonReads
  PROVE  Underway'
<1>1. PICK x : x = Head(toDaemon)
  OBVIOUS
<1>2. /\ toDaemon # <<>> /\ toDaemon' = Tail(toDaemon) /\ UNCHANGED pending
      /\ executed' = executed \/ (Complete(x) /\ executed' = Append(executed, x.cmd))
      /\ Complete(x) => \/ executed' = Append(executed, x.cmd)
                        \/ Asks(x) /\ open # {}
  BY <1>1 DEF DaemonReads, worker, session, Complete, Asks
<1>3. TypeOK /\ Order /\ Wire
  BY DEF WInv, IInv
<1>4. toDaemon \in Seq(Chunks) /\ x \in Chunks /\ executed \in Seq(Commands)
  BY <1>1, <1>2, <1>3 DEF TypeOK
<1>5. \A i \in DOMAIN toDaemon : \/ toDaemon[i] = x
                                 \/ i - 1 \in DOMAIN toDaemon' /\ toDaemon'[i - 1] = toDaemon[i]
  BY <1>1, <1>2, <1>4
<1>6. Complete(x) => x.cmd \in Commands
  BY <1>4 DEF Complete, Chunks, MaybeCommand
<1>7. \A i \in DOMAIN executed : i \in DOMAIN executed' /\ executed'[i] = executed[i]
  BY <1>2, <1>4, <1>6
<1>8. SUFFICES ASSUME pending # None
               PROVE  \/ \E i \in DOMAIN executed' : executed'[i].id = pending.id
                      \/ \E i \in DOMAIN toDaemon' : Complete(toDaemon'[i]) /\ toDaemon'[i].cmd.id = pending.id
  BY <1>2 DEF Underway, Acted, Complete
<1>9. CASE Acted(pending.id)
  BY <1>7, <1>9 DEF Acted
<1>10. CASE \E i \in DOMAIN toDaemon : Complete(toDaemon[i]) /\ toDaemon[i].cmd.id = pending.id
  <2>1. PICK i \in DOMAIN toDaemon : Complete(toDaemon[i]) /\ toDaemon[i].cmd.id = pending.id
    BY <1>10
  <2>2. CASE toDaemon[i] = x
    <3>1. Complete(x) /\ x.cmd.id = pending.id
      BY <2>1, <2>2
    <3>2. CASE executed' = Append(executed, x.cmd)
      <4>1. Len(executed) + 1 \in DOMAIN executed' /\ executed'[Len(executed) + 1] = x.cmd
        BY <1>4, <1>6, <3>1, <3>2
      <4> QED
        BY <3>1, <4>1
    <3>3. CASE Asks(x) /\ open # {}
      <4>1. barrier # None /\ x.cmd.id = barrier.id
        BY <1>1, <1>2, <1>3, <3>3, OnlyBarrierRefused
      <4>2. pending.id < barrier.id /\ pending.id \in Nat /\ barrier.id \in Nat
        BY <1>3, <1>8, <4>1, PlaceTypes DEF Order, RequestOrder
      <4> QED
        BY <3>1, <4>1, <4>2
    <3> QED
      BY <1>2, <3>1, <3>2, <3>3
  <2>3. CASE toDaemon[i] # x
    BY <1>5, <2>1, <2>3
  <2> QED
    BY <2>2, <2>3
<1> QED
  BY <1>8, <1>9, <1>10 DEF Underway

\* Every step keeps the lease's request under way.
LEMMA UnderwayStep ==
  ASSUME WInv, Earned, Underway, [Next]_vars
  PROVE  Underway'
<1> USE DEF owner, worker, session, inbound, events, daemon
<1>1. TypeOK /\ Ping \in Chunks
  BY DEF WInv, IInv, Ping, Chunks, MaybeCommand
<1>2. CASE UNCHANGED <<executed, toDaemon>> /\ pending' \in {pending, None}
  BY <1>1, <1>2, WriteUnderway
<1>3. CASE Top
  <2>1. CASE End
    BY <1>2, <2>1 DEF End
  <2>2. CASE ~End
    <3>1. PICK ping \in BOOLEAN : toDaemon' = IF ping THEN Append(toDaemon, Ping) ELSE toDaemon
      BY <1>3, <2>2 DEF Top
    <3>2. UNCHANGED <<executed, pending>>
      BY <1>3, <2>2 DEF Top
    <3> QED
      BY <1>1, <3>1, <3>2, WriteUnderway
  <2> QED
    BY <2>1, <2>2
<1>4. CASE ReadResponse
  <2>1. UNCHANGED <<executed, toDaemon>> /\ pending' \in {pending, None}
    BY <1>4 DEF ReadResponse, BarrierAnswered, PendingAnswered
  <2> QED
    BY <1>2, <2>1
<1>5. CASE ResumeInput \/ WriteBounded \/ ImageWrites
  <2>1. Available /\ WriteSome /\ UNCHANGED <<executed, pending>>
    BY <1>5 DEF ResumeInput, WriteBounded, ImageWrites, Sendable, Reached
  <2>2. Current \in Commands
    BY <1>1, <2>1, CurrentType
  <2>3. Whole(Current) \in Chunks /\ Last(Current) \in Chunks /\ First(Current) \in Chunks
    BY <2>2, ChunkType
  <2>4. \/ toDaemon' = toDaemon
        \/ \E x \in {Whole(Current), Last(Current), First(Current)} : toDaemon' = Append(toDaemon, x)
    BY <2>1 DEF WriteSome
  <2> QED
    BY <1>1, <2>1, <2>3, <2>4, WriteUnderway
<1>6. CASE WriteAll
  <2>1. /\ Available /\ executed' = executed /\ toDaemon' = Append(toDaemon, Whole(Current))
        /\ pending' \in {pending, Current}
    BY <1>6 DEF WriteAll, Sendable, Reached
  <2>2. Whole(Current) \in Chunks /\ Whole(Current).cmd = Current /\ Complete(Whole(Current))
    BY <1>1, <2>1, CurrentType, ChunkType DEF Whole, Complete
  <2> QED
    BY <1>1, <2>1, <2>2, WriteUnderway
<1>7. CASE Resend
  <2>1. /\ barrier # None /\ toDaemon' = Append(toDaemon, Whole(barrier))
        /\ pending' = barrier /\ executed' = executed
    BY <1>7 DEF Resend, ResendFirst, ResendReady
  <2>2. barrier \in Commands
    BY <1>1, <2>1 DEF TypeOK, MaybeCommand
  <2>3. Whole(barrier) \in Chunks /\ Whole(barrier).cmd = barrier /\ Complete(Whole(barrier))
    BY <2>1, <2>2, ChunkType DEF Whole, Complete
  <2> QED
    BY <1>1, <2>1, <2>3, WriteUnderway
<1>8. CASE Next
  <2>1. \/ Top \/ ReadResponse \/ DaemonReads \/ ResumeInput \/ WriteBounded \/ ImageWrites \/ WriteAll \/ Resend
        \/ UNCHANGED <<executed, toDaemon, pending>>
    BY <1>8 DEF Next, Owner, Enqueue, PublishImage, CloseImage, CancelImage, Stop, End, Worker, Batch, FenceHolds,
         Reject, LeaseHolds, ImageCancelled, ImageClosed, ImagePreparing, ImageExpires, BatchEnds, Woken,
         Read, ReadPart, ReadSurface, Timeout, RequestTimeout, FrameTimeout, HealthTimeout, Daemon,
         DaemonAnswers, DaemonDraws
  <2> QED
    BY <1>2, <1>3, <1>4, <1>5, <1>6, <1>7, <2>1, ReadsUnderway
<1>9. CASE UNCHANGED vars
  BY <1>2, <1>9 DEF vars
<1> QED
  BY <1>8, <1>9

\* A request neither answered nor rejected is outstanding, or was issued after all
\* that left the worker.
LEMMA StillOpen ==
  ASSUME WInv, NEW a \in requested, a \notin rejected, \A i \in DOMAIN replies : replies[i] # a
  PROVE  \/ pending # None /\ a = pending.id
         \/ barrier # None /\ a = barrier.id
         \/ \A n \in Nat : Later(n) => n < a
<1>1. \E c \in Outstanding \cup Waiting : c.id = a
  BY DEF WInv, Accounts, AllPlaced, Placed
<1> QED
  BY <1>1 DEF Outstanding, Waiting, Later

\* A step the promise does not see.
LEMMA Unseen ==
  ASSUME UNCHANGED <<issued, requested, executed, replies>>,
         rejected' \cap requested = rejected \cap requested
  PROVE  UNCHANGED Promise!vars
<1>1. {id \in requested : Acted(id)}' = {id \in requested : Acted(id)}
  BY DEF Acted
<1>2. (rejected \cap requested)' = rejected \cap requested
  OBVIOUS
<1> QED
  BY <1>1, <1>2 DEF Promise!vars

\* The owner asks.
LEMMA EnqueueAsks ==
  ASSUME WInv, Enqueue
  PROVE  Promise!Ask
<1>1. /\ issued' = issued + 1 /\ requested' \in {requested, requested \cup {issued + 1}}
      /\ UNCHANGED <<executed, replies, rejected>> /\ issued \in Nat
  BY DEF Enqueue, events, daemon, WInv, IInv, TypeOK
<1>2. ~Acted(issued + 1)
  <2>1. \A c \in Sent : c.id <= issued /\ c.id \in Nat
    BY SentType DEF WInv, IInv, Wire, Recent, Past
  <2> QED
    BY <1>1, <2>1 DEF Acted, Sent
<1>3. issued + 1 \notin rejected
  BY <1>1 DEF WInv, Accounts, Rejections, Past
<1>4. {id \in requested : Acted(id)}' = {id \in requested : Acted(id)}
  BY <1>1, <1>2 DEF Acted
<1>5. (rejected \cap requested)' = rejected \cap requested
  BY <1>1, <1>3
<1> QED
  BY <1>1, <1>4, <1>5 DEF Promise!Ask

\* The daemon acts on a request when it has acted on every request before it.
LEMMA ReadsAct ==
  ASSUME PInv, DaemonReads
  PROVE  (\E id \in requested : Promise!Act(id)) \/ UNCHANGED Promise!vars
<1>1. PICK x : x = Head(toDaemon)
  OBVIOUS
<1>2. /\ toDaemon # <<>> /\ UNCHANGED <<issued, requested, replies, rejected>>
      /\ executed' = executed \/ (Complete(x) /\ executed' = Append(executed, x.cmd))
  BY <1>1 DEF DaemonReads, owner, events, Complete
<1>3. TypeOK /\ Order /\ Wire /\ Accounts /\ Earned /\ WInv
  BY DEF PInv, WInv, IInv
<1>4. CASE executed' = executed
  BY <1>2, <1>4, Unseen
<1>5. CASE Complete(x) /\ executed' = Append(executed, x.cmd)
  <2>1. PICK c : c = x.cmd
    OBVIOUS
  <2>2. 1 \in DOMAIN toDaemon /\ x = toDaemon[1] /\ c \in Sent
    BY <1>1, <1>2, <1>3, <1>5, <2>1, HeadApart
  <2>3. c \in Commands /\ c.id \in Nat /\ Past(c.id) /\ c.id <= issued
    BY <1>3, <2>2, SentType DEF Wire, Recent, Past
  <2>4. /\ \A i \in DOMAIN executed' : (i \in DOMAIN executed /\ executed'[i] = executed[i]) \/ executed'[i] = c
        /\ \A i \in DOMAIN executed : i \in DOMAIN executed' /\ executed'[i] = executed[i]
        /\ \E i \in DOMAIN executed' : executed'[i] = c
    <3>1. executed \in Seq(Commands) /\ executed' = Append(executed, c)
      BY <1>3, <1>5, <2>1 DEF TypeOK
    <3>2. Len(executed) + 1 \in DOMAIN executed' /\ executed'[Len(executed) + 1] = c
      BY <2>3, <3>1
    <3> QED
      BY <2>3, <3>1, <3>2
  <2>5. \A n : Acted(n)' <=> Acted(n) \/ n = c.id
    BY <2>4 DEF Acted
  <2>6. (rejected \cap requested)' = rejected \cap requested
    BY <1>2
  <2>7. CASE c.id \notin requested
    <3>1. {id \in requested : Acted(id)}' = {id \in requested : Acted(id)}
      BY <1>2, <2>5, <2>7
    <3> QED
      BY <1>2, <2>6, <3>1 DEF Promise!vars
  <2>8. CASE c.id \in requested
    <3>1. c.kind \in Requests
      BY <2>2, <2>8 DEF PInv, AllKnown, Known
    <3>2. ~Acted(c.id)
      BY <1>3, <1>5, <2>1, <2>2 DEF Wire, InLine, MayFollow, Acted
    <3>3. c.id \notin rejected
      BY <1>3, <2>2 DEF Earned, RejectedUnsent, Unsent
    <3>4. {id \in requested : Acted(id)}' = {id \in requested : Acted(id)} \cup {c.id}
      BY <1>2, <2>5, <2>8
    <3>5. ASSUME NEW a \in requested, ~Acted(a), a \notin rejected, ~(c.id <= a)
          PROVE  FALSE
      <4>1. a \in Nat /\ a < c.id
        <5>1. a \in Nat
          BY <1>3 DEF TypeOK
        <5> QED
          BY <2>3, <3>5, <5>1
      <4>2. \A i \in DOMAIN replies : replies[i] # a
        BY <1>3, <3>5 DEF Earned, Truthful
      <4>3. CASE pending # None /\ a = pending.id
        <5>1. PICK i \in DOMAIN toDaemon : Complete(toDaemon[i]) /\ toDaemon[i].cmd.id = a
          BY <3>5, <4>3 DEF PInv, Underway
        <5>2. i # 1 /\ i \in Nat /\ i > 0
          BY <1>3, <2>1, <2>2, <4>1, <5>1 DEF TypeOK
        <5>3. MayFollow(c, toDaemon[i].cmd)
          BY <1>3, <1>5, <2>1, <2>2, <5>1, <5>2 DEF Wire, InLine
        <5> QED
          BY <3>1, <4>1, <5>1, <5>3 DEF MayFollow
      <4>4. CASE barrier # None /\ a = barrier.id
        BY <1>3, <2>2, <3>1, <4>1, <4>4 DEF Wire, Fence
      <4>5. CASE \A n \in Nat : Later(n) => n < a
        BY <2>3, <4>1, <4>5 DEF Past
      <4> QED
        BY <1>3, <3>5, <4>2, <4>3, <4>4, <4>5, StillOpen
    <3>6. Promise!Act(c.id)
      BY <1>2, <2>6, <3>2, <3>3, <3>4, <3>5 DEF Promise!Act
    <3> QED
      BY <2>8, <3>6
  <2> QED
    BY <2>7, <2>8
<1> QED
  BY <1>2, <1>4, <1>5

\* The connection rejects what the daemon has not seen.
LEMMA RejectRejects ==
  ASSUME PInv, Reject \/ ImageExpires
  PROVE  (\E id \in requested : Promise!Reject(id)) \/ UNCHANGED Promise!vars
<1> USE DEF owner, session, inbound, events, daemon
<1>1. /\ Available /\ Unqueue /\ queued' \in {None, Current} /\ rejected' = rejected \cup {Current.id}
      /\ UNCHANGED <<executed, replies>>
  BY DEF Reject, ImageExpires, Sendable, Reached, Dispose
<1>2. UNCHANGED <<issued, requested>>
  BY <1>1 DEF Unqueue
<1>3. TypeOK /\ Order /\ Wire /\ Rejections
  BY DEF PInv, WInv, IInv, Accounts
<1>4. (\A n \in Nat : Past(n) => n < Current.id) /\ Current.id \in Nat
  BY <1>1, <1>3, TakePast
<1>5. ~Acted(Current.id)
  BY <1>3, <1>4, SentType DEF Wire, Recent, Sent, Acted
<1>6. Current.id \notin rejected
  BY <1>3, <1>4 DEF Rejections
<1>7. CASE Current.id \notin requested
  BY <1>1, <1>2, <1>7, Unseen
<1>8. CASE Current.id \in requested
  <2>1. {id \in requested : Acted(id)}' = {id \in requested : Acted(id)}
    BY <1>1, <1>2 DEF Acted
  <2>2. (rejected \cap requested)' = (rejected \cap requested) \cup {Current.id}
    BY <1>1, <1>2, <1>8
  <2>3. Promise!Reject(Current.id)
    BY <1>1, <1>2, <1>5, <1>6, <2>1, <2>2 DEF Promise!Reject
  <2> QED
    BY <1>8, <2>3
<1> QED
  BY <1>7, <1>8

\* One response more, or two.
LEMMA AppendIds ==
  ASSUME NEW s \in Seq(Nat), NEW n \in Nat, NEW m \in Nat
  PROVE  Append(s, n) = s \o <<n>> /\ Append(Append(s, n), m) = s \o <<n, m>>
<1>1. Append(s, n) = s \o <<n>>
  BY AppendIsConcat
<1>2. PICK t : t = Append(Append(s, n), m)
  OBVIOUS
<1>3. PICK u : u = s \o <<n, m>>
  OBVIOUS
<1>4. /\ t \in Seq(Nat) /\ Len(t) = Len(s) + 2 /\ t[Len(s) + 1] = n /\ t[Len(s) + 2] = m
      /\ \A i \in 1..Len(s) : t[i] = s[i]
  BY <1>2
<1>5. <<n, m>> \in Seq(Nat) /\ Len(<<n, m>>) = 2 /\ <<n, m>>[1] = n /\ <<n, m>>[2] = m
  OBVIOUS
<1>6. u \in Seq(Nat) /\ Len(u) = Len(s) + 2 /\ \A i \in 1..Len(s) : u[i] = s[i]
  BY <1>3, <1>5
<1>7. u[Len(s) + 1] = n /\ u[Len(s) + 2] = m
  BY <1>3, <1>5
<1>8. \A i \in 1..Len(t) : t[i] = u[i]
  <2>1. Len(s) \in Nat
    OBVIOUS
  <2>2. \A i \in 1..Len(t) : i \in 1..Len(s) \/ i = Len(s) + 1 \/ i = Len(s) + 2
    BY <1>4, <2>1
  <2> QED
    BY <1>4, <1>6, <1>7, <2>2
<1> QED
  BY <1>1, <1>2, <1>3, <1>4, <1>6, <1>8, SeqEqual

\* Responses delivered are the next ones: as what is answered stays in order and
\* earned, the promise needs only that they are requests, and that what leaves the
\* session is among them.
LEMMA AnswersInTurn ==
  ASSUME WInv, (IInv /\ Earned)', NEW ids \in Seq(Nat), replies' = replies \o ids,
         UNCHANGED <<issued, requested, executed, rejected, queue, queued>>,
         \A i \in DOMAIN ids : ids[i] \in requested,
         pending # None => pending' = pending \/ \E i \in DOMAIN ids : ids[i] = pending.id,
         barrier # None => barrier' = barrier \/ \E i \in DOMAIN ids : ids[i] = barrier.id
  PROVE  Promise!Answer(ids)
<1>1. /\ replies \in Seq(Nat) /\ requested \subseteq Nat /\ Len(replies) \in Nat
      /\ DOMAIN replies = 1..Len(replies) /\ DOMAIN ids = 1..Len(ids) /\ Len(ids) \in Nat
  BY DEF WInv, IInv, TypeOK
<1>2. \A i \in DOMAIN ids : Len(replies) + i \in DOMAIN replies' /\ replies'[Len(replies) + i] = ids[i]
  BY <1>1
<1>3. \A i \in DOMAIN replies : i \in DOMAIN replies' /\ replies'[i] = replies[i]
  BY <1>1
<1>4. \A i, j \in DOMAIN replies' : i < j => replies'[i] < replies'[j]
  BY DEF IInv, Order, ReplyOrder, ResponsesInOrder
<1>5. \A i \in DOMAIN ids : ids[i] \in Nat
  BY <1>1
<1>6. \A i \in DOMAIN ids : Acted(ids[i])
  <2>1. \A n : Acted(n)' => Acted(n)
    BY DEF Acted
  <2>2. \A j \in DOMAIN replies' : \E k \in DOMAIN executed' : executed'[k].id = replies'[j]
    BY DEF Earned, Truthful, Acted
  <2> QED
    BY <1>2, <2>2 DEF Acted
<1>7. \A i \in DOMAIN ids : ids[i] \notin Promise!Replied
  <2> SUFFICES ASSUME NEW i \in DOMAIN ids, NEW j \in DOMAIN replies PROVE replies[j] # ids[i]
    BY DEF Promise!Replied
  <2>1. j \in Nat /\ i \in Nat /\ j <= Len(replies) /\ i >= 1
    BY <1>1
  <2>2. j < Len(replies) + i
    BY <1>1, <2>1
  <2>3. replies'[j] < replies'[Len(replies) + i]
    BY <1>2, <1>3, <1>4, <2>2
  <2>4. replies[j] < ids[i]
    BY <1>2, <1>3, <2>3
  <2>5. replies[j] \in Nat /\ ids[i] \in Nat
    BY <1>5, Identifiers DEF WInv, IInv
  <2> QED
    BY <2>4, <2>5
<1>8. \A i, j \in DOMAIN ids : i < j => ids[i] < ids[j]
  <2> SUFFICES ASSUME NEW i \in DOMAIN ids, NEW j \in DOMAIN ids, i < j PROVE ids[i] < ids[j]
    OBVIOUS
  <2>1. Len(replies) + i < Len(replies) + j
    BY <1>1
  <2> QED
    BY <1>2, <1>4, <2>1
<1>9. ASSUME NEW a \in requested, a \notin rejected, a \notin Promise!Replied', NEW i \in DOMAIN ids
      PROVE  ids[i] < a
  <2>1. \A j \in DOMAIN replies' : replies'[j] # a
    BY <1>9 DEF Promise!Replied
  <2>2. \A j \in DOMAIN replies : replies[j] # a
    BY <1>3, <2>1
  <2>3. \A j \in DOMAIN ids : ids[j] # a
    BY <1>2, <2>1
  <2>4. \A j \in DOMAIN replies' : /\ Later(replies'[j])
                                   /\ pending' # None => replies'[j] < pending'.id
                                   /\ barrier' # None => replies'[j] < barrier'.id
    BY DEF IInv, Order, ReplyOrder, Later
  <2>5. CASE pending # None /\ a = pending.id
    BY <1>2, <2>3, <2>4, <2>5
  <2>6. CASE barrier # None /\ a = barrier.id
    BY <1>2, <2>3, <2>4, <2>6
  <2>7. CASE \A n \in Nat : Later(n) => n < a
    BY <1>2, <1>5, <2>4, <2>7
  <2> QED
    BY <1>9, <2>2, <2>5, <2>6, <2>7, StillOpen
<1>10. {id \in requested : Acted(id)}' = {id \in requested : Acted(id)}
  BY DEF Acted
<1>11. (rejected \cap requested)' = rejected \cap requested
  OBVIOUS
<1>12. \A i \in DOMAIN ids : ids[i] \in {id \in requested : Acted(id)} \ Promise!Replied
  BY <1>6, <1>7
<1>13. \A a \in requested \ ((rejected \cap requested) \cup Promise!Replied') : \A i \in DOMAIN ids : ids[i] < a
  BY <1>9
<1> QED
  BY <1>8, <1>10, <1>11, <1>12, <1>13 DEF Promise!Answer

\* A response is held, or delivered in its turn with the one it held back.
LEMMA ResponseAnswers ==
  ASSUME PInv, WInv', Earned', ReadResponse
  PROVE  \/ \E id \in requested : Promise!Answer(<<id>>)
         \/ \E first, second \in requested : Promise!Answer(<<first, second>>)
         \/ UNCHANGED Promise!vars
<1>1. UNCHANGED <<issued, requested, executed, rejected, queue, queued>>
  BY DEF ReadResponse, owner, daemon
<1>2. WInv /\ IInv' /\ replies \in Seq(Nat)
  BY DEF PInv, WInv, IInv, TypeOK
<1>3. /\ pending # None => pending.id \in requested /\ pending.id \in Nat
      /\ barrier # None => barrier.id \in requested /\ barrier.id \in Nat
  BY <1>2, PlaceTypes DEF PInv, AllKnown, WInv, IInv
<1>4. CASE replies' = replies
  BY <1>1, <1>4, Unseen
<1>5. CASE BarrierDelivered
  <2>1. PICK ids : ids = <<barrier.id>>
    OBVIOUS
  <2>2. ids \in Seq(Nat) /\ DOMAIN ids = {1} /\ ids[1] = barrier.id
    BY <1>3, <1>5, <2>1 DEF BarrierDelivered
  <2>3. replies' = replies \o ids
    BY <1>2, <1>3, <1>5, <2>1, AppendIds DEF BarrierDelivered
  <2>4. Promise!Answer(ids)
    BY <1>1, <1>2, <1>3, <1>5, <2>2, <2>3, AnswersInTurn DEF BarrierDelivered
  <2> QED
    BY <1>3, <1>5, <2>1, <2>4 DEF BarrierDelivered
<1>6. CASE PendingDelivered
  <2>1. PICK ids : ids = <<pending.id>>
    OBVIOUS
  <2>2. ids \in Seq(Nat) /\ DOMAIN ids = {1} /\ ids[1] = pending.id
    BY <1>3, <1>6, <2>1 DEF PendingDelivered
  <2>3. replies' = replies \o ids
    BY <1>2, <1>3, <1>6, <2>1, AppendIds DEF PendingDelivered
  <2>4. Promise!Answer(ids)
    BY <1>1, <1>2, <1>3, <1>6, <2>2, <2>3, AnswersInTurn DEF PendingDelivered
  <2> QED
    BY <1>3, <1>6, <2>1, <2>4 DEF PendingDelivered
<1>7. CASE BothDelivered
  <2>0. pending # None /\ barrier # None
    BY <1>7 DEF BothDelivered
  <2>1. PICK ids : ids = <<pending.id, barrier.id>>
    OBVIOUS
  <2>2. ids \in Seq(Nat) /\ DOMAIN ids = {1, 2} /\ ids[1] = pending.id /\ ids[2] = barrier.id
    BY <1>3, <2>0, <2>1
  <2>3. replies' = replies \o ids
    BY <1>2, <1>3, <1>7, <2>0, <2>1, AppendIds DEF BothDelivered
  <2>4. Promise!Answer(ids)
    BY <1>1, <1>2, <1>3, <2>0, <2>2, <2>3, AnswersInTurn
  <2> QED
    BY <1>3, <2>0, <2>1, <2>4
<1>8. replies' = replies \/ BarrierDelivered \/ PendingDelivered \/ BothDelivered
  BY AnswerEffect DEF Refusal, HoldsBack
<1> QED
  BY <1>4, <1>5, <1>6, <1>7, <1>8

\* Every step is one the promise allows, or none it sees.
LEMMA PromiseStep ==
  ASSUME PInv, WInv', Earned', [Next]_vars
  PROVE  [Promise!Next]_(Promise!vars)
<1> USE DEF owner, worker, session, inbound, events, daemon
<1>1. CASE UNCHANGED <<issued, requested, executed, replies, rejected>>
  BY <1>1, Unseen
<1>2. CASE Enqueue
  BY <1>2, EnqueueAsks DEF PInv, Promise!Next
<1>3. CASE DaemonReads
  BY <1>3, ReadsAct DEF Promise!Next
<1>4. CASE Reject \/ ImageExpires
  BY <1>4, RejectRejects DEF Promise!Next
<1>5. CASE ReadResponse
  BY <1>5, ResponseAnswers DEF Promise!Next
<1>6. CASE Next
  <2>1. CASE Batch
    <3>1. CASE ResumeInput \/ FenceHolds \/ LeaseHolds \/ ImageClosed \/ ImagePreparing \/ ImageWrites
               \/ WriteBounded \/ WriteAll
      BY <1>1, <3>1 DEF ResumeInput, FenceHolds, LeaseHolds, ImageClosed, ImagePreparing, ImageWrites,
           WriteBounded, WriteAll, WriteSome, Hold, Dispose, Unqueue
    <3>2. CASE Resend \/ BatchEnds \/ ImageCancelled
      BY <1>1, <3>2 DEF Resend, BatchEnds, ImageCancelled, End, Dispose, Unqueue
    <3> QED
      BY <1>4, <2>1, <3>1, <3>2 DEF Batch
  <2>2. \/ Enqueue \/ Batch \/ ReadResponse \/ DaemonReads
        \/ UNCHANGED <<issued, requested, executed, replies, rejected>>
    BY <1>6 DEF Next, Owner, PublishImage, CloseImage, CancelImage, Stop, End, Worker, Top, Woken,
         Read, ReadPart, ReadSurface, Timeout, RequestTimeout, FrameTimeout, HealthTimeout, Daemon,
         DaemonAnswers, DaemonDraws
  <2> QED
    BY <1>1, <1>2, <1>3, <1>5, <2>1, <2>2
<1>7. CASE UNCHANGED vars
  BY <1>1, <1>7 DEF vars
<1> QED
  BY <1>6, <1>7

\* Nothing is asked at first.
LEMMA InitPromise == ASSUME Init PROVE AllKnown /\ Underway /\ Promise!Init
BY DEF Init, AllKnown, Underway, Sent, Waiting, Promise!Init

-----------------------------------------------------------------------------
\* The lease's request is on the wire or was acted on, and requests are told from
\* other commands by their numbers, in every reachable state.
THEOREM PromiseInvariance == Spec => []PInv
<1>1. Init => AllKnown /\ Underway
  BY InitPromise
<1>2. WInv /\ Earned /\ AllKnown /\ Underway /\ [Next]_vars => AllKnown' /\ Underway'
  BY KnownStep, UnderwayStep
<1> QED
  BY <1>1, <1>2, EarnedInvariance, PTL DEF Spec, PInv

\* The connection implements OrderedRequests for any queue, batch, mix and number
\* of commands and any order of the daemon's answers: requests are acted on one by
\* one in the order of issue, and answered in that order, each once and only when
\* acted on (run_connection, handle_message, session/barrier.rs).
THEOREM ConnectionKeepsOrder == Spec => KeepsOrder
<1>1. Init => Promise!Init
  BY InitPromise
<1>2. PInv /\ PInv' /\ [Next]_vars => [Promise!Next]_(Promise!vars)
  BY PromiseStep DEF PInv
<1> QED
  BY <1>1, <1>2, PromiseInvariance, PTL DEF Spec, KeepsOrder, Promise!Spec
====
