---------------------------- MODULE WorkerWakeProofs ----------------------------
(***************************************************************************)
(* Proofs about WorkerWake, for every number of commands, every capacity,    *)
(* every batch limit from two on and any mix of commands, with health checks *)
(* and without.                                                             *)
(***************************************************************************)
EXTENDS WorkerWake, TLAPS, FiniteSetTheorems

(* Where a command can be: ids not given out are nowhere; a slot that is     *)
(* being reserved is not yet with the worker; a command is in one place of   *)
(* the queue at most, and not also held.                                     *)
Fresh ==
  \A id \in Ids : id > issued =>
    /\ upload[id] = "none" /\ ~claimed[id] /\ ~finished[id] /\ holders[id] = {}
    /\ id \notin InQueue /\ id # queued

Reserving ==
  \A id \in Ids : upload[id] = "reserving" =>
    id \notin InQueue /\ id # queued /\ ~finished[id]

Distinct ==
  /\ \A i, j \in DOMAIN queue : queue[i] = queue[j] => i = j
  /\ queued \notin InQueue

(* Which commands have a slot, and who holds its lease. *)
SlotKinds == \A id \in Ids : upload[id] # "none" => kind[id] = "image"

UploadHolds ==
  \A id \in Ids :
    /\ upload[id] = "reserving" => holders[id] = {"upload", "slot"}
    /\ upload[id] \in {"held", "encoding", "dropping", "woken"} => "upload" \in holders[id]

Places == Fresh /\ Reserving /\ Distinct /\ SlotKinds /\ UploadHolds

(* What the worker has in hand, at each point of an iteration of its batch. *)
Hands ==
  /\ pc \in {"hand", "peekdrain", "input", "image"} => queued \in Ids /\ round < BatchLimit
  /\ pc = "image" => kind[queued] = "image"
  /\ pc \in {"peekdrain", "input"} => kind[queued] # "image"

(* OneImageLease without its cardinality. *)
Live(id) == claimed[id] /\ holders[id] # {}
LeaseUnique == \A i, j \in Ids : Live(i) /\ Live(j) => i = j
LeaseFlag == busy <=> \E id \in Ids : Live(id)

(* The worker's held slot has news it could act on. *)
SlotNews ==
  /\ queued # None /\ kind[queued] = "image"
  /\ PastFence
  /\ cancelled[queued] \/ (~taken /\ chan[queued] # "open")

(* Since the top of the loop the worker has looked at the stop flag. *)
Past == {"probe", "take", "hand", "peekdrain", "input", "image", "plan", "poll"}

(* What the worker has looked at when, and so what must have a wake coming:  *)
(* the stop flag from the top of the loop on, unless the batch's poll took   *)
(* the wake; a slot once the batch is over; the queue, a liveness request    *)
(* and a resend only from the wait on.  A batch that comes to its limit      *)
(* holds nothing: a held command is at most behind one resend.               *)
Looked ==
  /\ (pc \in Past /\ stop) => WakeComing \/ peeked
  /\ (pc \in {"plan", "poll"} /\ SlotNews) => WakeComing
  /\ (pc = "poll" /\ ~zero /\ queued = None /\ queue # <<>>) => WakeComing
  /\ (pc = "poll" /\ ~zero /\ Remote /\ liveness /\ ~PartialOut) => WakeComing
  /\ (pc = "poll" /\ ~zero) => ~ResendNow
  /\ (pc = "take" /\ queued # None) => round = 0 \/ (round = 1 /\ pending)

IInv == TypeOK /\ Places /\ Hands /\ FinishedWhenGone /\ LeaseUnique /\ LeaseFlag /\ Looked

-----------------------------------------------------------------------------
(* The first state satisfies the invariant. *)
LEMMA InitIInv == Init => IInv
<1>. SUFFICES ASSUME Init PROVE IInv
  OBVIOUS
<1>1. TypeOK
  <2>1. issued \in 0..MaxCommands /\ owed \in 0..MaxOwed /\ round \in 0..BatchLimit
    BY BoundsAssumption DEF Init
  <2>2. queue \in Seq(Ids) /\ Len(queue) <= QueueCapacity
    BY BoundsAssumption DEF Init
  <2>3. holders \in [Ids -> SUBSET {"upload", "slot"}]
    BY DEF Init
  <2>4. kind \in [Ids -> Kinds]
    BY BoundsAssumption DEF Init
  <2>. QED BY <2>1, <2>2, <2>3, <2>4 DEF Init, TypeOK, UploadStates, Points
<1>2. InQueue = {}
  BY DEF Init, InQueue
<1>3. Places
  BY <1>2, BoundsAssumption
  DEF Init, Places, Fresh, Reserving, Distinct, SlotKinds, UploadHolds
<1>4. FinishedWhenGone /\ LeaseUnique /\ LeaseFlag
  BY DEF Init, FinishedWhenGone, LeaseUnique, LeaseFlag, Live
<1>5. Looked /\ Hands
  BY DEF Init, Looked, Hands, Past
<1>. QED BY <1>1, <1>3, <1>4, <1>5 DEF IInv

-----------------------------------------------------------------------------
(* Type correctness *)

(* A dropped slot keeps the types of the lease. *)
LEMMA DropType ==
  ASSUME NEW S, TypeOK, DropSlots(S)
  PROVE  /\ cancelled' \in [Ids -> BOOLEAN] /\ finished' \in [Ids -> BOOLEAN]
         /\ holders' \in [Ids -> SUBSET {"upload", "slot"}]
         /\ busy' \in BOOLEAN
         /\ upload' = upload /\ chan' = chan /\ claimed' = claimed
<1>1. \A id \in Ids : holders[id] \in SUBSET {"upload", "slot"}
  BY DEF TypeOK
<1>2. \A id \in Ids : holders[id] \ {"slot"} \in SUBSET {"upload", "slot"}
  BY <1>1
<1>3. holders' \in [Ids -> SUBSET {"upload", "slot"}]
  BY <1>1, <1>2 DEF DropSlots
<1>4. busy' \in BOOLEAN
  BY DEF DropSlots, BusyAfter
<1>. QED BY <1>3, <1>4 DEF DropSlots, TypeOK

(* The end of the connection keeps the types. *)
LEMMA EndType == TypeOK /\ End => TypeOK'
<1>. SUFFICES ASSUME TypeOK, End PROVE TypeOK'
  OBVIOUS
<1>1. DropSlots(Slots(InQueue \cup ({queued} \ {None})))
  BY DEF End
<1>2. queue' \in Seq(Ids) /\ Len(queue') <= QueueCapacity
  BY BoundsAssumption DEF End
<1>3. /\ queued' \in Ids \cup {None} /\ taken' \in BOOLEAN /\ partial' \in BOOLEAN
      /\ attempted' \in BOOLEAN /\ stop' \in BOOLEAN /\ pc' \in Points
  BY DEF End, Forget, Points
<1>4. UNCHANGED <<issued, kind, wake, owed, liveness, round, wait, link>>
  BY DEF End
<1>. QED BY <1>1, <1>2, <1>3, <1>4, DropType DEF TypeOK, wait, link

(* So does the end of a slot. *)
LEMMA ReleaseType ==
  ASSUME NEW next \in {"take", "plan"}, TypeOK, Release(next), round < BatchLimit
  PROVE  TypeOK'
<1>1. DropSlots({queued})
  BY DEF Release
<1>2. round' \in 0..BatchLimit
  BY BoundsAssumption DEF Release, TypeOK
<1>3. /\ queued' \in Ids \cup {None} /\ taken' \in BOOLEAN /\ partial' \in BOOLEAN
      /\ attempted' \in BOOLEAN /\ pc' \in Points
  BY DEF Release, Forget, Points
<1>4. UNCHANGED <<issued, kind, queue, wake, owed, flags, wait, link>>
  BY DEF Release
<1>. QED BY <1>1, <1>2, <1>3, <1>4, DropType DEF TypeOK, flags, wait, link

(* A step of the worker that only goes on. *)
LEMMA GotoType ==
  ASSUME TypeOK, NEW next \in Points, Goto(next)
  PROVE  TypeOK'
BY DEF TypeOK, Goto, flags, slots, held, wait, link

(* A command leaves or enters the queue. *)
LEMMA QueueTypes ==
  ASSUME TypeOK
  PROVE  /\ queue # <<>> => Head(queue) \in Ids /\ Tail(queue) \in Seq(Ids)
                            /\ Len(Tail(queue)) = Len(queue) - 1
         /\ \A id \in Ids : /\ Append(queue, id) \in Seq(Ids)
                            /\ Len(Append(queue, id)) = Len(queue) + 1
BY DEF TypeOK

(* Every step keeps the types. *)
LEMMA TypeStep == IInv /\ [Next]_vars => TypeOK'
<1>. SUFFICES ASSUME IInv, [Next]_vars PROVE TypeOK'
  OBVIOUS
<1>. USE BoundsAssumption
<1>0. TypeOK /\ Hands
  BY DEF IInv
<1>1. CASE UNCHANGED vars
  BY <1>0, <1>1 DEF TypeOK, vars, flags, slots, held, wait, link
<1>2. CASE WakeOwed
  BY <1>0, <1>2 DEF TypeOK, WakeOwed, flags, slots, held, wait, link
<1>3. CASE Send
  <2>1. issued + 1 \in Ids /\ issued' \in 0..MaxCommands
    BY <1>0, <1>3 DEF TypeOK, Send, Ids
  <2>2. queue' \in Seq(Ids) /\ Len(queue') <= QueueCapacity
    <3>1. Len(queue) < QueueCapacity /\ queue' = Append(queue, issued + 1)
      BY <1>3 DEF Send
    <3>2. queue \in Seq(Ids) /\ Len(queue) \in Nat
      BY <1>0 DEF TypeOK
    <3>. QED BY <1>0, <2>1, <3>1, <3>2, QueueTypes
  <2>3. owed' \in 0..MaxOwed
    BY <1>0, <1>3 DEF TypeOK, Send, Owe
  <2>. QED BY <1>0, <1>3, <2>1, <2>2, <2>3 DEF TypeOK, Send, flags, slots, held, wait, link
<1>4. ASSUME NEW claim \in Claims, Reserve(claim) PROVE TypeOK'
  <2>1. issued + 1 \in Ids /\ issued' \in 0..MaxCommands
    BY <1>0, <1>4 DEF TypeOK, Reserve, Ids
  <2>2. holders' \in [Ids -> SUBSET {"upload", "slot"}]
    BY <1>0, <1>4, <2>1 DEF TypeOK, Reserve
  <2>3. upload' \in [Ids -> UploadStates]
    BY <1>0, <1>4, <2>1 DEF TypeOK, Reserve, UploadStates
  <2>4. claimed' \in [Ids -> BOOLEAN] /\ busy' \in BOOLEAN
    BY <1>0, <1>4, <2>1 DEF TypeOK, Reserve
  <2>. QED BY <1>0, <1>4, <2>1, <2>2, <2>3, <2>4 DEF TypeOK, Reserve, flags, held, wait, link
<1>5. ASSUME NEW id \in Ids, QueueSlot(id) PROVE TypeOK'
  <2>1. queue' \in Seq(Ids) /\ Len(queue') <= QueueCapacity
    <3>1. queue' = queue \/ (Len(queue) < QueueCapacity /\ queue' = Append(queue, id))
      BY <1>5 DEF QueueSlot
    <3>2. queue \in Seq(Ids) /\ Len(queue) \in Nat /\ Len(queue) <= QueueCapacity
      BY <1>0 DEF TypeOK
    <3>3. CASE Len(queue) < QueueCapacity /\ queue' = Append(queue, id)
      BY <1>0, <3>2, <3>3, QueueTypes
    <3>. QED BY <3>1, <3>2, <3>3
  <2>2. owed' \in 0..MaxOwed
    BY <1>0, <1>5 DEF TypeOK, QueueSlot, Owe
  <2>3. upload' \in [Ids -> UploadStates]
    <3>1. \/ upload' = [upload EXCEPT ![id] = "held"]
          \/ upload' = [upload EXCEPT ![id] = "gone"]
      BY <1>5 DEF QueueSlot
    <3>. QED BY <1>0, <3>1 DEF TypeOK, UploadStates
  <2>4. holders' \in [Ids -> SUBSET {"upload", "slot"}]
    BY <1>0, <1>5 DEF TypeOK, QueueSlot
  <2>5. /\ cancelled' \in [Ids -> BOOLEAN] /\ finished' \in [Ids -> BOOLEAN]
        /\ claimed' \in [Ids -> BOOLEAN] /\ busy' \in BOOLEAN /\ chan' = chan
    BY <1>0, <1>5 DEF TypeOK, QueueSlot
  <2>. QED BY <1>0, <1>5, <2>1, <2>2, <2>3, <2>4, <2>5
           DEF TypeOK, QueueSlot, flags, held, wait, link
<1>6. ASSUME NEW id \in Ids, NEW claim \in BOOLEAN, BeginPublish(id, claim) PROVE TypeOK'
  <2>1. /\ upload' \in [Ids -> UploadStates] /\ claimed' \in [Ids -> BOOLEAN]
        /\ busy' \in BOOLEAN
    BY <1>0, <1>6 DEF TypeOK, BeginPublish, UploadStates
  <2>. QED BY <1>0, <1>6, <2>1 DEF TypeOK, BeginPublish, flags, held, wait, link
<1>7. ASSUME NEW id \in Ids, Publish(id) \/ Abandon(id) PROVE TypeOK'
  <2>1. upload' \in [Ids -> UploadStates] /\ chan' \in [Ids -> {"open", "sent", "closed"}]
    BY <1>0, <1>7 DEF TypeOK, Publish, Abandon, UploadStates
  <2>. QED BY <1>0, <1>7, <2>1 DEF TypeOK, Publish, Abandon, flags, held, wait, link
<1>8. ASSUME NEW id \in Ids, WakeOnDrop(id) PROVE TypeOK'
  <2>1. upload' \in [Ids -> UploadStates]
    BY <1>0, <1>8 DEF TypeOK, WakeOnDrop, UploadStates
  <2>. QED BY <1>0, <1>8, <2>1 DEF TypeOK, WakeOnDrop, flags, held, wait, link
<1>9. ASSUME NEW id \in Ids, DropUpload(id) PROVE TypeOK'
  <2>1. upload' \in [Ids -> UploadStates]
    BY <1>0, <1>9 DEF TypeOK, DropUpload, UploadStates
  <2>2. holders' \in [Ids -> SUBSET {"upload", "slot"}] /\ busy' \in BOOLEAN
    BY <1>0, <1>9 DEF TypeOK, DropUpload, BusyAfter
  <2>. QED BY <1>0, <1>9, <2>1, <2>2 DEF TypeOK, DropUpload, flags, held, wait, link
<1>10. ASSUME NEW id \in Ids, Cancel(id) PROVE TypeOK'
  BY <1>0, <1>10 DEF TypeOK, Cancel, Owe, flags, held, wait, link
<1>11. CASE Disconnect
  BY <1>0, <1>11 DEF TypeOK, Disconnect, Owe, slots, held, wait, link
<1>12. CASE CheckLiveness
  BY <1>0, <1>12 DEF TypeOK, CheckLiveness, Owe, slots, held, wait, link
<1>13. CASE End
  BY <1>0, <1>13, EndType
<1>14. CASE Top /\ ~End
  BY <1>0, <1>14, GotoType DEF Top, Points
<1>15. CASE Probe
  BY <1>0, <1>15 DEF TypeOK, Probe, Points, slots, held, wait, link
<1>16. CASE Resend /\ ~End
  <2>0. round < BatchLimit /\ round' = round + 1 /\ pending' = TRUE /\ barrier' = "none"
    BY <1>16 DEF Resend
  <2>1. /\ pending' \in BOOLEAN /\ barrier' \in {"none", "sent", "held", "refused"}
        /\ round' \in 0..BatchLimit
    BY <1>0, <2>0 DEF TypeOK
  <2>2. UNCHANGED <<issued, kind, queue, wake, owed, flags, slots, pc, held, wait, inbound, readable>>
    BY <1>16 DEF Resend
  <2>. QED BY <1>0, <2>1, <2>2 DEF TypeOK, flags, slots, held, wait
<1>17. CASE Take /\ ~End
  <2>1. queue' \in Seq(Ids) /\ Len(queue') <= QueueCapacity
    <3>1. queue' = queue \/ (queue # <<>> /\ queue' = Tail(queue))
      BY <1>17 DEF Take
    <3>2. queue \in Seq(Ids) /\ Len(queue) \in Nat /\ Len(queue) <= QueueCapacity
      BY <1>0 DEF TypeOK
    <3>3. CASE queue # <<>> /\ queue' = Tail(queue)
      BY <1>0, <3>2, <3>3, QueueTypes
    <3>. QED BY <3>1, <3>2, <3>3
  <2>2. queued' \in Ids \cup {None}
    BY <1>0, <1>17, QueueTypes DEF TypeOK, Take
  <2>. QED BY <1>0, <1>17, <2>1, <2>2 DEF TypeOK, Take, Points, flags, slots, wait, link
<1>18. CASE TakeNothing \/ Fenced \/ AwaitLease \/ Continue \/ ImagePreparing
  <2>1. \E next \in Points : Goto(next)
    BY <1>18 DEF TakeNothing, Fenced, AwaitLease, Continue, ImagePreparing, Points
  <2>. QED BY <1>0, <2>1, GotoType
<1>19. CASE Peek
  <2>1. got' \in BOOLEAN /\ pc' \in Points
    BY <1>0, <1>19 DEF Peek, TypeOK, Points
  <2>. QED BY <1>0, <1>19, <2>1 DEF TypeOK, Peek, flags, slots, held, link
<1>20. CASE PeekDrain
  <2>1. pc' \in Points /\ wake' \in BOOLEAN /\ peeked' \in BOOLEAN
    BY <1>20 DEF PeekDrain, Points
  <2>2. UNCHANGED <<issued, kind, queue, owed, flags, slots, round, held, zero, writable, got, link>>
    BY <1>20 DEF PeekDrain
  <2>. QED BY <1>0, <2>1, <2>2 DEF TypeOK, flags, slots, held, link
<1>21. CASE Reject
  <2>1. DropSlots(Slots({queued})) /\ round < BatchLimit
    BY <1>0, <1>21 DEF Reject, Hands
  <2>2. round' \in 0..BatchLimit
    BY <1>0, <1>21, <2>1 DEF Reject, TypeOK
  <2>3. /\ queued' \in Ids \cup {None} /\ taken' \in BOOLEAN /\ partial' \in BOOLEAN
        /\ attempted' \in BOOLEAN /\ pc' \in Points
    BY <1>21 DEF Reject, Forget, Points
  <2>4. UNCHANGED <<issued, kind, queue, wake, owed, flags, wait, link>>
    BY <1>21 DEF Reject
  <2>. QED BY <1>0, <2>1, <2>2, <2>3, <2>4, DropType DEF TypeOK, flags, wait, link
<1>22. CASE Write
  <2>1. round' \in 0..BatchLimit
    BY <1>0, <1>22 DEF Write, Hands, TypeOK
  <2>2. pending' \in BOOLEAN /\ barrier' \in {"none", "sent", "held", "refused"}
    BY <1>0, <1>22 DEF Write, TypeOK
  <2>3. /\ queued' \in Ids \cup {None} /\ taken' \in BOOLEAN /\ partial' \in BOOLEAN
        /\ attempted' \in BOOLEAN /\ pc' \in Points
    BY <1>22 DEF Write, Forget, Points
  <2>4. UNCHANGED <<issued, kind, queue, wake, owed, flags, slots, wait, inbound, readable>>
    BY <1>22 DEF Write
  <2>. QED BY <1>0, <2>1, <2>2, <2>3, <2>4 DEF TypeOK, flags, slots, wait
<1>23. CASE WriteInput
  <2>0. round < BatchLimit /\ round' \in {round, round + 1}
    BY <1>0, <1>23 DEF WriteInput, Hands
  <2>1. round' \in 0..BatchLimit
    BY <1>0, <2>0 DEF TypeOK
  <2>2. /\ queued' \in Ids \cup {None} /\ taken' \in BOOLEAN /\ partial' \in BOOLEAN
        /\ attempted' \in BOOLEAN /\ pc' \in Points
    BY <1>0, <1>23 DEF WriteInput, Forget, TypeOK, Points
  <2>. QED BY <1>0, <1>23, <2>1, <2>2 DEF TypeOK, WriteInput, flags, slots, wait, link
<1>24. CASE (ImageCancelled \/ ImageSkipped \/ ImageWrites) /\ ~End
  <2>1. round < BatchLimit
    BY <1>0, <1>24 DEF Hands, ImageCancelled, ImageSkipped, ImageWrites
  <2>2. CASE Release("take") \/ Release("plan")
    BY <1>0, <2>1, <2>2, ReleaseType
  <2>3. CASE ~Release("take") /\ ~Release("plan")
    <3>1. /\ taken' = TRUE /\ partial' \in {partial, TRUE} /\ pc' = "plan"
          /\ UNCHANGED <<issued, kind, queue, wake, owed, flags, slots, round, queued, attempted,
                         wait, link>>
      BY <1>24, <2>3 DEF ImageCancelled, ImageSkipped, ImageWrites
    <3>2. taken' \in BOOLEAN /\ partial' \in BOOLEAN
      BY <1>0, <3>1 DEF TypeOK
    <3>. QED BY <1>0, <3>1, <3>2 DEF TypeOK, Points, flags, slots, wait, link
  <2>. QED BY <2>2, <2>3
<1>25. CASE Plan
  <2>1. zero' \in BOOLEAN /\ writable' \in BOOLEAN /\ got' \in BOOLEAN
    BY <1>25, Zenon DEF Plan, ZeroTimeout, AwaitsRoom
  <2>. QED BY <1>0, <1>25, <2>1 DEF TypeOK, Plan, Points, flags, slots, held, link
<1>26. CASE Poll \/ Room \/ Deadline
  <2>1. Returns
    BY <1>26 DEF Poll, Room, Deadline
  <2>2. /\ got' \in BOOLEAN /\ pc' \in Points
        /\ zero' \in BOOLEAN /\ writable' \in BOOLEAN /\ peeked' \in BOOLEAN
    BY <1>0, <2>1 DEF Returns, TypeOK, Points
  <2>3. UNCHANGED <<issued, kind, queue, wake, owed, flags, slots, round, held, link>>
    BY <2>1 DEF Returns
  <2>. QED BY <1>0, <2>2, <2>3 DEF TypeOK, flags, slots, held, link
<1>27. CASE Drain
  <2>1. pc' \in Points /\ wake' \in BOOLEAN
    BY <1>27 DEF Drain, Points
  <2>2. UNCHANGED <<issued, kind, queue, owed, flags, slots, round, held, wait, link>>
    BY <1>27 DEF Drain
  <2>. QED BY <1>0, <2>1, <2>2 DEF TypeOK, flags, slots, held, wait, link
<1>28. CASE Read
  <2>1. /\ pending' \in BOOLEAN /\ barrier' \in {"none", "sent", "held", "refused"}
        /\ inbound' \in {"none", "frame", "surface"} /\ readable' \in BOOLEAN /\ pc' \in Points
    BY <1>0, <1>28 DEF Read, Answered, TypeOK, Points
  <2>2. UNCHANGED <<issued, kind, queue, wake, owed, flags, slots, round, held, wait>>
    BY <1>28 DEF Read
  <2>. QED BY <1>0, <2>1, <2>2 DEF TypeOK, flags, slots, held, wait
<1>29. CASE PeerSends
  BY <1>0, <1>29 DEF TypeOK, PeerSends, flags, slots, held, wait
<1>. QED BY <1>1, <1>2, <1>3, <1>4, <1>5, <1>6, <1>7, <1>8, <1>9, <1>10, <1>11, <1>12, <1>13,
            <1>14, <1>15, <1>16, <1>17, <1>18, <1>19, <1>20, <1>21, <1>22, <1>23, <1>24, <1>25,
            <1>26, <1>27, <1>28, <1>29
         DEF Next, Owner, Worker, Lose

-----------------------------------------------------------------------------
(* Where commands are *)

Rng(q) == {q[i] : i \in DOMAIN q}
Inj(q) == \A i, j \in DOMAIN q : q[i] = q[j] => i = j

(* A command joins the queue. *)
LEMMA AppendFacts ==
  ASSUME NEW q \in Seq(Ids), NEW x \in Ids
  PROVE  /\ Rng(Append(q, x)) = Rng(q) \cup {x}
         /\ (Inj(q) /\ x \notin Rng(q)) => Inj(Append(q, x))
<1>1. /\ DOMAIN Append(q, x) = 1..(Len(q) + 1)
      /\ DOMAIN q = 1..Len(q)
      /\ \A i \in 1..Len(q) : Append(q, x)[i] = q[i]
      /\ Append(q, x)[Len(q) + 1] = x
      /\ Len(q) \in Nat
  OBVIOUS
<1>2. Rng(Append(q, x)) = Rng(q) \cup {x}
  BY <1>1 DEF Rng
<1>3. ASSUME Inj(q), x \notin Rng(q) PROVE Inj(Append(q, x))
  BY <1>1, <1>3 DEF Inj, Rng
<1>. QED BY <1>2, <1>3

(* Its head leaves it. *)
LEMMA TailFacts ==
  ASSUME NEW q \in Seq(Ids), q # <<>>, Inj(q)
  PROVE  /\ Rng(q) = Rng(Tail(q)) \cup {Head(q)}
         /\ Head(q) \notin Rng(Tail(q))
         /\ Inj(Tail(q))
<1>1. /\ Len(q) \in Nat /\ Len(q) > 0
      /\ DOMAIN q = 1..Len(q)
      /\ DOMAIN Tail(q) = 1..(Len(q) - 1)
      /\ \A i \in 1..(Len(q) - 1) : Tail(q)[i] = q[i + 1]
      /\ Head(q) = q[1]
  OBVIOUS
<1>2. ASSUME NEW i \in 1..Len(q), i # 1 PROVE q[i] \in Rng(Tail(q))
  <2>1. i - 1 \in 1..(Len(q) - 1) /\ Tail(q)[i - 1] = q[i]
    BY <1>1, <1>2
  <2>. QED BY <1>1, <2>1 DEF Rng
<1>3. Rng(q) = Rng(Tail(q)) \cup {Head(q)}
  <2>1. Rng(q) \subseteq Rng(Tail(q)) \cup {Head(q)}
    BY <1>1, <1>2 DEF Rng
  <2>2. Rng(Tail(q)) \subseteq Rng(q) /\ Head(q) \in Rng(q)
    BY <1>1 DEF Rng
  <2>. QED BY <2>1, <2>2
<1>4. Head(q) \notin Rng(Tail(q))
  BY <1>1 DEF Rng, Inj
<1>5. Inj(Tail(q))
  BY <1>1 DEF Inj
<1>. QED BY <1>3, <1>4, <1>5

(* A step that moves no command, slot or lease. *)
LEMMA QuietPlaces ==
  ASSUME Places, FinishedWhenGone,
         UNCHANGED <<issued, kind, queue, queued, upload, finished, claimed, holders>>
  PROVE  Places' /\ FinishedWhenGone'
<1>1. InQueue' = InQueue
  BY DEF InQueue
<1>. QED
  BY <1>1 DEF Places, Fresh, Reserving, Distinct, SlotKinds, UploadHolds, FinishedWhenGone

(* An upload goes on, its place already taken. *)
LEMMA UploadPlaces ==
  ASSUME TypeOK, Places, FinishedWhenGone, NEW id \in Ids,
         upload[id] \notin {"none", "reserving"},
         NEW to \in {"held", "encoding", "dropping", "woken", "gone"},
         upload' = [upload EXCEPT ![id] = to],
         \A i \in Ids : i # id => claimed'[i] = claimed[i] /\ holders'[i] = holders[i],
         to # "gone" => "upload" \in holders'[id],
         UNCHANGED <<issued, kind, queue, queued, finished>>
  PROVE  Places' /\ FinishedWhenGone'
<1>1. InQueue' = InQueue
  BY DEF InQueue
<1>2. /\ upload'[id] = to
      /\ \A i \in Ids : i # id => upload'[i] = upload[i]
  BY DEF TypeOK
<1>3. id <= issued
  BY DEF Places, Fresh, TypeOK, Ids
<1>4. Fresh'
  BY <1>1, <1>2, <1>3 DEF Places, Fresh, TypeOK, Ids
<1>5. Reserving' /\ SlotKinds' /\ UploadHolds' /\ Distinct'
  BY <1>1, <1>2 DEF Places, Reserving, SlotKinds, UploadHolds, Distinct
<1>6. FinishedWhenGone'
  BY <1>1, <1>2 DEF FinishedWhenGone
<1>. QED BY <1>4, <1>5, <1>6 DEF Places

(* A command is queued. *)
LEMMA SendPlaces ==
  ASSUME TypeOK, Places, FinishedWhenGone, Send
  PROVE  Places' /\ FinishedWhenGone'
<1>. DEFINE id == issued + 1
<1>1. id \in Ids /\ id > issued /\ issued \in Nat
  BY BoundsAssumption DEF TypeOK, Send, Ids
<1>2. /\ upload[id] = "none" /\ id \notin InQueue /\ id # queued
  BY <1>1 DEF Places, Fresh
<1>3. queue' = Append(queue, id) /\ queue \in Seq(Ids) /\ issued' = id
  BY DEF Send, TypeOK
<1>4. InQueue' = InQueue \cup {id}
  BY <1>1, <1>3, AppendFacts DEF InQueue, Rng
<1>5. UNCHANGED <<kind, queued, upload, finished, claimed, holders>>
  BY DEF Send, slots, held
<1>6. Inj(queue')
  BY <1>1, <1>2, <1>3, AppendFacts DEF Places, Distinct, Inj, InQueue, Rng
<1>7. Distinct'
  BY <1>1, <1>2, <1>4, <1>5, <1>6 DEF Places, Distinct, Inj
<1>8. Fresh'
  BY <1>1, <1>3, <1>4, <1>5 DEF Places, Fresh, Ids
<1>9. Reserving' /\ UploadHolds'
  BY <1>2, <1>4, <1>5 DEF Places, Reserving, UploadHolds
<1>10. SlotKinds'
  BY <1>5 DEF Places, SlotKinds
<1>11. FinishedWhenGone'
  BY <1>2, <1>4, <1>5 DEF FinishedWhenGone
<1>. QED BY <1>7, <1>8, <1>9, <1>10, <1>11 DEF Places

(* A slot's place is being reserved. *)
LEMMA ReservePlaces ==
  ASSUME TypeOK, Places, FinishedWhenGone, NEW claim, Reserve(claim)
  PROVE  Places' /\ FinishedWhenGone'
<1>. DEFINE id == issued + 1
<1>1. id \in Ids /\ id > issued /\ issued \in Nat /\ issued' = id
  BY BoundsAssumption DEF TypeOK, Reserve, Ids
<1>2. upload[id] = "none" /\ id \notin InQueue /\ id # queued /\ ~finished[id]
  BY <1>1 DEF Places, Fresh
<1>3. UNCHANGED <<kind, queue, queued, finished>>
  BY DEF Reserve, held
<1>4. InQueue' = InQueue
  BY <1>3 DEF InQueue
<1>5. /\ upload'[id] = "reserving" /\ kind[id] = "image" /\ holders'[id] = {"upload", "slot"}
      /\ \A i \in Ids : i # id => /\ upload'[i] = upload[i]
                                  /\ claimed'[i] = claimed[i] /\ holders'[i] = holders[i]
  BY <1>1 DEF Reserve, TypeOK
<1>6. Fresh'
  BY <1>1, <1>3, <1>4, <1>5 DEF Places, Fresh, Ids
<1>7. Reserving' /\ UploadHolds' /\ Distinct' /\ SlotKinds'
  BY <1>2, <1>3, <1>4, <1>5 DEF Places, Reserving, UploadHolds, Distinct, SlotKinds
<1>8. FinishedWhenGone'
  BY <1>3, <1>4, <1>5 DEF FinishedWhenGone
<1>. QED BY <1>6, <1>7, <1>8 DEF Places

(* The slot is queued, or dropped with its upload. *)
LEMMA QueueSlotPlaces ==
  ASSUME TypeOK, Places, FinishedWhenGone, NEW id \in Ids, QueueSlot(id)
  PROVE  Places' /\ FinishedWhenGone'
<1>1. upload[id] = "reserving" /\ id \notin InQueue /\ id # queued /\ ~finished[id]
  BY DEF Places, Reserving, QueueSlot
<1>2. id <= issued
  BY <1>1 DEF Places, Fresh, TypeOK, Ids
<1>3. UNCHANGED <<issued, kind, queued, claimed>>
  BY DEF QueueSlot, held
<1>4. CASE pc # "ended" /\ Len(queue) < QueueCapacity
  <2>1. queue' = Append(queue, id) /\ queue \in Seq(Ids) /\ UNCHANGED <<finished, holders>>
    BY <1>4 DEF QueueSlot, TypeOK
  <2>2. InQueue' = InQueue \cup {id}
    BY <2>1, AppendFacts DEF InQueue, Rng
  <2>3. Inj(queue')
    BY <1>1, <2>1, AppendFacts DEF Places, Distinct, Inj, InQueue, Rng
  <2>4. upload'[id] = "held" /\ \A i \in Ids : i # id => upload'[i] = upload[i]
    BY <1>4 DEF QueueSlot, TypeOK
  <2>5. Fresh'
    BY <1>2, <1>3, <2>1, <2>2, <2>4 DEF Places, Fresh, TypeOK, Ids
  <2>6. Distinct'
    BY <1>1, <1>3, <2>2, <2>3 DEF Places, Distinct, Inj
  <2>7. Reserving' /\ UploadHolds' /\ SlotKinds'
    BY <1>1, <1>3, <2>1, <2>2, <2>4 DEF Places, Reserving, UploadHolds, SlotKinds
  <2>8. FinishedWhenGone'
    BY <1>1, <1>3, <2>1, <2>2, <2>4 DEF FinishedWhenGone
  <2>. QED BY <2>5, <2>6, <2>7, <2>8 DEF Places
<1>5. CASE ~(pc # "ended" /\ Len(queue) < QueueCapacity)
  <2>1. queue' = queue /\ InQueue' = InQueue
    BY <1>5 DEF QueueSlot, InQueue
  <2>2. /\ upload'[id] = "gone" /\ finished'[id]
        /\ \A i \in Ids : i # id => /\ upload'[i] = upload[i] /\ finished'[i] = finished[i]
                                    /\ holders'[i] = holders[i]
    BY <1>5 DEF QueueSlot, TypeOK
  <2>3. Fresh'
    BY <1>2, <1>3, <2>1, <2>2 DEF Places, Fresh, TypeOK, Ids
  <2>4. Reserving' /\ UploadHolds' /\ SlotKinds' /\ Distinct'
    BY <1>1, <1>3, <2>1, <2>2 DEF Places, Reserving, UploadHolds, SlotKinds, Distinct
  <2>5. FinishedWhenGone'
    BY <1>1, <1>3, <2>1, <2>2 DEF FinishedWhenGone
  <2>. QED BY <2>3, <2>4, <2>5 DEF Places
<1>. QED BY <1>4, <1>5

(* Slots go, with the queue and the held command they were in. *)
LEMMA DropPlaces ==
  ASSUME TypeOK, Places, FinishedWhenGone, NEW S \in SUBSET Ids, DropSlots(S),
         \A id \in S : kind[id] = "image" /\ id \in InQueue \cup {queued},
         InQueue' \subseteq InQueue \ S, Inj(queue'),
         queued' = None,
         \A id \in Ids : (id \in InQueue \cup {queued} /\ kind[id] = "image" /\ id \notin S)
                           => id \in InQueue',
         UNCHANGED <<issued, kind>>
  PROVE  Places' /\ FinishedWhenGone'
<1>1. /\ UNCHANGED <<upload, claimed>>
      /\ \A id \in Ids : /\ finished'[id] = (finished[id] \/ id \in S)
                         /\ holders'[id] = IF id \in S THEN holders[id] \ {"slot"} ELSE holders[id]
  BY DEF DropSlots
<1>2. None \notin Ids /\ InQueue \subseteq Ids /\ InQueue' \subseteq Ids
  BY BoundsAssumption DEF TypeOK, InQueue
<1>3. Fresh'
  BY <1>1, <1>2 DEF Places, Fresh
<1>4. Distinct'
  BY <1>2 DEF Distinct, Inj
<1>5. Reserving'
  BY <1>1, <1>2 DEF Places, Reserving
<1>6. SlotKinds' /\ UploadHolds'
  <2>1. \A id \in S : upload[id] # "reserving"
    BY DEF Places, Reserving
  <2>2. ASSUME NEW id \in Ids
        PROVE  /\ upload'[id] = "reserving" => holders'[id] = {"upload", "slot"}
               /\ upload'[id] \in {"held", "encoding", "dropping", "woken"}
                    => "upload" \in holders'[id]
    <3>1. CASE id \in S
      <4>1. holders'[id] = holders[id] \ {"slot"} /\ upload'[id] = upload[id]
        BY <1>1, <3>1
      <4>. QED BY <2>1, <3>1, <4>1 DEF Places, UploadHolds
    <3>2. CASE id \notin S
      <4>1. holders'[id] = holders[id] /\ upload'[id] = upload[id]
        BY <1>1, <3>2
      <4>. QED BY <4>1 DEF Places, UploadHolds
    <3>. QED BY <3>1, <3>2
  <2>3. UploadHolds'
    BY <2>2 DEF UploadHolds
  <2>. QED BY <1>1, <2>3 DEF Places, SlotKinds
<1>7. FinishedWhenGone'
  BY <1>1, <1>2 DEF FinishedWhenGone, Places, SlotKinds
<1>. QED BY <1>3, <1>4, <1>5, <1>6, <1>7 DEF Places

(* The connection ends. *)
LEMMA EndPlaces ==
  ASSUME TypeOK, Places, FinishedWhenGone, End
  PROVE  Places' /\ FinishedWhenGone'
<1>. DEFINE S == Slots(InQueue \cup ({queued} \ {None}))
<1>1. queue' = <<>> /\ queued' = None /\ UNCHANGED <<issued, kind>>
  BY DEF End, Forget
<1>2. InQueue' = {} /\ Inj(queue')
  BY <1>1 DEF InQueue, Inj
<1>3. InQueue \subseteq Ids /\ queued \in Ids \cup {None} /\ None \notin Ids
  BY BoundsAssumption DEF TypeOK, InQueue
<1>4. S \in SUBSET Ids /\ \A id \in S : kind[id] = "image" /\ id \in InQueue \cup {queued}
  BY <1>3 DEF Slots
<1>5. \A id \in Ids : (id \in InQueue \cup {queued} /\ kind[id] = "image") => id \in S
  BY <1>3 DEF Slots
<1>6. DropSlots(S)
  BY DEF End
<1>. QED BY <1>1, <1>2, <1>4, <1>5, <1>6, DropPlaces

(* The command in hand is disposed of: its slot goes, if it has one. *)
LEMMA DisposePlaces ==
  ASSUME TypeOK, Places, FinishedWhenGone, queued \in Ids, DropSlots(Slots({queued})),
         queued' = None, UNCHANGED <<issued, kind, queue>>
  PROVE  Places' /\ FinishedWhenGone'
<1>1. InQueue' = InQueue /\ queued \notin InQueue /\ Inj(queue')
  BY DEF Places, Distinct, InQueue, Inj
<1>2. PICK S : S = Slots({queued})
  OBVIOUS
<1>3. /\ S \in SUBSET Ids /\ \A id \in S : kind[id] = "image" /\ id = queued
      /\ kind[queued] = "image" => queued \in S
  BY <1>2 DEF Slots
<1>. QED BY <1>1, <1>2, <1>3, DropPlaces

(* A slot is done with. *)
LEMMA ReleasePlaces ==
  ASSUME TypeOK, Places, Hands, FinishedWhenGone, NEW next, Release(next), pc = "image"
  PROVE  Places' /\ FinishedWhenGone'
<1>1. queued \in Ids /\ Slots({queued}) = {queued}
  BY DEF Hands, Slots
<1>2. DropSlots({queued}) /\ queued' = None /\ UNCHANGED <<issued, kind, queue>>
  BY DEF Release, Forget
<1>. QED BY <1>1, <1>2, DisposePlaces

(* A command without a slot is written, and forgotten. *)
LEMMA WrittenPlaces ==
  ASSUME TypeOK, Places, FinishedWhenGone, queued \in Ids, kind[queued] # "image", queued' = None,
         UNCHANGED <<issued, kind, queue, upload, finished, claimed, holders>>
  PROVE  Places' /\ FinishedWhenGone'
<1>1. InQueue' = InQueue /\ InQueue \subseteq Ids /\ None \notin Ids
  BY BoundsAssumption DEF InQueue, TypeOK
<1>2. Places'
  BY <1>1 DEF Places, Fresh, Reserving, Distinct, SlotKinds, UploadHolds
<1>3. \A id \in Ids : upload[id] \notin {"none", "reserving"} => id # queued
  BY DEF Places, SlotKinds
<1>4. FinishedWhenGone'
  BY <1>1, <1>3 DEF FinishedWhenGone
<1>. QED BY <1>2, <1>4

(* A command goes from the queue to the worker. *)
LEMMA TakePlaces ==
  ASSUME TypeOK, Places, FinishedWhenGone, Take, ~End
  PROVE  Places' /\ FinishedWhenGone'
<1>1. UNCHANGED <<issued, kind, upload, finished, claimed, holders>>
  BY DEF Take, slots
<1>2. queue \in Seq(Ids) /\ Inj(queue) /\ queued \notin InQueue /\ None \notin Ids
      /\ queued \in Ids \cup {None} /\ InQueue \subseteq Ids
  BY BoundsAssumption DEF TypeOK, Places, Distinct, Inj, InQueue
<1>3. /\ queued' \in Ids /\ queued' \notin InQueue' /\ Inj(queue')
      /\ InQueue \cup ({queued} \ {None}) = InQueue' \cup {queued'}
  <2>1. CASE queued # None
    <3>1. queue' = queue /\ queued' = queued
      BY <2>1 DEF Take
    <3>2. InQueue' = InQueue
      BY <3>1 DEF InQueue
    <3>. QED BY <1>2, <2>1, <3>1, <3>2
  <2>2. CASE queued = None
    <3>1. queue # <<>> /\ queue' = Tail(queue) /\ queued' = Head(queue)
      BY <2>2 DEF Take
    <3>2. InQueue = InQueue' \cup {queued'} /\ queued' \notin InQueue' /\ Inj(queue')
      BY <1>2, <3>1, TailFacts DEF InQueue, Rng
    <3>. QED BY <1>2, <2>2, <3>1, <3>2, QueueTypes
  <2>. QED BY <2>1, <2>2
<1>4. InQueue' \subseteq Ids
  BY <1>2, <1>3
<1>5. Fresh'
  BY <1>1, <1>2, <1>3 DEF Places, Fresh
<1>6. Reserving'
  BY <1>1, <1>2, <1>3 DEF Places, Reserving
<1>7. Distinct'
  BY <1>3 DEF Distinct, Inj
<1>8. SlotKinds' /\ UploadHolds'
  BY <1>1 DEF Places, SlotKinds, UploadHolds
<1>9. FinishedWhenGone'
  <2>1. \A id \in Ids : id \in InQueue \cup {queued} <=> id \in InQueue' \cup {queued'}
    BY <1>2, <1>3
  <2>. QED BY <1>1, <2>1 DEF FinishedWhenGone
<1>. QED BY <1>5, <1>6, <1>7, <1>8, <1>9 DEF Places

(* Every step keeps commands and slots in their places. *)
LEMMA PlacesStep == IInv /\ [Next]_vars => Places' /\ FinishedWhenGone'
<1>. SUFFICES ASSUME IInv, [Next]_vars PROVE Places' /\ FinishedWhenGone'
  OBVIOUS
<1>0. TypeOK /\ Places /\ Hands /\ FinishedWhenGone
  BY DEF IInv
<1>1. CASE UNCHANGED vars
  BY <1>0, <1>1, QuietPlaces DEF vars, slots, held
<1>2. CASE WakeOwed \/ Disconnect \/ CheckLiveness \/ PeerSends
  BY <1>0, <1>2, QuietPlaces
  DEF WakeOwed, Disconnect, CheckLiveness, PeerSends, slots, held
<1>3. CASE Send
  BY <1>0, <1>3, SendPlaces
<1>4. ASSUME NEW claim \in Claims, Reserve(claim) PROVE Places' /\ FinishedWhenGone'
  BY <1>0, <1>4, ReservePlaces
<1>5. ASSUME NEW id \in Ids, QueueSlot(id) PROVE Places' /\ FinishedWhenGone'
  BY <1>0, <1>5, QueueSlotPlaces
<1>6. ASSUME NEW id \in Ids, NEW claim \in BOOLEAN, BeginPublish(id, claim)
      PROVE  Places' /\ FinishedWhenGone'
  <2>1. /\ upload[id] = "held" /\ upload' = [upload EXCEPT ![id] = "encoding"]
        /\ UNCHANGED <<issued, kind, queue, queued, finished, holders>>
    BY <1>6 DEF BeginPublish, held
  <2>2. \A i \in Ids : i # id => claimed'[i] = claimed[i]
    BY <1>0, <1>6 DEF BeginPublish, TypeOK
  <2>3. "upload" \in holders'[id]
    BY <1>0, <2>1 DEF Places, UploadHolds
  <2>. QED BY <1>0, <2>1, <2>2, <2>3, UploadPlaces
<1>7. ASSUME NEW id \in Ids, Publish(id) \/ Abandon(id) \/ WakeOnDrop(id)
      PROVE  Places' /\ FinishedWhenGone'
  <2>1. /\ upload[id] \in {"held", "encoding", "dropping"}
        /\ \/ upload' = [upload EXCEPT ![id] = "dropping"]
           \/ upload' = [upload EXCEPT ![id] = "woken"]
        /\ UNCHANGED <<issued, kind, queue, queued, finished, claimed, holders>>
    BY <1>7 DEF Publish, Abandon, WakeOnDrop, held
  <2>2. "upload" \in holders'[id]
    BY <1>0, <2>1 DEF Places, UploadHolds
  <2>. QED BY <1>0, <2>1, <2>2, UploadPlaces
<1>8. ASSUME NEW id \in Ids, DropUpload(id) PROVE Places' /\ FinishedWhenGone'
  <2>1. /\ upload[id] = "woken" /\ upload' = [upload EXCEPT ![id] = "gone"]
        /\ UNCHANGED <<issued, kind, queue, queued, finished, claimed>>
    BY <1>8 DEF DropUpload, held
  <2>2. \A i \in Ids : i # id => holders'[i] = holders[i]
    BY <1>0, <1>8 DEF DropUpload, TypeOK
  <2>. QED BY <1>0, <2>1, <2>2, UploadPlaces
<1>9. ASSUME NEW id \in Ids, Cancel(id) PROVE Places' /\ FinishedWhenGone'
  BY <1>0, <1>9, QuietPlaces DEF Cancel, held
<1>10. CASE End
  BY <1>0, <1>10, EndPlaces
<1>11. ASSUME NEW next, Goto(next) PROVE Places' /\ FinishedWhenGone'
  BY <1>0, <1>11, QuietPlaces DEF Goto, slots, held
<1>12. CASE Top \/ TakeNothing \/ Fenced \/ AwaitLease \/ Continue \/ ImagePreparing
  BY <1>10, <1>11, <1>12 DEF Top, TakeNothing, Fenced, AwaitLease, Continue, ImagePreparing
<1>13. CASE Probe \/ Plan \/ Peek \/ PeekDrain \/ Drain \/ Read \/ (Resend /\ ~End)
  BY <1>0, <1>13, QuietPlaces DEF Probe, Plan, Peek, PeekDrain, Drain, Read, Resend, slots, held
<1>14. CASE Poll \/ Room \/ Deadline
  BY <1>0, <1>14, QuietPlaces DEF Poll, Room, Deadline, Returns, slots, held
<1>15. CASE Take /\ ~End
  BY <1>0, <1>15, TakePlaces
<1>16. CASE Reject
  BY <1>0, <1>16, DisposePlaces DEF Reject, Forget, Hands
<1>17. CASE Write
  <2>1. queued \in Ids /\ kind[queued] # "image"
    BY <1>0, <1>17 DEF Write, Hands
  <2>. QED BY <1>0, <1>17, <2>1, WrittenPlaces DEF Write, Forget, slots
<1>18. CASE WriteInput
  <2>1. queued \in Ids /\ kind[queued] # "image"
    BY <1>0, <1>18 DEF WriteInput, Hands
  <2>2. CASE Forget
    BY <1>0, <1>18, <2>1, <2>2, WrittenPlaces DEF WriteInput, Forget, slots
  <2>3. CASE ~Forget
    BY <1>0, <1>18, <2>3, QuietPlaces DEF WriteInput, slots
  <2>. QED BY <2>2, <2>3
<1>19. CASE (ImageCancelled \/ ImageSkipped \/ ImageWrites) /\ ~End
  <2>1. pc = "image"
    BY <1>19 DEF ImageCancelled, ImageSkipped, ImageWrites
  <2>2. CASE Release("take") \/ Release("plan")
    BY <1>0, <2>1, <2>2, ReleasePlaces
  <2>3. CASE ~Release("take") /\ ~Release("plan")
    <3>1. UNCHANGED <<issued, kind, queue, queued, upload, finished, claimed, holders>>
      BY <1>19, <2>3 DEF ImageCancelled, ImageSkipped, ImageWrites, slots
    <3>. QED BY <1>0, <3>1, QuietPlaces
  <2>. QED BY <2>2, <2>3
<1>. QED BY <1>1, <1>2, <1>3, <1>4, <1>5, <1>6, <1>7, <1>8, <1>9, <1>10, <1>12, <1>13, <1>14,
            <1>15, <1>16, <1>17, <1>18, <1>19
         DEF Next, Owner, Worker, Lose

(* Every step leaves the worker with the right kind of command in hand. *)
LEMMA HandsStep == IInv /\ [Next]_vars => Hands'
<1>. SUFFICES ASSUME IInv, [Next]_vars PROVE Hands'
  OBVIOUS
<1>0. TypeOK /\ Hands
  BY DEF IInv
<1>1. ASSUME UNCHANGED <<pc, queued, round, kind>> PROVE Hands'
  BY <1>0, <1>1 DEF Hands
<1>2. CASE UNCHANGED vars \/ Owner \/ WakeOwed \/ (\E id \in Ids : WakeOnDrop(id)) \/ PeerSends
  BY <1>1, <1>2
  DEF vars, Owner, Send, Disconnect, CheckLiveness, Reserve, QueueSlot, Publish, Abandon, DropUpload,
      Cancel, BeginPublish, WakeOwed, WakeOnDrop, PeerSends, held
<1>3. ASSUME pc' \notin {"hand", "peekdrain", "input", "image"} PROVE Hands'
  BY <1>3 DEF Hands
<1>4. CASE End
  BY <1>3, <1>4 DEF End
<1>5. CASE (Top \/ Resend) /\ ~End
  BY <1>3, <1>5 DEF Top, Resend, Goto
<1>6. CASE Take /\ ~End
  <2>1. queued' \in Ids
    BY <1>0, <1>6, QueueTypes DEF Take, TypeOK
  <2>. QED BY <1>6, <2>1 DEF Take, Hands
<1>7. CASE Peek
  BY <1>0, <1>7 DEF Peek, Permits, Hands, held
<1>8. CASE PeekDrain
  BY <1>0, <1>8 DEF PeekDrain, Hands, held
<1>9. CASE Continue
  BY <1>0, <1>9 DEF Continue, Goto, Hands, held
<1>10. CASE Probe \/ TakeNothing \/ Fenced \/ AwaitLease \/ ImagePreparing \/ Plan \/ Drain \/ Read
  BY <1>3, <1>10 DEF Probe, TakeNothing, Fenced, AwaitLease, ImagePreparing, Plan, Drain, Read, Goto
<1>11. CASE Poll \/ Room \/ Deadline
  BY <1>3, <1>11 DEF Poll, Room, Deadline, Returns
<1>12. CASE Reject \/ Write \/ WriteInput
  BY <1>3, <1>12 DEF Reject, Write, WriteInput
<1>13. CASE (ImageCancelled \/ ImageSkipped \/ ImageWrites) /\ ~End
  BY <1>3, <1>13 DEF ImageCancelled, ImageSkipped, ImageWrites, Release
<1>. QED BY <1>2, <1>4, <1>5, <1>6, <1>7, <1>8, <1>9, <1>10, <1>11, <1>12, <1>13
         DEF Next, Worker, Lose

-----------------------------------------------------------------------------
(* The image lease *)

Lease == LeaseUnique /\ LeaseFlag

(* Slots let go of their leases. *)
LEMMA DropLease ==
  ASSUME TypeOK, Lease, NEW S \in SUBSET Ids, DropSlots(S)
  PROVE  Lease'
<1>1. /\ claimed' = claimed
      /\ \A id \in Ids : holders'[id] = IF id \in S THEN holders[id] \ {"slot"} ELSE holders[id]
      /\ busy' <=> busy /\ ~\E id \in S : claimed[id] /\ holders[id] = {"slot"}
  BY DEF DropSlots, BusyAfter
<1>2. ASSUME NEW id \in Ids
      PROVE  Live(id)' <=> Live(id) /\ ~(id \in S /\ holders[id] = {"slot"})
  <2>1. holders[id] \in SUBSET {"upload", "slot"}
    BY DEF TypeOK
  <2>. QED BY <1>1, <2>1 DEF Live
<1>3. LeaseUnique'
  BY <1>2 DEF Lease, LeaseUnique
<1>4. LeaseFlag'
  <2>1. CASE \E id \in S : claimed[id] /\ holders[id] = {"slot"}
    <3>1. PICK id \in S : claimed[id] /\ holders[id] = {"slot"}
      BY <2>1
    <3>2. Live(id)
      BY <3>1 DEF Live
    <3>3. \A i \in Ids : ~Live(i)'
      BY <1>2, <3>1, <3>2 DEF Lease, LeaseUnique
    <3>4. ~busy'
      BY <1>1, <3>1
    <3>. QED BY <3>3, <3>4 DEF LeaseFlag
  <2>2. CASE ~\E id \in S : claimed[id] /\ holders[id] = {"slot"}
    <3>1. \A i \in Ids : Live(i)' <=> Live(i)
      BY <1>2, <2>2 DEF Live
    <3>2. busy' <=> busy
      BY <1>1, <2>2
    <3>. QED BY <3>1, <3>2 DEF Lease, LeaseFlag
  <2>. QED BY <2>1, <2>2
<1>. QED BY <1>3, <1>4 DEF Lease

(* A lease is claimed: it was already held, or the flag was clear. *)
LEMMA ClaimLease ==
  ASSUME Lease, NEW id \in Ids, NEW claim \in BOOLEAN,
         claim => MayClaim(id),
         claimed[id] => Live(id),
         Live(id)' <=> claimed[id] \/ claim,
         \A i \in Ids : i # id => (Live(i)' <=> Live(i)),
         busy' <=> busy \/ claim
  PROVE  Lease'
<1>1. CASE ~claim
  BY <1>1 DEF Lease, LeaseUnique, LeaseFlag, Live
<1>2. CASE claim /\ claimed[id]
  BY <1>2 DEF Lease, LeaseUnique, LeaseFlag
<1>3. CASE claim /\ ~claimed[id]
  <2>1. ~busy
    BY <1>3 DEF MayClaim
  <2>2. \A i \in Ids : ~Live(i)
    BY <2>1 DEF Lease, LeaseFlag
  <2>. QED BY <1>3, <2>2 DEF Lease, LeaseUnique, LeaseFlag
<1>. QED BY <1>1, <1>2, <1>3

(* Every step keeps one lease at most, and its flag with it. *)
LEMMA LeaseStep == IInv /\ [Next]_vars => Lease'
<1>. SUFFICES ASSUME IInv, [Next]_vars PROVE Lease'
  OBVIOUS
<1>0. TypeOK /\ Places /\ Hands /\ Lease
  BY DEF IInv, Lease
<1>1. ASSUME UNCHANGED <<claimed, holders, busy>> PROVE Lease'
  BY <1>0, <1>1 DEF Lease, LeaseUnique, LeaseFlag, Live
<1>2. ASSUME NEW claim \in Claims, Reserve(claim) PROVE Lease'
  <2>0. PICK id \in Ids : id = issued + 1
    BY <1>0, <1>2, BoundsAssumption DEF TypeOK, Reserve, Ids
  <2>1. id > issued /\ claim \in BOOLEAN
    BY <1>0, <1>2, <2>0, BoundsAssumption DEF TypeOK
  <2>2. ~claimed[id] /\ holders[id] = {}
    BY <1>0, <2>1 DEF Places, Fresh
  <2>3. /\ claimed'[id] = claim /\ holders'[id] = {"upload", "slot"}
        /\ \A i \in Ids : i # id => claimed'[i] = claimed[i] /\ holders'[i] = holders[i]
        /\ busy' = (busy \/ claim)
        /\ claim => MayClaim(id)
    BY <1>0, <1>2, <2>0 DEF TypeOK, Reserve
  <2>4. Live(id)' <=> claimed[id] \/ claim
    BY <2>2, <2>3 DEF Live
  <2>5. \A i \in Ids : i # id => (Live(i)' <=> Live(i))
    BY <2>3 DEF Live
  <2>. QED BY <1>0, <2>1, <2>2, <2>3, <2>4, <2>5, ClaimLease
<1>3. ASSUME NEW id \in Ids, NEW claim \in BOOLEAN, BeginPublish(id, claim) PROVE Lease'
  <2>1. upload[id] = "held" /\ "upload" \in holders[id]
    BY <1>0, <1>3 DEF Places, UploadHolds, BeginPublish
  <2>2. /\ claimed'[id] = (claimed[id] \/ claim) /\ holders' = holders
        /\ \A i \in Ids : i # id => claimed'[i] = claimed[i]
        /\ busy' = (busy \/ claim)
        /\ claim => MayClaim(id)
    BY <1>0, <1>3 DEF TypeOK, BeginPublish
  <2>3. claimed[id] => Live(id)
    BY <2>1 DEF Live
  <2>4. Live(id)' <=> claimed[id] \/ claim
    BY <2>1, <2>2 DEF Live
  <2>5. \A i \in Ids : i # id => (Live(i)' <=> Live(i))
    BY <2>2 DEF Live
  <2>. QED BY <1>0, <2>2, <2>3, <2>4, <2>5, ClaimLease
<1>4. ASSUME NEW id \in Ids, QueueSlot(id), ~UNCHANGED <<claimed, holders, busy>> PROVE Lease'
  <2>1. holders[id] = {"upload", "slot"}
    BY <1>0, <1>4 DEF Places, UploadHolds, QueueSlot
  <2>2. /\ claimed' = claimed /\ holders'[id] = {} /\ busy' = (busy /\ ~claimed[id])
        /\ \A i \in Ids : i # id => holders'[i] = holders[i]
    BY <1>0, <1>4 DEF QueueSlot, TypeOK
  <2>3. ~Live(id)' /\ \A i \in Ids : i # id => (Live(i)' <=> Live(i))
    BY <2>2 DEF Live
  <2>4. claimed[id] <=> Live(id)
    BY <2>1 DEF Live
  <2>. QED BY <1>0, <2>2, <2>3, <2>4 DEF Lease, LeaseUnique, LeaseFlag
<1>5. ASSUME NEW id \in Ids, DropUpload(id) PROVE Lease'
  <2>1. "upload" \in holders[id] /\ holders[id] \in SUBSET {"upload", "slot"}
    BY <1>0, <1>5 DEF Places, UploadHolds, DropUpload, TypeOK
  <2>2. /\ claimed' = claimed /\ holders'[id] = holders[id] \ {"upload"}
        /\ busy' <=> busy /\ ~(claimed[id] /\ holders[id] = {"upload"})
        /\ \A i \in Ids : i # id => holders'[i] = holders[i]
    BY <1>0, <1>5 DEF DropUpload, BusyAfter, TypeOK
  <2>3. \A i \in Ids : i # id => (Live(i)' <=> Live(i))
    BY <2>2 DEF Live
  <2>4. claimed[id] <=> Live(id)
    BY <2>1 DEF Live
  <2>5. holders[id] \ {"upload"} = {} <=> holders[id] = {"upload"}
    BY <2>1
  <2>6. Live(id)' <=> Live(id) /\ holders[id] # {"upload"}
    BY <2>2, <2>4, <2>5 DEF Live
  <2>7. LeaseUnique'
    BY <1>0, <2>3, <2>6 DEF Lease, LeaseUnique
  <2>8. CASE Live(id) /\ holders[id] = {"upload"}
    <3>1. \A i \in Ids : ~Live(i)'
      BY <1>0, <2>3, <2>6, <2>8 DEF Lease, LeaseUnique
    <3>2. ~busy'
      BY <2>2, <2>4, <2>8
    <3>. QED BY <2>7, <3>1, <3>2 DEF Lease, LeaseFlag
  <2>9. CASE ~(Live(id) /\ holders[id] = {"upload"})
    <3>1. \A i \in Ids : Live(i)' <=> Live(i)
      BY <2>3, <2>6, <2>9
    <3>2. busy' <=> busy
      BY <2>2, <2>4, <2>9
    <3>. QED BY <1>0, <2>7, <3>1, <3>2 DEF Lease, LeaseFlag
  <2>. QED BY <2>8, <2>9
<1>6. CASE End
  <2>1. Slots(InQueue \cup ({queued} \ {None})) \in SUBSET Ids
    BY <1>0 DEF TypeOK, InQueue, Slots
  <2>2. DropSlots(Slots(InQueue \cup ({queued} \ {None})))
    BY <1>6 DEF End
  <2>. QED BY <1>0, <2>1, <2>2, DropLease
<1>7. CASE pc = "image" /\ (Release("take") \/ Release("plan"))
  <2>1. {queued} \in SUBSET Ids
    BY <1>0, <1>7 DEF Hands
  <2>2. DropSlots({queued})
    BY <1>7 DEF Release
  <2>. QED BY <1>0, <2>1, <2>2, DropLease
<1>8. CASE UNCHANGED vars \/ WakeOwed \/ Send \/ Disconnect \/ CheckLiveness \/ PeerSends
  BY <1>1, <1>8 DEF vars, WakeOwed, Send, Disconnect, CheckLiveness, PeerSends, slots
<1>9. ASSUME NEW id \in Ids, Publish(id) \/ Abandon(id) \/ WakeOnDrop(id) \/ Cancel(id)
      PROVE  Lease'
  BY <1>1, <1>9 DEF Publish, Abandon, WakeOnDrop, Cancel
<1>10. CASE (Top \/ Resend \/ Take) /\ ~End
  BY <1>1, <1>10 DEF Top, Resend, Take, Goto, slots
<1>11. CASE Probe \/ TakeNothing \/ Fenced \/ AwaitLease \/ Continue \/ ImagePreparing \/ Plan
  BY <1>1, <1>11
  DEF Probe, TakeNothing, Fenced, AwaitLease, Continue, ImagePreparing, Plan, Goto, slots
<1>12. CASE Peek \/ PeekDrain \/ Write \/ WriteInput \/ Drain \/ Read
  BY <1>1, <1>12 DEF Peek, PeekDrain, Write, WriteInput, Drain, Read, slots
<1>13. CASE Poll \/ Room \/ Deadline
  BY <1>1, <1>13 DEF Poll, Room, Deadline, Returns, slots
<1>14. CASE Reject
  <2>1. Slots({queued}) \in SUBSET Ids
    BY <1>0, <1>14 DEF Reject, Hands, Slots
  <2>2. DropSlots(Slots({queued}))
    BY <1>14 DEF Reject
  <2>. QED BY <1>0, <2>1, <2>2, DropLease
<1>15. CASE ImageCancelled \/ ImageSkipped \/ ImageWrites
  <2>1. pc = "image"
    BY <1>15 DEF ImageCancelled, ImageSkipped, ImageWrites
  <2>2. CASE ~End /\ ~Release("take") /\ ~Release("plan")
    BY <1>1, <1>15, <2>2 DEF ImageCancelled, ImageSkipped, ImageWrites, slots
  <2>. QED BY <1>6, <1>7, <2>1, <2>2
<1>. QED BY <1>2, <1>3, <1>4, <1>5, <1>1, <1>6, <1>8, <1>9, <1>10, <1>11, <1>12, <1>13, <1>14,
            <1>15
         DEF Next, Owner, Worker, Lose

-----------------------------------------------------------------------------
(* Wakes *)

(* A step that leaves the pipe, the wakes owed and the uploads alone. *)
LEMMA CalmWakes ==
  ASSUME UNCHANGED <<wake, owed, upload>>
  PROVE  WakeComing' <=> WakeComing
BY DEF WakeComing

(* An operation that owes a wake. *)
LEMMA OweWakes ==
  ASSUME TypeOK, Owe
  PROVE  WakeComing'
BY BoundsAssumption DEF TypeOK, Owe, WakeComing

(* What the worker waits on, but for the uploads and the stored flags. *)
own == <<pc, round, held, zero, peeked, kind, pending, barrier, inbound>>

(* An owner's step that touches nothing the worker waits on. *)
LEMMA CalmLooked ==
  ASSUME Looked, WakeComing => WakeComing', UNCHANGED <<own, stop, liveness, queue>>,
         SlotNews' => SlotNews
  PROVE  Looked'
<1>1. (PartialOut' <=> PartialOut) /\ (ResendNow' <=> ResendNow)
  BY DEF own, held, PartialOut, ResendNow, ResendReady
<1>. QED BY <1>1 DEF Looked, own, held

(* An owner's step that ends with a wake on its way. *)
LEMMA WokenLooked ==
  ASSUME Looked, WakeComing', UNCHANGED own
  PROVE  Looked'
<1>1. ResendNow' <=> ResendNow
  BY DEF own, held, PartialOut, ResendNow, ResendReady
<1>. QED BY <1>1 DEF Looked, own, held

(* Away from the batch and the wait there is nothing to keep. *)
LEMMA AwayLooked ==
  ASSUME pc' \in {"top", "drain", "read", "ended"}
  PROVE  Looked'
BY DEF Looked, Past

(* Inside the batch only the flag was looked at. *)
LEMMA BatchLooked ==
  ASSUME Looked, pc \in Past, pc' \in {"take", "hand", "peekdrain", "input", "image"},
         UNCHANGED <<stop, wake, owed, upload, peeked>>,
         pc' = "take" => queued' = None
  PROVE  Looked'
<1>1. WakeComing' <=> WakeComing
  BY CalmWakes
<1>. QED BY <1>1 DEF Looked, Past

(* The batch ends, with nothing new of a slot. *)
LEMMA PlanLooked ==
  ASSUME Looked, pc \in Past, pc' = "plan", UNCHANGED <<stop, wake, owed, upload, peeked>>,
         ~SlotNews'
  PROVE  Looked'
<1>1. WakeComing' <=> WakeComing
  BY CalmWakes
<1>. QED BY <1>1 DEF Looked, Past

(* Every step keeps a wake coming for what the worker has already looked at. *)
LEMMA LookedStep == IInv /\ [Next]_vars => Looked'
<1>. SUFFICES ASSUME IInv, [Next]_vars PROVE Looked'
  OBVIOUS
<1>0. TypeOK /\ Places /\ Hands /\ Looked
  BY DEF IInv
<1>1. CASE UNCHANGED vars
  <2>1. SlotNews' <=> SlotNews
    BY <1>1 DEF vars, slots, held, link, SlotNews, PastFence
  <2>2. WakeComing => WakeComing'
    BY <1>1, CalmWakes DEF vars, slots
  <2>. QED BY <1>0, <1>1, <2>1, <2>2, CalmLooked DEF vars, own, flags, wait, link
<1>2. CASE WakeOwed
  <2>1. WakeComing' /\ UNCHANGED own
    BY <1>2 DEF WakeOwed, WakeComing, own, wait, link
  <2>. QED BY <1>0, <2>1, WokenLooked
<1>3. CASE Send \/ Disconnect \/ CheckLiveness
  <2>1. WakeComing' /\ UNCHANGED own
    BY <1>0, <1>3, OweWakes DEF Send, Disconnect, CheckLiveness, own, wait, link
  <2>. QED BY <1>0, <2>1, WokenLooked
<1>4. ASSUME NEW id \in Ids, Cancel(id) PROVE Looked'
  <2>1. WakeComing' /\ UNCHANGED own
    BY <1>0, <1>4, OweWakes DEF Cancel, own, wait, link
  <2>. QED BY <1>0, <2>1, WokenLooked
<1>5. ASSUME NEW id \in Ids, Publish(id) \/ Abandon(id) PROVE Looked'
  <2>1. UNCHANGED own
    BY <1>5 DEF Publish, Abandon, own, wait, link
  <2>2. upload'[id] = "dropping"
    BY <1>0, <1>5 DEF Publish, Abandon, TypeOK
  <2>. QED BY <1>0, <2>1, <2>2, WokenLooked DEF WakeComing
<1>6. ASSUME NEW id \in Ids, WakeOnDrop(id) PROVE Looked'
  <2>1. WakeComing' /\ UNCHANGED own
    BY <1>6 DEF WakeOnDrop, WakeComing, own, wait, link
  <2>. QED BY <1>0, <2>1, WokenLooked
<1>7. ASSUME NEW claim \in Claims, Reserve(claim) PROVE Looked'
  <2>0. PICK id \in Ids : id = issued + 1
    BY <1>0, <1>7, BoundsAssumption DEF TypeOK, Reserve, Ids
  <2>1. upload[id] = "none"
    BY <1>0, <2>0, BoundsAssumption DEF Places, Fresh, TypeOK, Ids
  <2>2. /\ \A i \in Ids : i # id => upload'[i] = upload[i]
        /\ UNCHANGED <<own, wake, owed, stop, liveness, queue, chan, cancelled>>
    BY <1>0, <1>7, <2>0 DEF TypeOK, Reserve, own, flags, wait, link
  <2>3. WakeComing => WakeComing'
    BY <2>1, <2>2 DEF WakeComing
  <2>4. SlotNews' => SlotNews
    BY <2>2 DEF SlotNews, PastFence, own, held
  <2>. QED BY <1>0, <2>2, <2>3, <2>4, CalmLooked
<1>8. ASSUME NEW id \in Ids, QueueSlot(id) PROVE Looked'
  <2>1. upload[id] = "reserving" /\ id # queued
    BY <1>0, <1>8 DEF Places, Reserving, QueueSlot
  <2>2. CASE pc # "ended" /\ Len(queue) < QueueCapacity
    <3>1. WakeComing' /\ UNCHANGED own
      BY <1>0, <1>8, <2>2, OweWakes DEF QueueSlot, own, wait, link
    <3>. QED BY <1>0, <3>1, WokenLooked
  <2>3. CASE ~(pc # "ended" /\ Len(queue) < QueueCapacity)
    <3>1. /\ \A i \in Ids : i # id => upload'[i] = upload[i] /\ cancelled'[i] = cancelled[i]
          /\ UNCHANGED <<own, wake, owed, stop, liveness, queue, chan>>
      BY <1>0, <1>8, <2>3 DEF QueueSlot, TypeOK, own, flags, wait, link
    <3>2. WakeComing => WakeComing'
      BY <2>1, <3>1 DEF WakeComing
    <3>3. SlotNews' => SlotNews
      <4>1. CASE queued = None
        BY <3>1, <4>1 DEF SlotNews, own, held
      <4>2. CASE queued # None
        <5>1. queued \in Ids /\ cancelled'[queued] = cancelled[queued]
          BY <1>0, <2>1, <3>1, <4>2 DEF TypeOK
        <5>. QED BY <3>1, <5>1 DEF SlotNews, PastFence, own, held
      <4>. QED BY <4>1, <4>2
    <3>. QED BY <1>0, <3>1, <3>2, <3>3, CalmLooked
  <2>. QED BY <2>2, <2>3
<1>9. ASSUME NEW id \in Ids,
             DropUpload(id) \/ (\E claim \in BOOLEAN : BeginPublish(id, claim))
      PROVE  Looked'
  <2>1. /\ upload[id] # "dropping"
        /\ \A i \in Ids : i # id => upload'[i] = upload[i]
        /\ UNCHANGED <<own, wake, owed, stop, liveness, queue, chan, cancelled>>
    BY <1>0, <1>9 DEF DropUpload, BeginPublish, TypeOK, own, flags, wait, link
  <2>2. WakeComing => WakeComing'
    BY <2>1 DEF WakeComing
  <2>3. SlotNews' => SlotNews
    BY <2>1 DEF SlotNews, PastFence, own, held
  <2>. QED BY <1>0, <2>1, <2>2, <2>3, CalmLooked
<1>10. CASE PeerSends
  <2>1. UNCHANGED <<own, wake, owed, upload, stop, liveness, queue, chan, cancelled>>
    BY <1>10 DEF PeerSends, own, flags, slots, wait
  <2>2. (SlotNews' <=> SlotNews) /\ (WakeComing => WakeComing')
    BY <2>1, CalmWakes DEF SlotNews, PastFence, own, held
  <2>. QED BY <1>0, <2>1, <2>2, CalmLooked
<1>11. CASE End
  BY <1>11, AwayLooked DEF End
<1>12. CASE Top /\ ~End
  <2>1. pc' = "probe" /\ ~stop'
    BY <1>12 DEF Top, Goto, flags
  <2>. QED BY <2>1 DEF Looked
<1>13. CASE Probe
  <2>1. /\ pc = "probe" /\ pc' = "take" /\ round' = 0
        /\ UNCHANGED <<stop, wake, owed, upload, peeked>>
    BY <1>13 DEF Probe, slots, wait
  <2>. QED BY <1>0, <2>1, CalmWakes DEF Looked, Past
<1>14. CASE Resend /\ ~End
  <2>1. /\ pc = "take" /\ pc' = "take" /\ ~stop' /\ ~pending /\ pending' /\ round' = round + 1
        /\ queued' = queued
    BY <1>14 DEF Resend, ResendNow, ResendReady, flags, held
  <2>2. queued' # None => round' = 1
    BY <1>0, <2>1 DEF Looked
  <2>. QED BY <2>1, <2>2 DEF Looked
<1>15. CASE Take /\ ~End
  <2>1. pc' = "hand" /\ ~stop'
    BY <1>15 DEF Take, flags
  <2>. QED BY <2>1 DEF Looked
<1>16. CASE TakeNothing
  <2>1. /\ pc = "take" /\ pc' = "plan" /\ (round = BatchLimit \/ queued = None)
        /\ UNCHANGED <<stop, queued, wake, owed, upload, peeked>>
    BY <1>16 DEF TakeNothing, Goto, flags, slots, held, wait
  <2>2. queued = None
    BY <1>0, <2>1, BoundsAssumption DEF Looked
  <2>3. ~SlotNews'
    BY <2>1, <2>2 DEF SlotNews
  <2>. QED BY <1>0, <2>1, <2>3, PlanLooked DEF Past
<1>17. CASE Fenced \/ AwaitLease
  <2>1. /\ pc = "hand" /\ pc' = "plan" /\ (~PastFence \/ kind[queued] = "request")
        /\ UNCHANGED <<stop, queued, partial, kind, inbound, wake, owed, upload, peeked>>
    BY <1>17 DEF Fenced, AwaitLease, Goto, flags, slots, held, wait, link
  <2>2. ~SlotNews'
    BY <2>1 DEF SlotNews, PastFence
  <2>. QED BY <1>0, <2>1, <2>2, PlanLooked DEF Past
<1>18. CASE Peek
  <2>1. /\ pc = "hand" /\ pc' \in {"peekdrain", "plan", "input"} /\ kind[queued] = "input"
        /\ UNCHANGED <<stop, queued, kind, wake, owed, upload, peeked>>
    BY <1>18 DEF Peek, Permits, flags, slots, held
  <2>2. ~SlotNews'
    BY <2>1 DEF SlotNews
  <2>. QED BY <1>0, <2>1, <2>2, PlanLooked, BatchLooked DEF Past
<1>19. CASE PeekDrain
  <2>1. pc' \in {"plan", "input"} /\ kind[queued] # "image" /\ peeked' /\ UNCHANGED <<queued, kind>>
    BY <1>0, <1>19 DEF PeekDrain, Hands, held
  <2>2. ~SlotNews'
    BY <2>1 DEF SlotNews
  <2>. QED BY <2>1, <2>2 DEF Looked
<1>20. CASE Continue
  <2>1. pc = "hand" /\ pc' \in {"image", "input"} /\ UNCHANGED <<stop, wake, owed, upload, peeked>>
    BY <1>20 DEF Continue, Goto, flags, slots, wait
  <2>. QED BY <1>0, <2>1, BatchLooked DEF Past
<1>21. CASE Reject \/ Write
  <2>1. /\ pc = "hand" /\ pc' = "take" /\ queued' = None
        /\ UNCHANGED <<stop, wake, owed, upload, peeked>>
    BY <1>21 DEF Reject, Write, DropSlots, Forget, flags, slots, wait
  <2>. QED BY <1>0, <2>1, BatchLooked DEF Past
<1>22. CASE WriteInput
  <2>1. /\ pc = "input" /\ kind[queued] # "image"
        /\ UNCHANGED <<kind, stop, wake, owed, upload, peeked>>
    BY <1>0, <1>22 DEF WriteInput, Hands, flags, slots, wait
  <2>2. CASE pc' = "take"
    <3>1. queued' = None
      BY <1>22, <2>2 DEF WriteInput, Forget
    <3>. QED BY <1>0, <2>1, <2>2, <3>1, BatchLooked DEF Past
  <2>3. CASE pc' = "plan"
    <3>1. queued' = queued
      BY <1>22, <2>3 DEF WriteInput
    <3>2. ~SlotNews'
      BY <2>1, <3>1 DEF SlotNews
    <3>. QED BY <1>0, <2>1, <2>3, <3>2, PlanLooked DEF Past
  <2>. QED BY <1>22, <2>2, <2>3 DEF WriteInput
<1>23. CASE (ImageCancelled \/ ImageSkipped \/ ImagePreparing \/ ImageWrites) /\ ~End
  <2>1. CASE Release("take") \/ Release("plan")
    <3>1. /\ pc = "image" /\ pc' \in {"take", "plan"} /\ queued' = None
          /\ UNCHANGED <<stop, wake, owed, upload, peeked>>
      BY <1>23, <2>1
      DEF ImageCancelled, ImageSkipped, ImagePreparing, ImageWrites, Release, DropSlots, Forget,
          flags, wait
    <3>2. ~SlotNews'
      BY <3>1 DEF SlotNews
    <3>. QED BY <1>0, <3>1, <3>2, BatchLooked, PlanLooked DEF Past
  <2>2. CASE ImagePreparing
    <3>1. pc = "image" /\ pc' = "plan" /\ UNCHANGED <<stop, wake, owed, upload, peeked>>
      BY <2>2 DEF ImagePreparing, Goto, flags, slots, wait
    <3>2. ~SlotNews'
      BY <2>2 DEF ImagePreparing, Goto, SlotNews, slots, held
    <3>. QED BY <1>0, <3>1, <3>2, PlanLooked DEF Past
  <2>3. CASE ImageWrites /\ ~Release("plan")
    <3>1. pc = "image" /\ pc' = "plan" /\ UNCHANGED <<stop, wake, owed, upload, peeked>>
      BY <2>3 DEF ImageWrites, flags, slots, wait
    <3>2. ~SlotNews'
      BY <2>3 DEF ImageWrites, SlotNews, slots
    <3>. QED BY <1>0, <3>1, <3>2, PlanLooked DEF Past
  <2>. QED BY <1>23, <2>1, <2>2, <2>3 DEF ImageCancelled, ImageSkipped
<1>24. CASE Plan
  <2>1. /\ pc = "plan" /\ pc' = "poll" /\ (zero' <=> ZeroTimeout)
        /\ UNCHANGED <<stop, liveness, queue, held, kind, pending, barrier, inbound, chan, cancelled,
                       wake, owed, upload, peeked>>
    BY <1>24 DEF Plan, flags, slots, link
  <2>2. /\ SlotNews' <=> SlotNews
        /\ WakeComing' <=> WakeComing
        /\ PartialOut' <=> PartialOut
        /\ ResendNow' <=> ResendNow
    BY <2>1, CalmWakes DEF SlotNews, PastFence, PartialOut, ResendNow, ResendReady, held
  <2>3. ~zero' => /\ ~(queued = None /\ queue # <<>>)
                  /\ ~(Remote /\ liveness /\ ~PartialOut) /\ ~ResendNow
    BY <2>1 DEF ZeroTimeout, ResendNow
  <2>. QED BY <1>0, <2>1, <2>2, <2>3 DEF Looked, Past, held
<1>25. CASE Poll \/ Room \/ Deadline \/ Drain \/ Read
  BY <1>25, AwayLooked DEF Poll, Room, Deadline, Returns, Drain, Read
<1>. QED BY <1>1, <1>2, <1>3, <1>4, <1>5, <1>6, <1>7, <1>8, <1>9, <1>10, <1>11, <1>12, <1>13,
            <1>14, <1>15, <1>16, <1>17, <1>18, <1>19, <1>20, <1>21, <1>22, <1>23, <1>24, <1>25
         DEF Next, Owner, Worker, Lose

-----------------------------------------------------------------------------
(* The invariant holds of every behaviour. *)
THEOREM Invariance == Spec => []IInv
<1>1. IInv /\ [Next]_vars => IInv'
  BY TypeStep, PlacesStep, HandsStep, LeaseStep, LookedStep DEF IInv, Lease
<1>. QED BY <1>1, InitIInv, PTL DEF Spec

(* TypeOK, for every number of commands and every capacity: the queue stays  *)
(* within COMMAND_CAPACITY and the batch within its limit.                   *)
THEOREM TypeCorrect == Spec => []TypeOK
<1>1. IInv => TypeOK
  BY DEF IInv
<1>. QED BY <1>1, Invariance, PTL

(* The worker never blocks on something it could act on, a refused           *)
(* activation's resend included, without a wake in the pipe or on its way;   *)
(* and on a stop only if the poll inside its batch took the stop's wake      *)
(* (queue.rs, the two polls of run_connection).                              *)
THEOREM WakesAreNotLost == Spec => []NoLostWake
<1>1. IInv => NoLostWake
  BY DEF IInv, Looked, Past, NoLostWake, Blocked, Noticeable, SlotNews
<1>. QED BY <1>1, Invariance, PTL

(* At most one image lease is alive, and the connection's flag says so       *)
(* exactly (claim_image, Drop for ImageLease).                               *)
THEOREM LeaseIsUnique == Spec => []OneImageLease
<1>1. IInv => OneImageLease
  <2>. SUFFICES ASSUME IInv PROVE OneImageLease
    OBVIOUS
  <2>. DEFINE live == {id \in Ids : claimed[id] /\ holders[id] # {}}
  <2>1. CASE live = {}
    BY <2>1, FS_EmptySet DEF IInv, LeaseFlag, Live, OneImageLease
  <2>2. CASE live # {}
    <3>1. PICK id \in Ids : id \in live
      BY <2>2
    <3>2. live = {id}
      BY <3>1 DEF IInv, LeaseUnique, Live
    <3>3. Cardinality(live) = 1
      BY <3>2, FS_Singleton
    <3>. QED BY <3>1, <3>3 DEF IInv, LeaseFlag, Live, OneImageLease
  <2>. QED BY <2>1, <2>2
<1>. QED BY <1>1, Invariance, PTL

(* A slot is marked finished exactly when the worker can no longer send it   *)
(* (Drop for ImageSlot).                                                     *)
THEOREM FinishedIsExact == Spec => []FinishedWhenGone
<1>1. IInv => FinishedWhenGone
  BY DEF IInv
<1>. QED BY <1>1, Invariance, PTL
====
