----------------------- MODULE SurfaceProjectionProofs -----------------------
(***************************************************************************)
(* Proofs about SurfaceProjection for every set of boots, revisions, keys   *)
(* and sizes and every limit: type correctness, the exact baseline, the     *)
(* emitted surface keeping its pixels, and the emission fence.              *)
(***************************************************************************)
EXTENDS SurfaceProjection, SetSums

(* What the worker-side properties rest on.  The scene the store last       *)
(* received is the baseline's; what was emitted is no newer than the        *)
(* baseline and not ahead of the snapshot; and a baseline that was already  *)
(* emitted has its revision behind it, so no later snapshot releases it     *)
(* again.                                                                   *)
Scene ==
  /\ surface # None => latest = surface.refs
  /\ sent.pixels \subseteq shown

Fence ==
  /\ snapshot # None => sent.rev = snapshot.rev
  /\ sent.surface # None =>
       /\ surface # None
       /\ snapshot # None
       /\ sent.surface.srev <= surface.srev
       /\ sent.surface.srev = surface.srev => surface.proj <= snapshot.rev

IInv == TypeOK /\ BaselineExact /\ EmittedPixelsKept /\ Scene /\ Fence

-----------------------------------------------------------------------------
(* Show keeps the store within the keys, keeps exactly the latest scene.    *)
LEMMA ShowEffect ==
  ASSUME Show, images \subseteq latest \cup shown
  PROVE  /\ shown' = latest
         /\ latest' = latest
         /\ images' = images \cap latest
BY DEF Show, Pruned

(* Publishing events leaves a sequence of events. *)
LEMMA PublishType ==
  ASSUME NEW before, NEW after \in SUBSET Keys, NEW events \in Seq(Events)
  PROVE  Publish(before, after, events) \in Seq(Events)
<1>1. ImagesEvent(after) \in Events
  BY DEF ImagesEvent, Events
<1>2. ImagesIfChanged(before, after) \in Seq(Events)
  BY <1>1 DEF ImagesIfChanged
<1>. QED BY <1>2 DEF Publish

(* A surface event carries only keys. *)
LEMMA SurfaceEventType ==
  ASSUME NEW s \in Surfaces, NEW held \in SUBSET Keys
  PROVE  <<SurfaceEvent(s, held)>> \in Seq(Events)
<1>1. s.refs \cap held \in SUBSET Keys
  BY DEF Surfaces
<1>2. SurfaceEvent(s, held) \in Events
  BY <1>1 DEF SurfaceEvent, Events
<1>. QED BY <1>2

(* The events without a payload are events. *)
LEMMA PlainEventType ==
  ASSUME NEW what \in {"connected", "message", "mismatch", "disconnected"}
  PROVE  /\ PlainEvent(what) \in Events
         /\ <<PlainEvent(what)>> \in Seq(Events)
<1>1. PlainEvent(what) \in Events
  BY DEF PlainEvent, Events
<1>. QED BY <1>1

(* Taking an event keeps the consumer's view well typed. *)
LEMMA AppliedType ==
  ASSUME NEW e \in Events, NEW v \in Views
  PROVE  Applied(e, v) \in Views
BY DEF Applied, Events, Views

-----------------------------------------------------------------------------
(* A fresh connection satisfies the invariant. *)
LEMMA InitIInv == Init => IInv
BY ConstantsAssumption DEF Init, IInv, TypeOK, BaselineExact, EmittedPixelsKept, Scene, Fence,
   EmptyView, Views

(* An error leaves the worker's state alone. *)
LEMMA FailIInv ==
  ASSUME IInv, Fail
  PROVE  IInv'
<1>1. PlainEvent("mismatch") \in Events /\ PlainEvent("disconnected") \in Events
  BY PlainEventType
<1>2. <<PlainEvent("mismatch"), PlainEvent("disconnected")>> \in Seq(Events)
  BY <1>1
<1>3. outbox' \in Seq(Events)
  BY <1>2, PlainEventType DEF Fail
<1>. QED
  BY <1>3 DEF Fail, store, IInv, TypeOK, BaselineExact, EmittedPixelsKept, Scene, Fence

(* A snapshot, with or without the surface it releases. *)
LEMMA SnapshotIInv ==
  ASSUME IInv, NEW next \in [boot : Boots \cup {EmptyBoot}, rev : Revs],
         SnapshotAccepted(next), TakeSnapshot(next)
  PROVE  IInv'
<1>1. next \in Snapshots /\ next # None
  BY ConstantsAssumption DEF SnapshotAccepted, Snapshots
<1>2. <<SnapshotEvent(next)>> \in Seq(Events)
  <2>1. SnapshotEvent(next) \in Events
    BY <1>1 DEF SnapshotEvent, Events, Snapshots
  <2>. QED BY <2>1
<1>3. CASE RevisionChanged(next) /\ surface # None /\ surface.proj = next.rev
  <2>1. shown' = latest /\ latest' = latest /\ images' = images \cap latest
    BY <1>3, ShowEffect DEF TakeSnapshot, IInv, EmittedPixelsKept
  <2>2. surface \in Surfaces
    BY <1>3 DEF IInv, TypeOK
  <2>3. images' \in SUBSET Keys
    BY <2>1 DEF IInv, TypeOK
  <2>4. outbox' \in Seq(Events)
    <3>1. <<SurfaceEvent(surface, images')>> \in Seq(Events)
      BY <2>2, <2>3, SurfaceEventType
    <3>2. Publish(images, images', <<SurfaceEvent(surface, images')>>) \in Seq(Events)
      BY <2>3, <3>1, PublishType
    <3>3. outbox' = <<SnapshotEvent(next)>>
                      \o Publish(images, images', <<SurfaceEvent(surface, images')>>)
      BY <1>3 DEF TakeSnapshot
    <3>. QED BY <1>2, <3>2, <3>3
  <2>5. sent' = [rev |-> next.rev, surface |-> surface,
                 pixels |-> surface.refs \cap images', images |-> images']
    BY <1>3 DEF TakeSnapshot
  <2>6. sent' \in Views
    BY <2>2, <2>3, <2>5, <1>1 DEF Views, Snapshots
  <2>7. TypeOK'
    BY <1>1, <2>1, <2>3, <2>4, <2>6 DEF TakeSnapshot, IInv, TypeOK
  <2>8. BaselineExact'
    BY <1>1 DEF TakeSnapshot, IInv, BaselineExact, SnapshotAccepted
  <2>9. EmittedPixelsKept' /\ Scene'
    BY <1>3, <2>1, <2>5 DEF TakeSnapshot, IInv, EmittedPixelsKept, Scene
  <2>10. Fence'
    BY <1>1, <1>3, <2>2, <2>5, ConstantsAssumption
    DEF TakeSnapshot, IInv, Fence, Surfaces, Snapshots
  <2>. QED BY <2>7, <2>8, <2>9, <2>10 DEF IInv
<1>4. CASE ~(RevisionChanged(next) /\ surface # None /\ surface.proj = next.rev)
  <2>1. sent' = [sent EXCEPT !.rev = next.rev] /\ UNCHANGED <<images, latest, shown, surface>>
    BY <1>4 DEF TakeSnapshot, store
  <2>2. sent' \in Views /\ sent'.rev = next.rev /\ sent'.surface = sent.surface
          /\ sent'.pixels = sent.pixels /\ sent'.images = sent.images
    BY <2>1, <1>1 DEF Views, Snapshots, IInv, TypeOK
  <2>3. TypeOK'
    BY <1>1, <1>2, <1>4, <2>1, <2>2 DEF TakeSnapshot, IInv, TypeOK
  <2>4. BaselineExact'
    BY <1>1, <2>1 DEF TakeSnapshot, IInv, BaselineExact, SnapshotAccepted
  <2>5. EmittedPixelsKept' /\ Scene'
    BY <2>1, <2>2 DEF IInv, EmittedPixelsKept, Scene
  <2>6. Fence'
    <3>1. snapshot' = next /\ (snapshot # None => next.rev >= snapshot.rev)
      BY DEF TakeSnapshot, SnapshotAccepted
    <3>2. next.rev \in Nat /\ (snapshot # None => snapshot.rev \in Nat)
            /\ (surface # None => surface.proj \in Nat)
      BY <1>1, ConstantsAssumption DEF IInv, TypeOK, Snapshots, Surfaces
    <3>. QED BY <1>1, <2>1, <2>2, <3>1, <3>2 DEF IInv, Fence
  <2>. QED BY <2>3, <2>4, <2>5, <2>6 DEF IInv
<1>. QED BY <1>3, <1>4

(* accept_surface, for every encoding that expands into it. *)
LEMMA AcceptIInv ==
  ASSUME IInv, NEW next \in Surfaces, NEW assets \in SUBSET Keys,
         SurfaceAccepted(next.boot, next.srev),
         next.cells = <<next.boot, next.srev>>,
         AcceptSurface(next, assets)
  PROVE  IInv'
<1>. DEFINE kept == Pruned(images, next.refs, shown)
            used == bytes - Bytes(images \ kept)
            shows == Current(next.proj)
<1>1. PICK added \in Admissions(kept, used, assets \cap next.refs) :
        /\ latest' = next.refs
        /\ shown' = IF shows THEN next.refs ELSE shown
        /\ images' = Pruned(kept \cup added, latest', shown')
        /\ surface' = next
        /\ outbox' = Publish(images, images',
                             IF shows THEN <<SurfaceEvent(next, images')>> ELSE <<>>)
        /\ sent' = [sent EXCEPT !.images = images',
                                !.surface = IF shows THEN next ELSE @,
                                !.pixels = IF shows THEN next.refs \cap images' ELSE @]
        /\ UNCHANGED <<phase, encodings, snapshot, channel, view>>
  BY DEF AcceptSurface
<1>2. added \subseteq next.refs /\ next.refs \subseteq Keys
  BY DEF Admissions, Surfaces
<1>3. images' \subseteq Keys /\ latest' \subseteq Keys /\ shown' \subseteq Keys
  BY <1>1, <1>2 DEF Pruned, IInv, TypeOK
<1>4. outbox' \in Seq(Events)
  <2>1. <<SurfaceEvent(next, images')>> \in Seq(Events) /\ <<>> \in Seq(Events)
    BY <1>3, SurfaceEventType
  <2>2. (IF shows THEN <<SurfaceEvent(next, images')>> ELSE <<>>) \in Seq(Events)
    BY <2>1
  <2>. QED BY <1>1, <1>3, <2>2, PublishType
<1>5. sent' \in Views /\ sent'.rev = sent.rev /\ sent'.images = images'
        /\ sent'.surface = (IF shows THEN next ELSE sent.surface)
        /\ sent'.pixels = (IF shows THEN next.refs \cap images' ELSE sent.pixels)
  BY <1>1, <1>3 DEF Views, IInv, TypeOK
<1>6. TypeOK'
  BY <1>1, <1>3, <1>4, <1>5 DEF IInv, TypeOK
<1>7. snapshot # None /\ next.boot = snapshot.boot /\ next # None
        /\ (surface # None => next.srev > surface.srev)
  BY ConstantsAssumption DEF SurfaceAccepted
<1>8. BaselineExact'
  BY <1>1, <1>7 DEF BaselineExact
<1>9. EmittedPixelsKept' /\ Scene'
  BY <1>1, <1>2, <1>5 DEF Pruned, IInv, EmittedPixelsKept, Scene
<1>10. Fence'
  <2>1. /\ next.srev \in Nat /\ next.proj \in Nat
        /\ (surface # None => surface.srev \in Nat)
        /\ (sent.surface # None => sent.surface.srev \in Nat)
        /\ snapshot.rev \in Nat
    BY <1>7, ConstantsAssumption DEF IInv, TypeOK, Views, Surfaces, Snapshots
  <2>2. CASE shows
    BY <1>1, <1>5, <1>7, <2>1, <2>2 DEF IInv, Fence, Current
  <2>3. CASE ~shows
    BY <1>1, <1>5, <1>7, <2>1, <2>3 DEF IInv, Fence
  <2>. QED BY <2>2, <2>3
<1>. QED BY <1>6, <1>8, <1>9, <1>10 DEF IInv

(* apply_patch and apply_scroll_patch, then emit_patched. *)
LEMMA PatchIInv ==
  ASSUME IInv, NEW boot \in Boots, NEW proj \in Revs, NEW base \in SurfaceRevs,
         NEW srev \in SurfaceRevs, PatchApplies(boot, proj, base, srev),
         EmitPatched(boot, base, srev)
  PROVE  IInv'
<1>. DEFINE next == [surface EXCEPT !.srev = srev, !.cells = Rewritten(boot, base, srev)]
<1>1. surface \in Surfaces /\ surface # None
  BY DEF PatchApplies, IInv, TypeOK
<1>2. Rewritten(boot, base, srev) = <<boot, srev>> /\ <<boot, srev>> \in Contents
  BY <1>1 DEF Rewritten, PatchApplies, IInv, BaselineExact, Contents
<1>3. /\ next \in Surfaces /\ next # None
      /\ next.boot = surface.boot /\ next.proj = surface.proj /\ next.refs = surface.refs
      /\ next.srev = surface.srev + 1 /\ next.cells = <<next.boot, next.srev>>
  BY <1>1, <1>2, ConstantsAssumption DEF Surfaces, PatchApplies
<1>4. surface' = next /\ UNCHANGED <<phase, encodings, snapshot, channel, view>>
  BY DEF EmitPatched
<1>5. BaselineExact'
  BY <1>1, <1>3, <1>4 DEF IInv, BaselineExact
<1>. HIDE DEF next
<1>6. CASE Current(next.proj)
  <2>1. /\ Show
        /\ outbox' = Publish(images, images', <<SurfaceEvent(next, images')>>)
        /\ sent' = [sent EXCEPT !.images = images', !.surface = next,
                                !.pixels = next.refs \cap images']
    BY <1>6 DEF EmitPatched, next
  <2>2. shown' = latest /\ latest' = latest /\ images' = images \cap latest
    BY <2>1, ShowEffect DEF IInv, EmittedPixelsKept
  <2>3. images' \in SUBSET Keys
    BY <2>2 DEF IInv, TypeOK
  <2>4. outbox' \in Seq(Events)
    <3>1. <<SurfaceEvent(next, images')>> \in Seq(Events)
      BY <1>3, <2>3, SurfaceEventType
    <3>. QED BY <2>1, <2>3, <3>1, PublishType
  <2>5. /\ sent' \in Views /\ sent'.rev = sent.rev /\ sent'.images = images'
        /\ sent'.surface = next /\ sent'.pixels = next.refs \cap images'
    BY <1>3, <2>1, <2>3 DEF Views, IInv, TypeOK
  <2>6. TypeOK'
    BY <1>3, <1>4, <2>2, <2>3, <2>4, <2>5 DEF IInv, TypeOK
  <2>7. EmittedPixelsKept' /\ Scene'
    BY <1>1, <1>3, <1>4, <2>2, <2>5 DEF IInv, EmittedPixelsKept, Scene
  <2>8. Fence'
    <3>1. next.srev \in Nat /\ snapshot # None /\ snapshot.rev = next.proj /\ next.proj \in Nat
      BY <1>3, <1>6, ConstantsAssumption DEF Current, Surfaces
    <3>. QED BY <1>3, <1>4, <2>5, <3>1 DEF IInv, Fence
  <2>. QED BY <1>5, <2>6, <2>7, <2>8 DEF IInv
<1>7. CASE ~Current(next.proj)
  <2>1. UNCHANGED <<images, latest, shown, outbox, sent>>
    BY <1>7 DEF EmitPatched, next, store
  <2>2. TypeOK'
    BY <1>3, <1>4, <2>1 DEF IInv, TypeOK
  <2>3. EmittedPixelsKept' /\ Scene'
    BY <1>1, <1>3, <1>4, <2>1 DEF IInv, EmittedPixelsKept, Scene
  <2>4. Fence'
    <3>1. surface.srev \in Nat /\ (sent.surface # None => sent.surface.srev \in Nat)
      BY <1>1, ConstantsAssumption DEF IInv, TypeOK, Views, Surfaces
    <3>. QED BY <1>1, <1>3, <1>4, <2>1, <3>1 DEF IInv, Fence
  <2>. QED BY <1>5, <2>2, <2>3, <2>4 DEF IInv
<1>. QED BY <1>6, <1>7

(* A delta or a reuse that reconstructs yields the content the daemon has. *)
LEMMA RewrittenExact ==
  ASSUME IInv, NEW boot, NEW srev, surface # None, boot = surface.boot
  PROVE  Rewritten(boot, surface.srev, srev) = <<boot, srev>>
BY DEF Rewritten, IInv, BaselineExact

(* Moving an event into the channel. *)
LEMMA DeliverIInv == ASSUME IInv, Deliver PROVE IInv'
<1>1. channel' \in Seq(Events) /\ outbox' \in Seq(Events)
  BY DEF Deliver, IInv, TypeOK
<1>. QED
  BY <1>1 DEF Deliver, store, IInv, TypeOK, BaselineExact, EmittedPixelsKept, Scene, Fence

(* Taking an event out of it. *)
LEMMA ConsumeIInv == ASSUME IInv, Consume PROVE IInv'
<1>1. channel' \in Seq(Events) /\ Head(channel) \in Events
  BY DEF Consume, IInv, TypeOK
<1>2. view' \in Views
  BY <1>1, AppliedType DEF Consume, IInv, TypeOK
<1>. QED
  BY <1>1, <1>2 DEF Consume, store, IInv, TypeOK, BaselineExact, EmittedPixelsKept, Scene, Fence

(* Every step preserves the invariant: one case per action. *)
LEMMA NextIInv == IInv /\ [Next]_vars => IInv'
<1>. SUFFICES ASSUME IInv, [Next]_vars PROVE IInv'
  OBVIOUS
<1>1. CASE Welcome
  <2>1. CASE Fail
    BY <2>1, FailIInv
  <2>2. CASE ~Fail
    <3>1. encodings' \subseteq Encodings
      BY <1>1, <2>2, ConstantsAssumption DEF Welcome
    <3>2. outbox' \in Seq(Events)
      BY <1>1, <2>2, PlainEventType DEF Welcome
    <3>. QED
      BY <1>1, <2>2, <3>1, <3>2
      DEF Welcome, store, IInv, TypeOK, BaselineExact, EmittedPixelsKept, Scene, Fence
  <2>. QED BY <2>1, <2>2
<1>2. CASE ReceiveSnapshot
  <2>1. PICK boot \in Boots \cup {EmptyBoot}, rev \in Revs :
          IF SnapshotAccepted([boot |-> boot, rev |-> rev])
            THEN TakeSnapshot([boot |-> boot, rev |-> rev]) ELSE Fail
    BY <1>2 DEF ReceiveSnapshot
  <2>2. [boot |-> boot, rev |-> rev] \in [boot : Boots \cup {EmptyBoot}, rev : Revs]
    OBVIOUS
  <2>. QED BY <2>1, <2>2, FailIInv, SnapshotIInv
<1>3. CASE ReceiveSurface
  <2>. SUFFICES ASSUME ~Fail PROVE IInv'
    BY FailIInv
  <2>1. PICK boot \in Boots, srev \in SurfaceRevs, proj \in Revs, popup \in BOOLEAN,
             refs \in SUBSET Keys, assets \in SUBSET Keys :
          /\ SurfaceAccepted(boot, srev)
          /\ AcceptSurface([boot |-> boot, srev |-> srev, proj |-> proj, popup |-> popup,
                            refs |-> refs, cells |-> <<boot, srev>>], assets)
    BY <1>3 DEF ReceiveSurface
  <2>. DEFINE next == [boot |-> boot, srev |-> srev, proj |-> proj, popup |-> popup,
                       refs |-> refs, cells |-> <<boot, srev>>]
  <2>2. next \in Surfaces /\ next.cells = <<next.boot, next.srev>>
          /\ next.boot = boot /\ next.srev = srev
    BY DEF Surfaces, Contents
  <2>. QED BY <2>1, <2>2, AcceptIInv
<1>4. CASE ReceiveDelta
  <2>. SUFFICES ASSUME ~Fail PROVE IInv'
    BY FailIInv
  <2>1. PICK boot \in Boots, baseProj \in Revs, base \in SurfaceRevs, srev \in SurfaceRevs,
             proj \in Revs, patchPopup \in BOOLEAN, valid \in BOOLEAN :
          IF /\ "delta" \in encodings
             /\ valid
             /\ DeltaReconstructs(boot, baseProj, base, srev, proj, patchPopup)
             /\ SurfaceAccepted(boot, srev)
            THEN \E popup \in BOOLEAN, refs \in SUBSET Keys, assets \in SUBSET Keys :
                   /\ patchPopup => popup
                   /\ AcceptSurface([boot |-> boot, srev |-> srev, proj |-> proj,
                                     popup |-> popup, refs |-> refs,
                                     cells |-> Rewritten(boot, base, srev)], assets)
            ELSE Fail
    BY <1>4 DEF ReceiveDelta
  <2>2. DeltaReconstructs(boot, baseProj, base, srev, proj, patchPopup)
          /\ SurfaceAccepted(boot, srev)
    BY <2>1
  <2>3. PICK popup \in BOOLEAN, refs \in SUBSET Keys, assets \in SUBSET Keys :
          AcceptSurface([boot |-> boot, srev |-> srev, proj |-> proj, popup |-> popup,
                         refs |-> refs, cells |-> Rewritten(boot, base, srev)], assets)
    BY <2>1
  <2>4. Rewritten(boot, base, srev) = <<boot, srev>>
    BY <2>2, RewrittenExact DEF DeltaReconstructs
  <2>. DEFINE next == [boot |-> boot, srev |-> srev, proj |-> proj, popup |-> popup,
                       refs |-> refs, cells |-> <<boot, srev>>]
  <2>5. next \in Surfaces /\ next.cells = <<next.boot, next.srev>>
          /\ next.boot = boot /\ next.srev = srev
    BY DEF Surfaces, Contents
  <2>6. AcceptSurface(next, assets)
    BY <2>3, <2>4
  <2>. QED BY <2>2, <2>5, <2>6, AcceptIInv
<1>5. CASE ReceiveReuse
  <2>. SUFFICES ASSUME ~Fail PROVE IInv'
    BY FailIInv
  <2>1. PICK boot \in Boots, base \in SurfaceRevs, srev \in SurfaceRevs, proj \in Revs,
             popup \in BOOLEAN, refs \in SUBSET Keys, assets \in SUBSET Keys :
          /\ ReuseReconstructs(boot, base, srev, proj)
          /\ SurfaceAccepted(boot, srev)
          /\ AcceptSurface([boot |-> boot, srev |-> srev, proj |-> proj, popup |-> popup,
                            refs |-> refs, cells |-> Rewritten(boot, base, srev)], assets)
    BY <1>5 DEF ReceiveReuse
  <2>2. Rewritten(boot, base, srev) = <<boot, srev>>
    BY <2>1, RewrittenExact DEF ReuseReconstructs
  <2>. DEFINE next == [boot |-> boot, srev |-> srev, proj |-> proj, popup |-> popup,
                       refs |-> refs, cells |-> <<boot, srev>>]
  <2>3. next \in Surfaces /\ next.cells = <<next.boot, next.srev>>
          /\ next.boot = boot /\ next.srev = srev
    BY DEF Surfaces, Contents
  <2>4. AcceptSurface(next, assets)
    BY <2>1, <2>2
  <2>. QED BY <2>1, <2>3, <2>4, AcceptIInv
<1>6. CASE ReceivePatch
  BY <1>6, FailIInv, PatchIInv DEF ReceivePatch
<1>7. CASE ReceiveScroll
  BY <1>7, FailIInv, PatchIInv DEF ReceiveScroll
<1>8. CASE ReceiveOther
  <2>1. outbox' \in Seq(Events)
    BY <1>8, PlainEventType DEF ReceiveOther
  <2>. QED
    BY <1>8, <2>1
    DEF ReceiveOther, store, IInv, TypeOK, BaselineExact, EmittedPixelsKept, Scene, Fence
<1>9. CASE LoseServer
  BY <1>9, FailIInv DEF LoseServer
<1>10. CASE Deliver
  BY <1>10, DeliverIInv
<1>11. CASE Stop
  <2>1. outbox' \in Seq(Events) /\ phase' = "stopped"
    BY <1>11 DEF Stop
  <2>. QED
    BY <1>11, <2>1 DEF Stop, store, IInv, TypeOK, BaselineExact, EmittedPixelsKept, Scene, Fence
<1>12. CASE Consume
  BY <1>12, ConsumeIInv
<1>13. CASE UNCHANGED vars
  BY <1>13 DEF vars, store, IInv, TypeOK, BaselineExact, EmittedPixelsKept, Scene, Fence
<1>. QED
  BY <1>1, <1>2, <1>3, <1>4, <1>5, <1>6, <1>7, <1>8, <1>9, <1>10, <1>11, <1>12, <1>13
  DEF Next, Receive

(* The inductive invariant holds in every state the connection reaches.     *)
THEOREM Invariance == Spec => []IInv
<1>1. Init => IInv
  BY InitIInv
<1>2. IInv /\ [Next]_vars => IInv'
  BY NextIInv
<1>. QED BY <1>1, <1>2, PTL DEF Spec

(* Type correctness of the worker, the channel and the consumer's view.     *)
THEOREM TypeCorrect == Spec => []TypeOK
<1>1. IInv => TypeOK
  BY DEF IInv
<1>. QED BY <1>1, Invariance, PTL

(* The retained baseline is exactly the daemon's surface of the same boot   *)
(* and surface revision, whatever encodings brought it there.               *)
THEOREM BaselineIsExact == Spec => []BaselineExact
<1>1. IInv => BaselineExact
  BY DEF IInv
<1>. QED BY <1>1, Invariance, PTL

(* No image the emitted surface placed leaves the store, and the published  *)
(* set is the stored one, for any daemon and any budget.                    *)
THEOREM PixelsAreKept == Spec => []EmittedPixelsKept
<1>1. IInv => EmittedPixelsKept
  BY DEF IInv
<1>. QED BY <1>1, Invariance, PTL

-----------------------------------------------------------------------------
(* The events in flight.  `sent` is what the consumer will hold once it has *)
(* taken every event emitted; between `view` and `sent` lie the events in   *)
(* the channel and in the outbox, and each of them finds the consumer in a  *)
(* fit state.                                                               *)

(* Event e may reach a consumer that holds v: a surface finds its own       *)
(* projection revision, an older surface and its pixels, and a surface that *)
(* has lost pixels is followed by nothing but its replacement.              *)
Proper(e, v) ==
  /\ e.kind = "surface" =>
       /\ e.surface.proj = v.rev
       /\ v.surface # None => e.surface.srev > v.surface.srev
       /\ e.pixels \subseteq v.images
  /\ ~(v.pixels \subseteq v.images) => e.kind = "surface"

(* vs are the views a consumer passes through that takes the events f. *)
Passes(f, vs) ==
  /\ vs \in Seq(Views)
  /\ Len(vs) = Len(f) + 1
  /\ \A i \in 1 .. Len(f) : Proper(f[i], vs[i]) /\ vs[i + 1] = Applied(f[i], vs[i])

(* Taking the events f, each of them properly, leads from v to s. *)
Leads(f, v, s) == \E vs : Passes(f, vs) /\ vs[1] = v /\ vs[Len(f) + 1] = s

(* What is in flight leads to `sent`; once the owner has stopped the worker *)
(* the outbox is lost, and what is left leads somewhere.                    *)
InFlight ==
  \E s \in Views : /\ Leads(channel \o outbox, view, s)
                   /\ phase # "stopped" => s = sent

SInv == IInv /\ InFlight

(* Taking no event leads nowhere. *)
LEMMA LeadsEmpty ==
  ASSUME NEW v \in Views
  PROVE  Leads(<<>>, v, v)
<1>1. Passes(<<>>, <<v>>)
  BY DEF Passes
<1> QED
  BY <1>1 DEF Leads

(* One more event, taken properly where the others lead. *)
LEMMA LeadsAppend ==
  ASSUME NEW f \in Seq(Events), NEW e \in Events, NEW v, NEW s \in Views,
         Leads(f, v, s), Proper(e, s)
  PROVE  Leads(Append(f, e), v, Applied(e, s))
<1>1. PICK vs : Passes(f, vs) /\ vs[1] = v /\ vs[Len(f) + 1] = s
  BY DEF Leads
<1>2. PICK a : a = Applied(e, s)
  OBVIOUS
<1>3. a \in Views
  BY <1>2, AppliedType
<1>4. PICK ws : ws = Append(vs, a)
  OBVIOUS
<1>5. PICK g : g = Append(f, e)
  OBVIOUS
<1>6. /\ g \in Seq(Events) /\ Len(g) = Len(f) + 1 /\ Len(f) \in Nat /\ g[Len(f) + 1] = e
      /\ \A i \in 1 .. Len(f) : g[i] = f[i]
  BY <1>5
<1>7. /\ ws \in Seq(Views) /\ Len(ws) = Len(f) + 2 /\ ws[Len(f) + 2] = a
      /\ \A i \in 1 .. Len(f) + 1 : ws[i] = vs[i]
  BY <1>1, <1>3, <1>4, <1>6 DEF Passes
<1>8. ASSUME NEW i \in 1 .. Len(g)
      PROVE  Proper(g[i], ws[i]) /\ ws[i + 1] = Applied(g[i], ws[i])
  <2>1. CASE i = Len(f) + 1
    <3>1. g[i] = e /\ ws[i] = s /\ ws[i + 1] = a
      BY <1>1, <1>6, <1>7, <2>1
    <3> QED
      BY <1>2, <3>1
  <2>2. CASE i \in 1 .. Len(f)
    <3>1. g[i] = f[i] /\ ws[i] = vs[i] /\ ws[i + 1] = vs[i + 1]
      BY <1>6, <1>7, <2>2
    <3> QED
      BY <1>1, <2>2, <3>1 DEF Passes
  <2> QED
    BY <1>6, <2>1, <2>2
<1>9. Passes(g, ws)
  BY <1>6, <1>7, <1>8 DEF Passes
<1> QED
  BY <1>1, <1>2, <1>5, <1>6, <1>7, <1>9 DEF Leads

(* The first event is proper where the consumer is, and the rest lead on. *)
LEMMA LeadsTail ==
  ASSUME NEW f \in Seq(Events), NEW v, NEW s, Leads(f, v, s), f # <<>>
  PROVE  Proper(Head(f), v) /\ Leads(Tail(f), Applied(Head(f), v), s)
<1>1. PICK vs : Passes(f, vs) /\ vs[1] = v /\ vs[Len(f) + 1] = s
  BY DEF Leads
<1>2. PICK ws : ws = Tail(vs)
  OBVIOUS
<1>3. PICK g : g = Tail(f)
  OBVIOUS
<1>4. /\ Len(f) \in Nat \ {0} /\ Head(f) = f[1] /\ g \in Seq(Events)
      /\ Len(g) = Len(f) - 1 /\ \A i \in 1 .. Len(g) : g[i] = f[i + 1]
  BY <1>3
<1>5. /\ ws \in Seq(Views) /\ Len(ws) = Len(f)
      /\ \A i \in 1 .. Len(f) : ws[i] = vs[i + 1]
  BY <1>1, <1>2, <1>4 DEF Passes
<1>6. ASSUME NEW i \in 1 .. Len(g)
      PROVE  Proper(g[i], ws[i]) /\ ws[i + 1] = Applied(g[i], ws[i])
  <2>1. i \in 1 .. Len(f) /\ i + 1 \in 1 .. Len(f)
    BY <1>4
  <2>2. g[i] = f[i + 1] /\ ws[i] = vs[i + 1]
    BY <1>4, <1>5, <2>1
  <2>3. ws[i + 1] = vs[(i + 1) + 1]
    BY <1>5, <2>1
  <2> QED
    BY <1>1, <2>1, <2>2, <2>3 DEF Passes
<1>7. Passes(g, ws)
  BY <1>4, <1>5, <1>6 DEF Passes
<1>8. Proper(f[1], v) /\ vs[2] = Applied(f[1], v)
  <2>1. 1 \in 1 .. Len(f) /\ 1 + 1 = 2
    BY <1>4
  <2> QED
    BY <1>1, <2>1 DEF Passes
<1>9. ws[1] = vs[2] /\ ws[Len(g) + 1] = s
  BY <1>1, <1>4, <1>5
<1> QED
  BY <1>3, <1>4, <1>7, <1>8, <1>9 DEF Leads

(* Losing the last events loses the last views. *)
LEMMA LeadsPrefix ==
  ASSUME NEW f \in Seq(Events), NEW g \in Seq(Events), NEW v, NEW s, Leads(f \o g, v, s)
  PROVE  \E r \in Views : Leads(f, v, r)
<1>1. PICK h : h = f \o g
  OBVIOUS
<1>2. PICK vs : Passes(h, vs) /\ vs[1] = v /\ vs[Len(h) + 1] = s
  BY <1>1 DEF Leads
<1>3. /\ h \in Seq(Events) /\ Len(h) = Len(f) + Len(g) /\ Len(f) \in Nat /\ Len(g) \in Nat
      /\ \A i \in 1 .. Len(f) : h[i] = f[i]
  BY <1>1
<1>4. PICK ws : ws = SubSeq(vs, 1, Len(f) + 1)
  OBVIOUS
<1>5. /\ ws \in Seq(Views) /\ Len(ws) = Len(f) + 1
      /\ \A i \in 1 .. Len(f) + 1 : ws[i] = vs[i]
  BY <1>2, <1>3, <1>4 DEF Passes
<1>6. ASSUME NEW i \in 1 .. Len(f)
      PROVE  Proper(f[i], ws[i]) /\ ws[i + 1] = Applied(f[i], ws[i])
  <2>1. i \in 1 .. Len(h) /\ h[i] = f[i] /\ ws[i] = vs[i] /\ ws[i + 1] = vs[i + 1]
    BY <1>3, <1>5
  <2> QED
    BY <1>2, <2>1 DEF Passes
<1>7. Passes(f, ws) /\ ws[1] = v
  BY <1>2, <1>3, <1>5, <1>6 DEF Passes
<1>8. ws[Len(f) + 1] \in Views
  BY <1>3, <1>5
<1> QED
  BY <1>7, <1>8 DEF Leads

-----------------------------------------------------------------------------
(* What the handlers emit. *)

(* An event without a payload leaves the consumer as it is. *)
LEMMA LeadsPlain ==
  ASSUME NEW f \in Seq(Events), NEW v, NEW s \in Views, Leads(f, v, s),
         s.pixels \subseteq s.images,
         NEW what \in {"connected", "message", "mismatch", "disconnected"}
  PROVE  Leads(Append(f, PlainEvent(what)), v, s)
<1>1. PICK e : e = PlainEvent(what)
  OBVIOUS
<1>2. e \in Events /\ e.kind = what
  BY <1>1, PlainEventType DEF PlainEvent
<1>3. Proper(e, s) /\ Applied(e, s) = s
  BY <1>2 DEF Proper, Applied
<1> QED
  BY <1>1, <1>2, <1>3, LeadsAppend

(* A snapshot changes the revision the consumer has. *)
LEMMA LeadsSnapshot ==
  ASSUME NEW f \in Seq(Events), NEW v, NEW s \in Views, Leads(f, v, s),
         s.pixels \subseteq s.images, NEW next \in Snapshots
  PROVE  Leads(Append(f, SnapshotEvent(next)), v, [s EXCEPT !.rev = next.rev])
<1>1. PICK e : e = SnapshotEvent(next)
  OBVIOUS
<1>2. e \in Events /\ e.kind = "snapshot" /\ e.rev = next.rev
  BY <1>1 DEF SnapshotEvent, Events, Snapshots
<1>3. Proper(e, s) /\ Applied(e, s) = [s EXCEPT !.rev = next.rev]
  BY <1>2 DEF Proper, Applied
<1> QED
  BY <1>1, <1>2, <1>3, LeadsAppend

(* The published set of images, if it changed: the one place where the      *)
(* consumer may be left with a surface that lacks pixels.                   *)
LEMMA LeadsImages ==
  ASSUME NEW f \in Seq(Events), NEW v, NEW s \in Views, Leads(f, v, s),
         s.pixels \subseteq s.images, NEW after \in SUBSET Keys
  PROVE  /\ f \o ImagesIfChanged(s.images, after) \in Seq(Events)
         /\ Leads(f \o ImagesIfChanged(s.images, after), v, [s EXCEPT !.images = after])
<1>1. CASE s.images = after
  <2>1. ImagesIfChanged(s.images, after) = <<>> /\ f \o <<>> = f
    BY <1>1 DEF ImagesIfChanged
  <2>2. [s EXCEPT !.images = after] = s
    BY <1>1 DEF Views
  <2> QED
    BY <2>1, <2>2
<1>2. CASE s.images # after
  <2>1. PICK e : e = ImagesEvent(after)
    OBVIOUS
  <2>2. e \in Events /\ e.kind = "images" /\ e.keys = after
    BY <2>1 DEF ImagesEvent, Events
  <2>3. Proper(e, s) /\ Applied(e, s) = [s EXCEPT !.images = after]
    BY <2>2 DEF Proper, Applied
  <2>4. ImagesIfChanged(s.images, after) = <<e>>
    BY <1>2, <2>1 DEF ImagesIfChanged
  <2>5. f \o <<e>> = Append(f, e) /\ Append(f, e) \in Seq(Events)
    BY <2>2
  <2>6. Leads(Append(f, e), v, Applied(e, s))
    BY <2>2, <2>3, LeadsAppend
  <2>7. Leads(Append(f, e), v, [s EXCEPT !.images = after])
    BY <2>3, <2>6
  <2>8. f \o ImagesIfChanged(s.images, after) = Append(f, e)
    BY <2>4, <2>5
  <2> QED
    BY <2>5, <2>7, <2>8
<1> QED
  BY <1>1, <1>2

(* A surface, its pixels published before it. *)
LEMMA LeadsPublished ==
  ASSUME NEW f \in Seq(Events), NEW v, NEW s \in Views, Leads(f, v, s),
         s.pixels \subseteq s.images, NEW after \in SUBSET Keys, NEW next \in Surfaces,
         next.proj = s.rev, s.surface # None => next.srev > s.surface.srev
  PROVE  Leads(f \o Publish(s.images, after, <<SurfaceEvent(next, after)>>), v,
               [s EXCEPT !.images = after, !.surface = next, !.pixels = next.refs \cap after])
<1>1. PICK e : e = SurfaceEvent(next, after)
  OBVIOUS
<1>2. e \in Events /\ e.kind = "surface" /\ e.surface = next /\ e.pixels = next.refs \cap after
  BY <1>1 DEF SurfaceEvent, Events, Surfaces
<1>3. PICK t : t = [s EXCEPT !.images = after]
  OBVIOUS
<1>4. t \in Views /\ t.rev = s.rev /\ t.surface = s.surface /\ t.images = after
  BY <1>3 DEF Views
<1>5. PICK i : i = ImagesIfChanged(s.images, after)
  OBVIOUS
<1>6. f \o i \in Seq(Events) /\ Leads(f \o i, v, t)
  BY <1>3, <1>5, LeadsImages
<1>7. Proper(e, t)
  BY <1>2, <1>4 DEF Proper
<1>8. Applied(e, t) = [s EXCEPT !.images = after, !.surface = next, !.pixels = next.refs \cap after]
  <2>1. Applied(e, t) = [t EXCEPT !.surface = next, !.pixels = next.refs \cap after]
    BY <1>2 DEF Applied
  <2> QED
    BY <1>3, <2>1 DEF Views
<1>9. Leads(Append(f \o i, e), v, Applied(e, t))
  BY <1>2, <1>4, <1>6, <1>7, LeadsAppend
<1>10. i \in Seq(Events)
  <2>1. ImagesEvent(after) \in Events
    BY DEF ImagesEvent, Events
  <2> QED
    BY <1>5, <2>1 DEF ImagesIfChanged
<1>11. f \o (i \o <<e>>) = Append(f \o i, e)
  BY <1>2, <1>10
<1> QED
  BY <1>1, <1>5, <1>8, <1>9, <1>11 DEF Publish

(* Views with the same fields are the same. *)
LEMMA SameView ==
  ASSUME NEW a \in Views, NEW b \in Views, a.rev = b.rev, a.surface = b.surface,
         a.pixels = b.pixels, a.images = b.images
  PROVE  a = b
BY DEF Views

(* Before a handler runs nothing of the last one is left, and the consumer  *)
(* it emits to will have lost no pixels.                                    *)
LEMMA IdleFlight ==
  ASSUME SInv, Idle
  PROVE  /\ channel \in Seq(Events) /\ sent \in Views
         /\ Leads(channel, view, sent)
         /\ sent.pixels \subseteq sent.images
         /\ channel \o <<>> = channel
<1>1. channel \in Seq(Events) /\ sent \in Views /\ sent.pixels \subseteq sent.images
  BY DEF SInv, IInv, TypeOK, EmittedPixelsKept
<1>2. channel \o <<>> = channel
  BY <1>1
<1>3. outbox = <<>> /\ phase # "stopped"
  BY DEF Idle
<1>4. Leads(channel \o outbox, view, sent)
  BY <1>3 DEF SInv, InFlight
<1> QED
  BY <1>1, <1>2, <1>3, <1>4

-----------------------------------------------------------------------------
(* Each action keeps the events in flight proper. *)

(* An error tells the owner, who holds on to what it has. *)
LEMMA FailFlight ==
  ASSUME SInv, Idle, Fail
  PROVE  InFlight'
<1>1. /\ channel \in Seq(Events) /\ sent \in Views /\ Leads(channel, view, sent)
      /\ sent.pixels \subseteq sent.images
  BY IdleFlight
<1>2. PICK m, d : m = PlainEvent("mismatch") /\ d = PlainEvent("disconnected")
  OBVIOUS
<1>3. m \in Events /\ d \in Events
  BY <1>2, PlainEventType
<1>4. Leads(Append(channel, d), view, sent)
  BY <1>1, <1>2, LeadsPlain
<1>5. Leads(Append(Append(channel, m), d), view, sent)
  <2>1. Append(channel, m) \in Seq(Events) /\ Leads(Append(channel, m), view, sent)
    BY <1>1, <1>2, <1>3, LeadsPlain
  <2> QED
    BY <1>1, <1>2, <2>1, LeadsPlain
<1>6. channel \o <<d>> = Append(channel, d) /\ channel \o <<m, d>> = Append(Append(channel, m), d)
  BY <1>1, <1>3
<1>7. /\ outbox' = <<d>> \/ outbox' = <<m, d>>
      /\ channel' = channel /\ view' = view /\ sent' = sent
  BY <1>2 DEF Fail
<1>8. Leads(channel' \o outbox', view', sent')
  BY <1>4, <1>5, <1>6, <1>7
<1> QED
  BY <1>1, <1>7, <1>8 DEF InFlight

(* The welcome and the messages passed on. *)
LEMMA PlainFlight ==
  ASSUME SInv, Idle, NEW what \in {"connected", "message"}, outbox' = <<PlainEvent(what)>>,
         UNCHANGED <<channel, view, sent>>
  PROVE  InFlight'
<1>1. /\ channel \in Seq(Events) /\ sent \in Views /\ Leads(channel, view, sent)
      /\ sent.pixels \subseteq sent.images
  BY IdleFlight
<1>2. PICK e : e = PlainEvent(what)
  OBVIOUS
<1>3. e \in Events
  BY <1>2, PlainEventType
<1>4. Leads(Append(channel, e), view, sent)
  BY <1>1, <1>2, LeadsPlain
<1>5. channel \o <<e>> = Append(channel, e)
  BY <1>1, <1>3
<1>6. Leads(channel' \o outbox', view', sent')
  BY <1>2, <1>4, <1>5
<1> QED
  BY <1>1, <1>6 DEF InFlight

(* A snapshot, and behind it the surface it releases: the emission fence    *)
(* says that the surface is newer than the last one.                        *)
LEMMA SnapshotFlight ==
  ASSUME SInv, Idle, NEW next \in [boot : Boots \cup {EmptyBoot}, rev : Revs],
         SnapshotAccepted(next), TakeSnapshot(next)
  PROVE  InFlight'
<1>1. /\ channel \in Seq(Events) /\ sent \in Views /\ Leads(channel, view, sent)
      /\ sent.pixels \subseteq sent.images
  BY IdleFlight
<1>2. next \in Snapshots /\ next # None
  BY ConstantsAssumption DEF SnapshotAccepted, Snapshots
<1>3. PICK e : e = SnapshotEvent(next)
  OBVIOUS
<1>4. e \in Events
  BY <1>2, <1>3 DEF SnapshotEvent, Events, Snapshots
<1>5. PICK s : s = [sent EXCEPT !.rev = next.rev]
  OBVIOUS
<1>6. /\ s \in Views /\ s.rev = next.rev /\ s.surface = sent.surface
      /\ s.pixels = sent.pixels /\ s.images = sent.images
  BY <1>1, <1>2, <1>5 DEF Views, Snapshots
<1>7. PICK f : f = Append(channel, e)
  OBVIOUS
<1>8. f \in Seq(Events) /\ Leads(f, view, s) /\ channel \o <<e>> = f
  BY <1>1, <1>2, <1>3, <1>4, <1>5, <1>7, LeadsSnapshot
<1>9. IInv' /\ channel' = channel /\ view' = view
  BY SnapshotIInv DEF SInv, TakeSnapshot
<1>10. CASE RevisionChanged(next) /\ surface # None /\ surface.proj = next.rev
  <2>1. /\ outbox' = <<e>> \o Publish(images, images', <<SurfaceEvent(surface, images')>>)
        /\ sent' = [rev |-> next.rev, surface |-> surface,
                    pixels |-> surface.refs \cap images', images |-> images']
    BY <1>3, <1>10 DEF TakeSnapshot
  <2>2. images' \in SUBSET Keys /\ surface \in Surfaces /\ s.images = images
    BY <1>6, <1>9, <1>10 DEF SInv, IInv, TypeOK, EmittedPixelsKept
  <2>3. ASSUME s.surface # None PROVE surface.srev > s.surface.srev
    <3>1. /\ surface.srev \in Nat /\ sent.surface.srev \in Nat /\ surface.proj \in Nat
          /\ snapshot # None /\ snapshot.rev \in Nat
      BY <1>6, <1>10, <2>3, ConstantsAssumption
      DEF SInv, IInv, TypeOK, Fence, Views, Surfaces, Snapshots
    <3>2. surface.proj > snapshot.rev
      BY <1>10, <3>1 DEF SnapshotAccepted, RevisionChanged
    <3> QED
      BY <1>6, <2>3, <3>1, <3>2 DEF SInv, IInv, Fence
  <2>4. PICK p : p = Publish(images, images', <<SurfaceEvent(surface, images')>>)
    OBVIOUS
  <2>5. Leads(f \o p, view,
              [s EXCEPT !.images = images', !.surface = surface,
                        !.pixels = surface.refs \cap images'])
    BY <1>1, <1>6, <1>8, <1>10, <2>2, <2>3, <2>4, LeadsPublished
  <2>6. sent' = [s EXCEPT !.images = images', !.surface = surface,
                          !.pixels = surface.refs \cap images']
    <3>1. PICK t : t = [s EXCEPT !.images = images', !.surface = surface,
                                 !.pixels = surface.refs \cap images']
      OBVIOUS
    <3>2. /\ t \in Views /\ t.rev = next.rev /\ t.surface = surface
          /\ t.pixels = surface.refs \cap images' /\ t.images = images'
      BY <1>6, <2>2, <3>1 DEF Views
    <3>3. sent' \in Views
      BY <1>9 DEF IInv, TypeOK
    <3>4. sent' = t
      BY <2>1, <3>2, <3>3, SameView
    <3> QED
      BY <3>1, <3>4
  <2>7. p \in Seq(Events)
    BY <2>2, <2>4, PublishType, SurfaceEventType
  <2>8. channel \o (<<e>> \o p) = f \o p
    BY <1>1, <1>4, <1>7, <2>7
  <2>9. Leads(channel' \o outbox', view', sent')
    BY <1>9, <2>1, <2>4, <2>5, <2>6, <2>8
  <2> QED
    BY <1>9, <2>9 DEF InFlight, IInv, TypeOK
<1>11. CASE ~(RevisionChanged(next) /\ surface # None /\ surface.proj = next.rev)
  <2>1. outbox' = <<e>> /\ sent' = s
    BY <1>3, <1>5, <1>11 DEF TakeSnapshot
  <2>2. Leads(channel' \o outbox', view', sent')
    BY <1>8, <1>9, <2>1
  <2> QED
    BY <1>6, <2>1, <2>2 DEF InFlight
<1> QED
  BY <1>10, <1>11

(* accept_surface: the images, then the surface if its projection is        *)
(* current.                                                                 *)
LEMMA AcceptFlight ==
  ASSUME SInv, Idle, IInv', NEW next \in Surfaces, NEW assets \in SUBSET Keys,
         SurfaceAccepted(next.boot, next.srev), AcceptSurface(next, assets)
  PROVE  InFlight'
<1>1. /\ channel \in Seq(Events) /\ sent \in Views /\ Leads(channel, view, sent)
      /\ sent.pixels \subseteq sent.images
  BY IdleFlight
<1>2. /\ outbox' = Publish(images, images',
                           IF Current(next.proj) THEN <<SurfaceEvent(next, images')>> ELSE <<>>)
      /\ sent' = [sent EXCEPT !.images = images',
                              !.surface = IF Current(next.proj) THEN next ELSE @,
                              !.pixels = IF Current(next.proj) THEN next.refs \cap images' ELSE @]
      /\ channel' = channel /\ view' = view
  BY DEF AcceptSurface
<1>3. images' \in SUBSET Keys /\ sent.images = images /\ sent' \in Views
  BY DEF SInv, IInv, TypeOK, EmittedPixelsKept
<1>4. CASE Current(next.proj)
  <2>1. next.proj = sent.rev
    BY <1>4 DEF Current, SInv, IInv, Fence
  <2>2. ASSUME sent.surface # None PROVE next.srev > sent.surface.srev
    <3>1. next.srev \in Nat /\ surface.srev \in Nat /\ sent.surface.srev \in Nat
      BY <2>2, ConstantsAssumption DEF SInv, IInv, TypeOK, Fence, Views, Surfaces
    <3> QED
      BY <2>2, <3>1 DEF SurfaceAccepted, SInv, IInv, Fence
  <2>3. Leads(channel \o Publish(images, images', <<SurfaceEvent(next, images')>>), view,
              [sent EXCEPT !.images = images', !.surface = next,
                           !.pixels = next.refs \cap images'])
    BY <1>1, <1>3, <2>1, <2>2, LeadsPublished
  <2>4. Leads(channel' \o outbox', view', sent')
    BY <1>2, <1>4, <2>3
  <2> QED
    BY <1>3, <2>4 DEF InFlight
<1>5. CASE ~Current(next.proj)
  <2>1. PICK i : i = ImagesIfChanged(images, images')
    OBVIOUS
  <2>2. i \in Seq(Events)
    <3>1. ImagesEvent(images') \in Events
      BY <1>3 DEF ImagesEvent, Events
    <3> QED
      BY <2>1, <3>1 DEF ImagesIfChanged
  <2>3. outbox' = i
    BY <1>2, <1>5, <2>1, <2>2 DEF Publish
  <2>4. sent' = [sent EXCEPT !.images = images']
    BY <1>1, <1>2, <1>5 DEF Views
  <2>5. Leads(channel \o i, view, [sent EXCEPT !.images = images'])
    BY <1>1, <1>3, <2>1, LeadsImages
  <2>6. Leads(channel' \o outbox', view', sent')
    BY <1>2, <2>3, <2>4, <2>5
  <2> QED
    BY <1>3, <2>6 DEF InFlight
<1> QED
  BY <1>4, <1>5

(* apply_patch and apply_scroll_patch, then emit_patched. *)
LEMMA PatchFlight ==
  ASSUME SInv, Idle, NEW boot \in Boots, NEW proj \in Revs, NEW base \in SurfaceRevs,
         NEW srev \in SurfaceRevs, PatchApplies(boot, proj, base, srev),
         EmitPatched(boot, base, srev)
  PROVE  InFlight'
<1>1. /\ channel \in Seq(Events) /\ sent \in Views /\ Leads(channel, view, sent)
      /\ sent.pixels \subseteq sent.images /\ channel \o <<>> = channel
  BY IdleFlight
<1>2. IInv'
  BY PatchIInv DEF SInv
<1>3. PICK next : next = [surface EXCEPT !.srev = srev, !.cells = Rewritten(boot, base, srev)]
  OBVIOUS
<1>4. /\ surface \in Surfaces /\ surface # None /\ Rewritten(boot, base, srev) \in Contents
  BY DEF PatchApplies, SInv, IInv, TypeOK, Rewritten, Contents
<1>5. /\ next \in Surfaces /\ next # None
      /\ next.proj = surface.proj /\ next.srev = surface.srev + 1 /\ surface.srev \in Nat
  BY <1>3, <1>4, ConstantsAssumption DEF Surfaces, PatchApplies
<1>6. channel' = channel /\ view' = view
  BY DEF EmitPatched
<1>7. images' \in SUBSET Keys /\ sent.images = images /\ sent' \in Views
  BY <1>2 DEF SInv, IInv, TypeOK, EmittedPixelsKept
<1>8. CASE Current(next.proj)
  <2>1. /\ outbox' = Publish(images, images', <<SurfaceEvent(next, images')>>)
        /\ sent' = [sent EXCEPT !.images = images', !.surface = next,
                                !.pixels = next.refs \cap images']
    BY <1>3, <1>8 DEF EmitPatched
  <2>2. next.proj = sent.rev
    BY <1>8 DEF Current, SInv, IInv, Fence
  <2>3. ASSUME sent.surface # None PROVE next.srev > sent.surface.srev
    <3>1. sent.surface.srev \in Nat
      BY <2>3, ConstantsAssumption DEF SInv, IInv, TypeOK, Views, Surfaces
    <3> QED
      BY <1>5, <2>3, <3>1 DEF SInv, IInv, Fence
  <2>4. Leads(channel \o Publish(images, images', <<SurfaceEvent(next, images')>>), view,
              [sent EXCEPT !.images = images', !.surface = next,
                           !.pixels = next.refs \cap images'])
    BY <1>1, <1>5, <1>7, <2>2, <2>3, LeadsPublished
  <2>5. Leads(channel' \o outbox', view', sent')
    BY <1>6, <2>1, <2>4
  <2> QED
    BY <1>7, <2>5 DEF InFlight
<1>9. CASE ~Current(next.proj)
  <2>1. outbox' = <<>> /\ sent' = sent
    BY <1>3, <1>9 DEF EmitPatched, Idle
  <2>2. Leads(channel' \o outbox', view', sent')
    BY <1>1, <1>6, <2>1
  <2> QED
    BY <1>7, <2>2 DEF InFlight
<1> QED
  BY <1>8, <1>9

(* Delivering an event moves it within what is in flight. *)
LEMMA Moved ==
  ASSUME NEW c \in Seq(Events), NEW o \in Seq(Events), o # <<>>
  PROVE  Append(c, Head(o)) \o Tail(o) = c \o o
<1>1. PICK h, t : h = Head(o) /\ t = Tail(o)
  OBVIOUS
<1>2. h \in Events /\ t \in Seq(Events) /\ o = <<h>> \o t
  BY <1>1
<1>3. Append(c, h) = c \o <<h>>
  BY <1>2
<1>4. (c \o <<h>>) \o t = c \o (<<h>> \o t)
  BY <1>2
<1> QED
  BY <1>1, <1>2, <1>3, <1>4

\* An event delivered to the channel is in flight as it was in the outbox.
LEMMA DeliverFlight == ASSUME SInv, Deliver PROVE InFlight'
<1>1. channel \in Seq(Events) /\ outbox \in Seq(Events) /\ outbox # <<>>
  BY DEF Deliver, SInv, IInv, TypeOK
<1>2. channel' \o outbox' = channel \o outbox
  BY <1>1, Moved DEF Deliver
<1> QED
  BY <1>2 DEF Deliver, SInv, InFlight

(* The owner takes the first event in flight. *)
LEMMA ConsumeFlight == ASSUME SInv, Consume PROVE InFlight'
<1>1. channel \in Seq(Events) /\ outbox \in Seq(Events) /\ channel # <<>>
  BY DEF Consume, SInv, IInv, TypeOK
<1>2. PICK f : f = channel \o outbox
  OBVIOUS
<1>3. /\ f \in Seq(Events) /\ f # <<>> /\ Head(f) = Head(channel)
      /\ Tail(f) = Tail(channel) \o outbox
  BY <1>1, <1>2
<1>4. PICK s \in Views : Leads(f, view, s) /\ (phase # "stopped" => s = sent)
  BY <1>2 DEF SInv, InFlight
<1>5. Leads(Tail(f), Applied(Head(f), view), s)
  BY <1>3, <1>4, LeadsTail
<1>6. /\ channel' \o outbox' = Tail(f) /\ view' = Applied(Head(f), view)
      /\ phase' = phase /\ sent' = sent
  BY <1>3 DEF Consume
<1>7. Leads(channel' \o outbox', view', s)
  BY <1>5, <1>6
<1> QED
  BY <1>4, <1>6, <1>7 DEF InFlight

(* Stopping loses what the channel does not hold. *)
LEMMA StopFlight == ASSUME SInv, Stop PROVE InFlight'
<1>1. channel \in Seq(Events) /\ outbox \in Seq(Events)
  BY DEF SInv, IInv, TypeOK
<1>2. PICK s : Leads(channel \o outbox, view, s)
  BY DEF SInv, InFlight
<1>3. PICK r \in Views : Leads(channel, view, r)
  BY <1>1, <1>2, LeadsPrefix
<1>4. channel' \o outbox' = channel /\ view' = view /\ phase' = "stopped"
  BY <1>1 DEF Stop
<1>5. Leads(channel' \o outbox', view', r)
  BY <1>3, <1>4
<1> QED
  BY <1>4, <1>5 DEF InFlight

(* A surface in any of the three complete encodings. *)
LEMMA SurfaceFlight ==
  ASSUME SInv, IInv', ReceiveSurface \/ ReceiveDelta \/ ReceiveReuse
  PROVE  InFlight'
<1>1. Idle
  BY DEF ReceiveSurface, ReceiveDelta, ReceiveReuse
<1> SUFFICES ASSUME ~Fail PROVE InFlight'
  BY <1>1, FailFlight
<1>2. \A boot \in Boots, srev \in SurfaceRevs : \A base :
        /\ <<boot, srev>> \in Contents
        /\ Rewritten(boot, base, srev) \in Contents
  BY DEF Rewritten, Contents
<1>3. ASSUME NEW boot \in Boots, NEW srev \in SurfaceRevs, NEW proj \in Revs,
             NEW popup \in BOOLEAN, NEW refs \in SUBSET Keys, NEW cells \in Contents,
             NEW assets \in SUBSET Keys, SurfaceAccepted(boot, srev),
             AcceptSurface([boot |-> boot, srev |-> srev, proj |-> proj, popup |-> popup,
                            refs |-> refs, cells |-> cells], assets)
      PROVE  InFlight'
  <2> DEFINE next == [boot |-> boot, srev |-> srev, proj |-> proj, popup |-> popup,
                      refs |-> refs, cells |-> cells]
  <2>1. next \in Surfaces /\ next.boot = boot /\ next.srev = srev
    BY DEF Surfaces
  <2>2. AcceptSurface(next, assets)
    BY <1>3
  <2> HIDE DEF next
  <2> QED
    BY <1>1, <1>3, <2>1, <2>2, AcceptFlight
<1>4. CASE ReceiveSurface
  BY <1>2, <1>3, <1>4 DEF ReceiveSurface
<1>5. CASE ReceiveDelta
  <2>1. PICK boot \in Boots, baseProj \in Revs, base \in SurfaceRevs,
             srev \in SurfaceRevs, proj \in Revs, patchPopup \in BOOLEAN,
             valid \in BOOLEAN :
          IF /\ "delta" \in encodings
             /\ valid
             /\ DeltaReconstructs(boot, baseProj, base, srev, proj, patchPopup)
             /\ SurfaceAccepted(boot, srev)
            THEN \E popup \in BOOLEAN, refs \in SUBSET Keys, assets \in SUBSET Keys :
                   /\ patchPopup => popup
                   /\ AcceptSurface([boot |-> boot, srev |-> srev, proj |-> proj,
                                     popup |-> popup, refs |-> refs,
                                     cells |-> Rewritten(boot, base, srev)], assets)
            ELSE Fail
    BY <1>5 DEF ReceiveDelta
  <2> QED
    BY <1>2, <1>3, <2>1
<1>6. CASE ReceiveReuse
  BY <1>2, <1>3, <1>6 DEF ReceiveReuse
<1> QED
  BY <1>4, <1>5, <1>6

(* Every step keeps what is in flight proper. *)
LEMMA NextSInv == SInv /\ [Next]_vars => SInv'
<1> SUFFICES ASSUME SInv, [Next]_vars PROVE SInv'
  OBVIOUS
<1>1. IInv'
  BY NextIInv DEF SInv
<1> SUFFICES InFlight'
  BY <1>1 DEF SInv
<1>2. CASE Welcome
  BY <1>2, FailFlight, PlainFlight DEF Welcome
<1>3. CASE ReceiveSnapshot
  <2>1. PICK boot \in Boots \cup {EmptyBoot}, rev \in Revs :
          IF SnapshotAccepted([boot |-> boot, rev |-> rev])
            THEN TakeSnapshot([boot |-> boot, rev |-> rev]) ELSE Fail
    BY <1>3 DEF ReceiveSnapshot
  <2>2. [boot |-> boot, rev |-> rev] \in [boot : Boots \cup {EmptyBoot}, rev : Revs]
    OBVIOUS
  <2> QED
    BY <1>3, <2>1, <2>2, FailFlight, SnapshotFlight DEF ReceiveSnapshot
<1>4. CASE ReceiveSurface \/ ReceiveDelta \/ ReceiveReuse
  BY <1>1, <1>4, SurfaceFlight
<1>5. CASE ReceivePatch
  BY <1>5, FailFlight, PatchFlight DEF ReceivePatch
<1>6. CASE ReceiveScroll
  BY <1>6, FailFlight, PatchFlight DEF ReceiveScroll
<1>7. CASE ReceiveOther
  BY <1>7, PlainFlight DEF ReceiveOther
<1>8. CASE LoseServer
  BY <1>8, FailFlight DEF LoseServer
<1>9. CASE Deliver
  BY <1>9, DeliverFlight
<1>10. CASE Stop
  BY <1>10, StopFlight
<1>11. CASE Consume
  BY <1>11, ConsumeFlight
<1>12. CASE UNCHANGED vars
  BY <1>12 DEF vars, SInv, InFlight
<1> QED
  BY <1>2, <1>3, <1>4, <1>5, <1>6, <1>7, <1>8, <1>9, <1>10, <1>11, <1>12 DEF Next, Receive

(* A fresh connection has nothing in flight. *)
LEMMA InitSInv == Init => SInv
<1> SUFFICES ASSUME Init PROVE SInv
  OBVIOUS
<1>1. IInv
  BY InitIInv
<1>2. channel \o outbox = <<>> /\ view = sent /\ view \in Views
  BY <1>1 DEF Init, IInv, TypeOK
<1> QED
  BY <1>1, <1>2, LeadsEmpty DEF SInv, InFlight

(* What is in flight leads properly from what the consumer has to what was  *)
(* emitted, for any channel capacity.                                       *)
THEOREM FlightInvariance == Spec => []SInv
<1>1. SInv /\ [Next]_vars => SInv'
  BY NextSInv
<1> QED
  BY <1>1, InitSInv, PTL DEF Spec

(* When the consumer's surface lacks an image it was placed with, the next  *)
(* event is the surface that replaces it: with nothing in flight the view   *)
(* would be `sent`, which lacks none.                                       *)
THEOREM GapIsClosed == Spec => []GapClosedByNextEvent
<1>1. SInv => GapClosedByNextEvent
  <2> SUFFICES ASSUME SInv, phase # "stopped", ~(view.pixels \subseteq view.images)
               PROVE  channel \o outbox # <<>> /\ Head(channel \o outbox).kind = "surface"
    BY DEF GapClosedByNextEvent
  <2>1. PICK f : f = channel \o outbox
    OBVIOUS
  <2>2. f \in Seq(Events)
    BY <2>1 DEF SInv, IInv, TypeOK
  <2>3. Leads(f, view, sent) /\ sent.pixels \subseteq sent.images
    BY <2>1 DEF SInv, InFlight, IInv, EmittedPixelsKept
  <2>4. f # <<>>
    <3>1. SUFFICES ASSUME f = <<>> PROVE FALSE
      OBVIOUS
    <3>2. Len(f) + 1 = 1
      BY <3>1
    <3>3. view = sent
      BY <2>3, <3>2 DEF Leads
    <3> QED
      BY <2>3, <3>3
  <2>5. Proper(Head(f), view)
    BY <2>2, <2>3, <2>4, LeadsTail
  <2> QED
    BY <2>1, <2>4, <2>5 DEF Proper
<1> QED
  BY <1>1, FlightInvariance, PTL

(* The event the consumer takes is the first one in flight. *)
LEMMA ArrivesProperly ==
  ASSUME SInv, SurfaceArrives
  PROVE  Proper(Head(channel), view)
<1>1. channel \in Seq(Events) /\ outbox \in Seq(Events) /\ channel # <<>>
  BY DEF SurfaceArrives, SInv, IInv, TypeOK
<1>2. PICK f : f = channel \o outbox
  OBVIOUS
<1>3. f \in Seq(Events) /\ f # <<>> /\ Head(f) = Head(channel)
  BY <1>1, <1>2
<1>4. PICK s : Leads(f, view, s)
  BY <1>2 DEF SInv, InFlight
<1> QED
  BY <1>3, <1>4, LeadsTail

(* A surface reaches the consumer under the projection revision the         *)
(* consumer has, and newer than the one it shows, however many events lie   *)
(* between the emission and the consumer.                                   *)
THEOREM ArrivalIsFenced == Spec => FencedSurfaces
<1> DEFINE Fenced == SurfaceArrives =>
                       LET s == Head(channel).surface
                       IN  /\ s.proj = view.rev
                           /\ view.surface # None => s.srev > view.surface.srev
<1>1. SInv => Fenced
  BY ArrivesProperly DEF SurfaceArrives, Proper
<1>2. FencedSurfaces <=> [][Fenced]_vars
  BY DEF FencedSurfaces
<1> HIDE DEF Fenced
<1> QED
  BY <1>1, <1>2, FlightInvariance, PTL

(* Every image a surface was emitted with has reached the consumer before   *)
(* the surface does.                                                        *)
THEOREM PixelsArriveFirst == Spec => PixelsPrecedeSurface
<1> DEFINE Before == SurfaceArrives => Head(channel).pixels \subseteq view.images
<1>1. SInv => Before
  BY ArrivesProperly DEF SurfaceArrives, Proper
<1>2. PixelsPrecedeSurface <=> [][Before]_vars
  BY DEF PixelsPrecedeSurface
<1> HIDE DEF Before
<1> QED
  BY <1>1, <1>2, FlightInvariance, PTL

-----------------------------------------------------------------------------
(* The byte account of the image store. *)

(* A set of keys takes up a number of bytes, and that of two disjoint sets  *)
(* is the sum of theirs.                                                    *)
LEMMA BytesOf ==
  ASSUME NEW A \in SUBSET Keys, NEW B \in SUBSET Keys, A \cap B = {}
  PROVE  /\ IsFiniteSet(A) /\ Bytes(A) \in Nat /\ Bytes(B) \in Nat
         /\ Bytes(A \cup B) = Bytes(A) + Bytes(B)
<1>1. IsFiniteSet(A) /\ IsFiniteSet(B)
  BY StoreAssumption, FS_Subset
<1>2. \A x \in Keys : Size[x] \in Nat
  BY StoreAssumption
<1>3. \A S : Bytes(S) = Total(Size, S)
  BY DEF Bytes, Total
<1>4. Total(Size, A) \in Nat /\ Total(Size, B) \in Nat
  BY <1>1, <1>2, TotalNat
<1>5. Total(Size, A \cup B) = Total(Size, A) + Total(Size, B)
  <2>1. \A x \in A \cup B : Size[x] \in Int
    BY <1>2
  <2> QED
    BY <1>1, <2>1, TotalUnion
<1> QED
  BY <1>1, <1>3, <1>4, <1>5

(* Dropping images from an exact account leaves an exact one. *)
LEMMA BytesDropped ==
  ASSUME NEW A \in SUBSET Keys, NEW B \in SUBSET A
  PROVE  /\ Bytes(A) - Bytes(A \ B) = Bytes(B)
         /\ Bytes(B) \in Nat /\ Bytes(A) \in Nat /\ Bytes(B) <= Bytes(A)
         /\ Cardinality(A) \in Nat /\ Cardinality(B) \in Nat /\ Cardinality(B) <= Cardinality(A)
<1>1. PICK C : C = A \ B
  OBVIOUS
<1>2. B \cup C = A /\ B \cap C = {} /\ B \in SUBSET Keys /\ C \in SUBSET Keys
  BY <1>1
<1>3. Bytes(B) \in Nat /\ Bytes(C) \in Nat /\ Bytes(B \cup C) = Bytes(B) + Bytes(C)
  BY <1>2, BytesOf
<1>4. Bytes(A) = Bytes(B) + Bytes(C)
  BY <1>2, <1>3
<1>5. IsFiniteSet(A)
  BY StoreAssumption, FS_Subset
<1>6. Cardinality(A) \in Nat /\ Cardinality(B) \in Nat /\ Cardinality(B) <= Cardinality(A)
  BY <1>5, FS_Subset, FS_CardinalityType
<1> QED
  BY <1>1, <1>3, <1>4, <1>6

(* Show keeps the account. *)
LEMMA ShowBounded ==
  ASSUME IInv, StoreBounded, Show
  PROVE  StoreBounded'
<1>1. images \in SUBSET Keys /\ images' \in SUBSET images
  BY DEF IInv, TypeOK, Show, Pruned
<1>2. bytes' = Bytes(images) - Bytes(images \ images')
  BY DEF Show, StoreBounded
<1>3. PICK A, B : A = images /\ B = images'
  OBVIOUS
<1>4. /\ Bytes(A) - Bytes(A \ B) = Bytes(B)
      /\ Bytes(B) \in Nat /\ Bytes(A) \in Nat /\ Bytes(B) <= Bytes(A)
      /\ Cardinality(A) \in Nat /\ Cardinality(B) \in Nat /\ Cardinality(B) <= Cardinality(A)
  BY <1>1, <1>3, BytesDropped
<1>5. Bytes(A) <= MaxBytes /\ Cardinality(A) <= MaxImages
  BY <1>3 DEF StoreBounded
<1>6. bytes' = Bytes(B) /\ Bytes(B) <= MaxBytes /\ Cardinality(B) <= MaxImages
  BY <1>2, <1>3, <1>4, <1>5, StoreAssumption
<1> QED
  BY <1>3, <1>6 DEF StoreBounded

(* The size of two disjoint sets. *)
LEMMA DisjointUnion ==
  ASSUME NEW A, IsFiniteSet(A), NEW B, IsFiniteSet(B), A \cap B = {}
  PROVE  Cardinality(A \cup B) = Cardinality(A) + Cardinality(B)
<1>1. Cardinality(A \cup B) = Cardinality(A) + Cardinality(B) - Cardinality(A \cap B)
  BY FS_Union
<1>2. Cardinality(A \cap B) = 0 /\ Cardinality(A) \in Nat /\ Cardinality(B) \in Nat
  BY FS_EmptySet, FS_CardinalityType
<1> QED
  BY <1>1, <1>2

(* receive keeps it: what is admitted beside what is kept fits both limits. *)
LEMMA AcceptBounded ==
  ASSUME IInv, StoreBounded, NEW next \in Surfaces, NEW assets \in SUBSET Keys,
         AcceptSurface(next, assets)
  PROVE  StoreBounded'
<1>1. PICK kept, used : /\ kept = Pruned(images, next.refs, shown)
                        /\ used = bytes - Bytes(images \ kept)
  OBVIOUS
<1>2. PICK added \in Admissions(kept, used, assets \cap next.refs) :
        /\ images' = Pruned(kept \cup added, latest', shown')
        /\ bytes' = (used + Bytes(added)) - Bytes((kept \cup added) \ images')
  BY <1>1 DEF AcceptSurface
<1>3. images \in SUBSET Keys /\ kept \in SUBSET images
  BY <1>1 DEF IInv, TypeOK, Pruned
<1>4. /\ used = Bytes(kept) /\ Bytes(kept) \in Nat /\ Bytes(kept) <= MaxBytes
      /\ Cardinality(kept) \in Nat /\ Cardinality(kept) <= MaxImages
  <2>1. PICK A : A = images
    OBVIOUS
  <2>2. /\ Bytes(A) - Bytes(A \ kept) = Bytes(kept)
        /\ Bytes(kept) \in Nat /\ Bytes(A) \in Nat /\ Bytes(kept) <= Bytes(A)
        /\ Cardinality(A) \in Nat /\ Cardinality(kept) \in Nat
        /\ Cardinality(kept) <= Cardinality(A)
    BY <1>3, <2>1, BytesDropped
  <2>3. bytes = Bytes(A) /\ Bytes(A) <= MaxBytes /\ Cardinality(A) <= MaxImages
    BY <2>1 DEF StoreBounded
  <2> QED
    BY <1>1, <2>1, <2>2, <2>3, StoreAssumption
<1>5. /\ added \in SUBSET Keys /\ kept \cap added = {}
      /\ added = {} \/ Fits(kept, used, added)
  BY DEF Admissions
<1>6. PICK received : received = kept \cup added
  OBVIOUS
<1>7. /\ received \in SUBSET Keys /\ Bytes(added) \in Nat
      /\ Bytes(received) = Bytes(kept) + Bytes(added)
  BY <1>3, <1>5, <1>6, BytesOf
<1>8. Bytes(received) <= MaxBytes /\ Cardinality(received) <= MaxImages
  <2>1. CASE added = {}
    <3>1. received = kept
      BY <1>6, <2>1
    <3> QED
      BY <1>4, <3>1
  <2>2. CASE Fits(kept, used, added)
    <3>1. IsFiniteSet(kept) /\ IsFiniteSet(added)
      BY <1>3, <1>5, StoreAssumption, FS_Subset
    <3>2. Cardinality(received) = Cardinality(kept) + Cardinality(added)
      BY <1>5, <1>6, <3>1, DisjointUnion
    <3> QED
      BY <1>4, <1>7, <2>2, <3>2 DEF Fits
  <2> QED
    BY <1>5, <2>1, <2>2
<1>9. PICK B : B = images'
  OBVIOUS
<1>10. B \in SUBSET received
  BY <1>2, <1>6, <1>9 DEF Pruned
<1>11. /\ Bytes(received) - Bytes(received \ B) = Bytes(B)
       /\ Bytes(B) \in Nat /\ Bytes(received) \in Nat /\ Bytes(B) <= Bytes(received)
       /\ Cardinality(received) \in Nat /\ Cardinality(B) \in Nat
       /\ Cardinality(B) <= Cardinality(received)
  BY <1>7, <1>10, BytesDropped
<1>12. bytes' = Bytes(received) - Bytes(received \ B)
  BY <1>2, <1>4, <1>6, <1>7, <1>9
<1>13. bytes' = Bytes(B) /\ Bytes(B) <= MaxBytes /\ Cardinality(B) <= MaxImages
  BY <1>8, <1>11, <1>12, StoreAssumption
<1> QED
  BY <1>9, <1>13 DEF StoreBounded

(* A step either leaves the store alone, shows the waiting surface or       *)
(* accepts a new one.                                                       *)
LEMMA NextBounded == IInv /\ StoreBounded /\ [Next]_vars => StoreBounded'
<1> SUFFICES ASSUME IInv, StoreBounded, [Next]_vars PROVE StoreBounded'
  OBVIOUS
<1>1. CASE UNCHANGED <<images, bytes>>
  BY <1>1 DEF StoreBounded
<1>2. CASE Show
  BY <1>2, ShowBounded
<1>3. ASSUME NEW boot \in Boots, NEW srev \in SurfaceRevs, NEW proj \in Revs,
             NEW popup \in BOOLEAN, NEW refs \in SUBSET Keys, NEW cells \in Contents,
             NEW assets \in SUBSET Keys,
             AcceptSurface([boot |-> boot, srev |-> srev, proj |-> proj, popup |-> popup,
                            refs |-> refs, cells |-> cells], assets)
      PROVE  StoreBounded'
  <2> DEFINE next == [boot |-> boot, srev |-> srev, proj |-> proj, popup |-> popup,
                      refs |-> refs, cells |-> cells]
  <2>1. next \in Surfaces
    BY DEF Surfaces
  <2>2. AcceptSurface(next, assets)
    BY <1>3
  <2> HIDE DEF next
  <2> QED
    BY <2>1, <2>2, AcceptBounded
<1>4. \A boot \in Boots, srev \in SurfaceRevs : \A base :
        /\ <<boot, srev>> \in Contents
        /\ Rewritten(boot, base, srev) \in Contents
  BY DEF Rewritten, Contents
<1> SUFFICES ASSUME ~Show, ~UNCHANGED <<images, bytes>> PROVE StoreBounded'
  BY <1>1, <1>2
<1>5. ~Fail
  BY DEF Fail, store
<1>6. CASE ReceiveSurface
  BY <1>3, <1>4, <1>5, <1>6 DEF ReceiveSurface
<1>7. CASE ReceiveDelta
  <2>1. PICK boot \in Boots, baseProj \in Revs, base \in SurfaceRevs,
             srev \in SurfaceRevs, proj \in Revs, patchPopup \in BOOLEAN,
             valid \in BOOLEAN :
          IF /\ "delta" \in encodings
             /\ valid
             /\ DeltaReconstructs(boot, baseProj, base, srev, proj, patchPopup)
             /\ SurfaceAccepted(boot, srev)
            THEN \E popup \in BOOLEAN, refs \in SUBSET Keys, assets \in SUBSET Keys :
                   /\ patchPopup => popup
                   /\ AcceptSurface([boot |-> boot, srev |-> srev, proj |-> proj,
                                     popup |-> popup, refs |-> refs,
                                     cells |-> Rewritten(boot, base, srev)], assets)
            ELSE Fail
    BY <1>7 DEF ReceiveDelta
  <2> QED
    BY <1>3, <1>4, <1>5, <2>1
<1>8. CASE ReceiveReuse
  BY <1>3, <1>4, <1>5, <1>8 DEF ReceiveReuse
<1>9. CASE ReceiveSnapshot
  BY <1>5, <1>9 DEF ReceiveSnapshot, TakeSnapshot, store
<1>10. CASE ReceivePatch \/ ReceiveScroll
  <2>1. PICK boot, base, srev : EmitPatched(boot, base, srev)
    BY <1>5, <1>10 DEF ReceivePatch, ReceiveScroll
  <2>2. Show \/ UNCHANGED store
    BY <2>1 DEF EmitPatched
  <2> QED
    BY <2>2 DEF store
<1>11. CASE Welcome \/ ReceiveOther \/ LoseServer \/ Deliver \/ Stop \/ Consume
  BY <1>5, <1>11 DEF Welcome, ReceiveOther, LoseServer, Deliver, Stop, Consume, store
<1> QED
  BY <1>6, <1>7, <1>8, <1>9, <1>10, <1>11 DEF Next, Receive, vars, store

(* The account of the image store is exact and both limits hold, whatever   *)
(* images of whatever sizes the daemon sends, in whatever order.            *)
THEOREM StoreIsBounded == Spec => []StoreBounded
<1>1. Init => StoreBounded
  <2> SUFFICES ASSUME Init PROVE StoreBounded
    OBVIOUS
  <2>1. Bytes({}) = 0
    <3>1. Bytes({}) = Total(Size, {})
      BY DEF Bytes, Total
    <3> QED
      BY <3>1, TotalEmpty
  <2>2. images = {} /\ bytes = 0 /\ Cardinality({}) = 0
    BY FS_EmptySet DEF Init
  <2>3. Bytes(images) = 0 /\ Cardinality(images) = 0
    BY <2>1, <2>2
  <2> QED
    BY <2>2, <2>3, StoreAssumption DEF StoreBounded
<1>2. IInv /\ StoreBounded /\ [Next]_vars => StoreBounded'
  BY NextBounded
<1> QED
  BY <1>1, <1>2, Invariance, PTL DEF Spec
=============================================================================
