--------------------------- MODULE SurfaceProjection ---------------------------
(***************************************************************************)
(* How one client connection turns the daemon's messages into the stream of *)
(* snapshots, surfaces and images its owner paints.                         *)
(*                                                                          *)
(* The worker thread (sheprd-client/src/session.rs, Session::handle_message)*)
(* keeps the newest snapshot, the newest surface (the baseline every patch  *)
(* and delta is applied to) and the image bytes surfaces place              *)
(* (surface_images.rs, ImageStore).  A surface is drawn for one projection  *)
(* revision; it is emitted only while the snapshot has that revision and is *)
(* otherwise retained, unseen, until the snapshot catches up.  Events go    *)
(* one at a time through a bounded channel (event.rs, deliver) to a         *)
(* consumer that lags behind.                                               *)
(*                                                                          *)
(* A handler runs to its end before the next message is read, but each of   *)
(* its emissions may block on the full channel: the events it produced wait *)
(* in `outbox`, and no handler starts while it is not empty.                *)
(*                                                                          *)
(* Data: a message that fails a decoding, bounds or geometry check is one   *)
(* with valid = FALSE.  The content of a surface is the tag                 *)
(* <<boot, surface revision>> of the daemon's surface it equals, or None    *)
(* when it equals none of them.                                             *)
(***************************************************************************)
EXTENDS Integers, Sequences, FiniteSets, FiniteSetsExt, SequencesExt

CONSTANTS
  Boots,          \* daemon boot ids; the empty id is EmptyBoot
  EmptyBoot,      \* the empty boot id, which no snapshot may carry
  Welcomes,       \* the sets of encodings a daemon's welcome may advertise
  Revs,           \* snapshot (projection) revisions the daemon may send
  SurfaceRevs,    \* surface revisions the daemon may send (u64: +1 is checked)
  Keys,           \* image asset keys
  Size,           \* Size[k]: the data_len of key k
  MaxImages,      \* MAX_IMAGES
  MaxBytes,       \* MAX_IMAGE_BYTES
  EventCapacity,  \* EVENT_CAPACITY
  None            \* no snapshot yet, no surface yet, no known content

(* The optional surface encodings, named by the capability a welcome        *)
(* advertises (struct SurfaceEncodings).                                    *)
Encodings == {"reuse", "delta", "scroll"}

Snapshots == [boot : Boots, rev : Revs]

Contents == (Boots \X SurfaceRevs) \cup {None}

(* PaneSurfaceFrame: boot, surface_revision, projection_revision, whether it *)
(* has a popup, the keys its scene references, and its cells.               *)
Surfaces == [boot : Boots, srev : SurfaceRevs, proj : Revs, popup : BOOLEAN,
             refs : SUBSET Keys, cells : Contents]

ASSUME ConstantsAssumption ==
  /\ Welcomes \subseteq SUBSET Encodings
  /\ Revs \subseteq Nat
  /\ SurfaceRevs \subseteq Nat
  /\ EmptyBoot \notin Boots
  /\ None \notin Snapshots
  /\ None \notin Surfaces
  /\ None \notin Boots \X SurfaceRevs

ASSUME StoreAssumption ==
  /\ IsFiniteSet(Keys)    \* a key is a few integers of fixed width
  /\ Size \in [Keys -> Nat \ {0}]
  /\ MaxImages \in Nat
  /\ MaxBytes \in Nat
  /\ EventCapacity \in Nat \ {0}

VARIABLES
  phase,      \* "hello" until the welcome, then "open"; "failed"/"stopped" at the end
  encodings,  \* Session.encodings
  snapshot,   \* Session.snapshot
  surface,    \* Session.surface: the retained baseline
  images,     \* ImageStore.images, as a set of keys
  bytes,      \* ImageStore.bytes
  latest,     \* ImageStore.latest
  shown,      \* ImageStore.shown
  outbox,     \* events of the running handler still to be delivered
  channel,    \* the bounded event channel
  view,       \* what the consumer has from the events it took
  sent        \* history: what it will have after every event emitted so far

store == <<images, bytes, latest, shown>>
vars == <<phase, encodings, snapshot, surface, store, outbox, channel, view, sent>>

(* `pixels`: the images of `surface` the store held when it was emitted. *)
Views == [rev : Revs \cup {None}, surface : Surfaces \cup {None}, pixels : SUBSET Keys,
          images : SUBSET Keys]

EmptyView == [rev |-> None, surface |-> None, pixels |-> {}, images |-> {}]

-----------------------------------------------------------------------------
(* Events (enum ClientEvent) *)

SnapshotEvent(s) == [kind |-> "snapshot", rev |-> s.rev]
SurfaceEvent(s, held) == [kind |-> "surface", surface |-> s, pixels |-> s.refs \cap held]
ImagesEvent(set) == [kind |-> "images", keys |-> set]
PlainEvent(what) == [kind |-> what]

Events == [kind : {"snapshot"}, rev : Revs]
            \cup [kind : {"surface"}, surface : Surfaces, pixels : SUBSET Keys]
            \cup [kind : {"images"}, keys : SUBSET Keys]
            \cup [kind : {"connected", "message", "mismatch", "disconnected"}]

(* What the consumer holds once it has taken event e: a snapshot, a surface *)
(* and a set of images each replace the previous one.                       *)
Applied(e, v) ==
  CASE e.kind = "snapshot" -> [v EXCEPT !.rev = e.rev]
    [] e.kind = "surface"  -> [v EXCEPT !.surface = e.surface, !.pixels = e.pixels]
    [] e.kind = "images"   -> [v EXCEPT !.images = e.keys]
    [] OTHER               -> v

-----------------------------------------------------------------------------
(* The image store (impl ImageStore) *)

Bytes(set) == MapThenSumSet(LAMBDA k : Size[k], set)

(* receive: after the prune that keeps `kept`, assets are taken in the      *)
(* order the message lists them, each one that fits both limits.  Whatever  *)
(* the order, the result is a set that fits and to which no rejected asset  *)
(* could still be added; every such set is the result for some order.       *)
Fits(kept, used, added) ==
  /\ Cardinality(kept) + Cardinality(added) <= MaxImages
  /\ used + Bytes(added) <= MaxBytes

Admissions(kept, used, assets) ==
  LET offered == assets \ kept
  IN  {added \in SUBSET offered :
         /\ added = {} \/ Fits(kept, used, added)
         /\ \A k \in offered \ added : ~Fits(kept, used, added \cup {k})}

PrunedToLatest(set, refs, keep) == set \cap refs \* mutant: forgets the surface on screen

(* prune: only what the newest received surface (refs) or the newest        *)
(* emitted one (keep) references stays.                                     *)
Pruned(set, refs, keep) == set \cap (refs \cup keep)

ShowLeaky == \* mutant: the freed bytes stay on the account
  /\ shown' = latest
  /\ latest' = latest
  /\ images' = Pruned(images, latest, latest)
  /\ bytes' = bytes

(* show: the newest received surface becomes the emitted one, so only its   *)
(* references keep an image.                                                *)
Show ==
  /\ shown' = latest
  /\ latest' = latest
  /\ images' = Pruned(images, latest, latest)
  /\ bytes' = bytes - Bytes(images \ images')

(* `changed` in the handlers: no key is ever removed and added in one       *)
(* message, so it is whether the set of keys differs.                       *)
ImagesIfChanged(before, after) == IF before = after THEN <<>> ELSE <<ImagesEvent(after)>>

PublishLast(before, after, events) == \* mutant: the surface first
  events \o ImagesIfChanged(before, after)

(* Pixels precede the surface that places them. *)
Publish(before, after, events) == ImagesIfChanged(before, after) \o events

-----------------------------------------------------------------------------
(* The daemon's messages and what the worker does with each *)

Idle == outbox = <<>> /\ phase \in {"hello", "open"}

(* Every error ends the connection (connect.rs): the owner is told once,    *)
(* after what was delivered before.  An error of the handshake may first    *)
(* name the side that is out of date.                                       *)
Fail ==
  /\ phase' = "failed"
  /\ \/ outbox' = <<PlainEvent("disconnected")>>
     \/ phase = "hello" /\ outbox' = <<PlainEvent("mismatch"), PlainEvent("disconnected")>>
  /\ UNCHANGED <<encodings, snapshot, surface, store, channel, view, sent>>

(* The hello's answer.  Only the encodings the welcome advertises are       *)
(* accepted afterwards; any other first message, generation, codec or       *)
(* missing capability is an error.                                          *)
Welcome ==
  /\ Idle
  /\ phase = "hello"
  /\ \/ /\ encodings' \in Welcomes
        /\ phase' = "open"
        /\ outbox' = <<PlainEvent("connected")>>
        /\ UNCHANGED <<snapshot, surface, store, channel, view, sent>>
     \/ Fail

SnapshotAccepted(next) ==
  /\ next.boot # EmptyBoot
  /\ snapshot # None => next.boot = snapshot.boot /\ next.rev >= snapshot.rev

AnySnapshot(next) == TRUE \* mutant: every snapshot releases the surface

RevisionChanged(next) == snapshot = None \/ snapshot.rev # next.rev

(* A snapshot of a new revision releases the surface that waited for it.    *)
TakeSnapshot(next) ==
  /\ snapshot' = next
  /\ IF RevisionChanged(next) /\ surface # None /\ surface.proj = next.rev
       THEN /\ Show
            /\ outbox' = <<SnapshotEvent(next)>>
                           \o Publish(images, images', <<SurfaceEvent(surface, images')>>)
            /\ sent' = [rev |-> next.rev, surface |-> surface,
                        pixels |-> surface.refs \cap images', images |-> images']
       ELSE /\ outbox' = <<SnapshotEvent(next)>>
            /\ sent' = [sent EXCEPT !.rev = next.rev]
            /\ UNCHANGED store
  /\ UNCHANGED <<phase, encodings, surface, channel, view>>

ReceiveSnapshot ==
  /\ Idle
  /\ phase = "open"
  /\ \E boot \in Boots \cup {EmptyBoot}, rev \in Revs :
       LET next == [boot |-> boot, rev |-> rev]
       IN  IF SnapshotAccepted(next) THEN TakeSnapshot(next) ELSE Fail

(* accept_surface's fence, before anything is stored. *)
SurfaceAccepted(boot, srev) ==
  /\ snapshot # None
  /\ boot = snapshot.boot
  /\ surface # None => srev > surface.srev

(* The snapshot has the projection revision a surface is drawn for. *)
Current(proj) == snapshot # None /\ snapshot.rev = proj

(* accept_surface after its checks: the assets move into the store, the     *)
(* images are published before the surface that places them, and the        *)
(* surface becomes the baseline whether or not its projection is current.   *)
AcceptSurface(next, assets) ==
  LET kept  == Pruned(images, next.refs, shown)
      used  == bytes - Bytes(images \ kept)
      shows == Current(next.proj)
  IN  \E added \in Admissions(kept, used, assets \cap next.refs) :
        LET received == kept \cup added
        IN  /\ latest' = next.refs
            /\ shown' = IF shows THEN next.refs ELSE shown
            /\ images' = Pruned(received, latest', shown')
            /\ bytes' = (used + Bytes(added)) - Bytes(received \ images')
            /\ surface' = next
            /\ outbox' = Publish(images, images',
                                  IF shows THEN <<SurfaceEvent(next, images')>> ELSE <<>>)
            /\ sent' = [sent EXCEPT !.images = images',
                                    !.surface = IF shows THEN next ELSE @,
                                    !.pixels = IF shows THEN next.refs \cap images' ELSE @]
            /\ UNCHANGED <<phase, encodings, snapshot, channel, view>>

(* A complete surface: its content is the daemon's, whatever came before. *)
ReceiveSurface ==
  /\ Idle
  /\ phase = "open"
  /\ \E boot \in Boots, srev \in SurfaceRevs, proj \in Revs, valid \in BOOLEAN :
       IF valid /\ SurfaceAccepted(boot, srev)
         THEN \E popup \in BOOLEAN, refs \in SUBSET Keys, assets \in SUBSET Keys :
                AcceptSurface([boot |-> boot, srev |-> srev, proj |-> proj, popup |-> popup,
                               refs |-> refs, cells |-> <<boot, srev>>], assets)
         ELSE Fail

(* The content an update from the daemon's surface (boot, base) to          *)
(* (boot, srev) leaves: the right one only on the content it was cut for.   *)
Rewritten(boot, base, srev) ==
  IF surface.cells = <<boot, base>> THEN <<boot, srev>> ELSE None

DeltaAnyBase(boot, baseProj, base, srev, proj, patchPopup) == \* mutant: base not compared
  /\ surface # None
  /\ boot = surface.boot
  /\ srev = surface.srev + 1
  /\ proj >= surface.proj
  /\ patchPopup => surface.popup

(* SurfaceDelta::reconstruct.  patchPopup: the delta patches the cells of a *)
(* popup the baseline must have.                                            *)
DeltaReconstructs(boot, baseProj, base, srev, proj, patchPopup) ==
  /\ surface # None
  /\ boot = surface.boot
  /\ baseProj = surface.proj
  /\ base = surface.srev
  /\ srev = surface.srev + 1
  /\ proj >= surface.proj
  /\ patchPopup => surface.popup

(* SurfaceReuse::reconstruct: the same cells under new metadata. *)
ReuseReconstructs(boot, base, srev, proj) ==
  /\ surface # None
  /\ boot = surface.boot
  /\ base = surface.srev
  /\ srev = surface.srev + 1
  /\ proj >= surface.proj

ReceiveDelta ==
  /\ Idle
  /\ phase = "open"
  /\ \E boot \in Boots, baseProj \in Revs, base \in SurfaceRevs, srev \in SurfaceRevs,
        proj \in Revs, patchPopup \in BOOLEAN, valid \in BOOLEAN :
       IF /\ "delta" \in encodings
          /\ valid
          /\ DeltaReconstructs(boot, baseProj, base, srev, proj, patchPopup)
          /\ SurfaceAccepted(boot, srev)
         THEN \E popup \in BOOLEAN, refs \in SUBSET Keys, assets \in SUBSET Keys :
                /\ patchPopup => popup
                /\ AcceptSurface([boot |-> boot, srev |-> srev, proj |-> proj, popup |-> popup,
                                  refs |-> refs, cells |-> Rewritten(boot, base, srev)], assets)
         ELSE Fail

ReceiveReuse ==
  /\ Idle
  /\ phase = "open"
  /\ \E boot \in Boots, base \in SurfaceRevs, srev \in SurfaceRevs, proj \in Revs,
        valid \in BOOLEAN :
       IF /\ "reuse" \in encodings
          /\ valid
          /\ ReuseReconstructs(boot, base, srev, proj)
          /\ SurfaceAccepted(boot, srev)
         THEN \E popup \in BOOLEAN, refs \in SUBSET Keys, assets \in SUBSET Keys :
                AcceptSurface([boot |-> boot, srev |-> srev, proj |-> proj, popup |-> popup,
                               refs |-> refs, cells |-> Rewritten(boot, base, srev)], assets)
         ELSE Fail

(* validate_patch *)
PatchApplies(boot, proj, base, srev) ==
  /\ surface # None
  /\ boot = surface.boot
  /\ proj = surface.proj
  /\ base = surface.srev
  /\ srev = surface.srev + 1
  /\ ~surface.popup

(* commit_patch, then emit_patched: a patch keeps the scene, and is emitted *)
(* only when the snapshot has the baseline's projection revision.           *)
EmitPatched(boot, base, srev) ==
  LET next == [surface EXCEPT !.srev = srev, !.cells = Rewritten(boot, base, srev)]
  IN  /\ surface' = next
      /\ IF Current(next.proj)
           THEN /\ Show
                /\ outbox' = Publish(images, images', <<SurfaceEvent(next, images')>>)
                /\ sent' = [sent EXCEPT !.images = images', !.surface = next,
                                        !.pixels = next.refs \cap images']
           ELSE UNCHANGED <<store, outbox, sent>>
      /\ UNCHANGED <<phase, encodings, snapshot, channel, view>>

ReceivePatch ==
  /\ Idle
  /\ phase = "open"
  /\ \E boot \in Boots, proj \in Revs, base \in SurfaceRevs, srev \in SurfaceRevs,
        valid \in BOOLEAN :
       IF valid /\ PatchApplies(boot, proj, base, srev)
         THEN EmitPatched(boot, base, srev)
         ELSE Fail

(* A patch whose rows first scroll.  The regions are checked before a row   *)
(* moves (valid), so a rejected one leaves the baseline alone.              *)
ReceiveScroll ==
  /\ Idle
  /\ phase = "open"
  /\ \E boot \in Boots, proj \in Revs, base \in SurfaceRevs, srev \in SurfaceRevs,
        valid \in BOOLEAN :
       IF "scroll" \in encodings /\ valid /\ PatchApplies(boot, proj, base, srev)
         THEN EmitPatched(boot, base, srev)
         ELSE Fail

(* Notifications, titles, bells and the like are passed on as they are. *)
ReceiveOther ==
  /\ Idle
  /\ phase = "open"
  /\ outbox' = <<PlainEvent("message")>>
  /\ UNCHANGED <<phase, encodings, snapshot, surface, store, channel, view, sent>>

(* The daemon shuts down, or the transport is lost. *)
LoseServer == Idle /\ Fail

-----------------------------------------------------------------------------
(* Delivery *)

DeliverOrDrop == \* mutant: an event that finds the channel full is lost
  /\ outbox # <<>>
  /\ channel' = IF Len(channel) < EventCapacity THEN Append(channel, Head(outbox)) ELSE channel
  /\ outbox' = Tail(outbox)
  /\ UNCHANGED <<phase, encodings, snapshot, surface, store, view, sent>>

(* deliver: the event at the head of the handler waits for room. *)
Deliver ==
  /\ outbox # <<>>
  /\ Len(channel) < EventCapacity
  /\ channel' = Append(channel, Head(outbox))
  /\ outbox' = Tail(outbox)
  /\ UNCHANGED <<phase, encodings, snapshot, surface, store, view, sent>>

(* The owner stops the connection or drops its receiver: deliver returns an *)
(* error, and nothing the handler still had to say is delivered.            *)
Stop ==
  /\ phase # "stopped"
  /\ phase' = "stopped"
  /\ outbox' = <<>>
  /\ UNCHANGED <<encodings, snapshot, surface, store, channel, view, sent>>

(* The owner takes the next event. *)
Consume ==
  /\ channel # <<>>
  /\ view' = Applied(Head(channel), view)
  /\ channel' = Tail(channel)
  /\ UNCHANGED <<phase, encodings, snapshot, surface, store, outbox, sent>>

Init ==
  /\ phase = "hello"
  /\ encodings = {}
  /\ snapshot = None
  /\ surface = None
  /\ images = {} /\ bytes = 0 /\ latest = {} /\ shown = {}
  /\ outbox = <<>>
  /\ channel = <<>>
  /\ view = EmptyView
  /\ sent = EmptyView

Receive ==
  \/ Welcome \/ ReceiveSnapshot \/ ReceiveSurface \/ ReceiveDelta \/ ReceiveReuse
  \/ ReceivePatch \/ ReceiveScroll \/ ReceiveOther \/ LoseServer

Next == Receive \/ Deliver \/ Stop \/ Consume

Spec == Init /\ [][Next]_vars

(* deliver retries its bounded send until it succeeds or the owner stops,   *)
(* and the owner drains its receiver.                                       *)
FairSpec == Spec /\ WF_vars(Deliver) /\ WF_vars(Consume)

-----------------------------------------------------------------------------
(* Properties *)

(* Type correctness.  `bytes` is covered by StoreBounded. *)
TypeOK ==
  /\ phase \in {"hello", "open", "failed", "stopped"}
  /\ encodings \subseteq Encodings
  /\ snapshot \in Snapshots \cup {None}
  /\ surface \in Surfaces \cup {None}
  /\ images \subseteq Keys
  /\ latest \subseteq Keys
  /\ shown \subseteq Keys
  /\ outbox \in Seq(Events)
  /\ channel \in Seq(Events)
  /\ view \in Views
  /\ sent \in Views

(* Every patch and delta lands on the content it was cut for: the retained  *)
(* baseline always equals the daemon's surface of the same boot and surface *)
(* revision, through any mix of full surfaces, patches, scrolls, deltas and *)
(* reuses, seen or unseen (accept_surface, validate_patch, reconstruct).    *)
BaselineExact ==
  surface # None => /\ surface.cells = <<surface.boot, surface.srev>>
                    /\ snapshot # None
                    /\ surface.boot = snapshot.boot

(* The store's byte account is exact through prunes and admissions, and     *)
(* both limits hold, whatever the daemon sends (ImageStore).                *)
StoreBounded ==
  /\ bytes = Bytes(images)
  /\ bytes <= MaxBytes
  /\ Cardinality(images) <= MaxImages

(* The surface on its way to the screen keeps its pixels: while a newer     *)
(* surface waits unseen for its snapshot, no image the emitted one placed   *)
(* is dropped, the published set is always the stored one, and nothing is   *)
(* stored that neither surface references (ImageStore.shown, prune).        *)
EmittedPixelsKept ==
  /\ sent.images = images
  /\ sent.pixels \subseteq images
  /\ images \subseteq latest \cup shown

(* The screen never loses an image for long: when the consumer's surface    *)
(* lacks an image it was placed with, the very next event is the surface    *)
(* that replaces it (accept_surface, emit_patched, the snapshot arm).       *)
GapClosedByNextEvent ==
  (phase # "stopped" /\ ~(view.pixels \subseteq view.images)) =>
    /\ channel \o outbox # <<>>
    /\ Head(channel \o outbox).kind = "surface"

SurfaceArrives == channel # <<>> /\ Head(channel).kind = "surface" /\ channel' = Tail(channel)

(* A surface reaches the consumer only while the newest snapshot it has     *)
(* taken carries the surface's projection revision, and surface revisions   *)
(* only grow: no surface is presented twice or after a newer one, also when *)
(* it was retained and released by a later snapshot.                        *)
FencedSurfaces ==
  [][SurfaceArrives =>
       LET s == Head(channel).surface
       IN  /\ s.proj = view.rev
           /\ view.surface # None => s.srev > view.surface.srev]_vars

(* Pixels precede the surface that places them: when a surface reaches the  *)
(* consumer, every image of it the store held is already there.             *)
PixelsPrecedeSurface ==
  [][SurfaceArrives => Head(channel).pixels \subseteq view.images]_vars

(* Every surface emitted is seen, or overtaken by a newer one, unless the   *)
(* owner stops the connection: a full channel delays the worker but loses   *)
(* nothing (deliver).                                                       *)
EmittedIsSeen ==
  \A n \in SurfaceRevs :
    (sent.surface # None /\ sent.surface.srev = n)
      ~> (phase = "stopped" \/ (view.surface # None /\ view.surface.srev >= n))
====
