---------------------------- MODULE DevicePairing ----------------------------
(***************************************************************************)
(* How a phone comes to be a paired device.  Three parties act on their    *)
(* own: the pairing dialogs of the app's windows, the remote-control       *)
(* daemon that holds the one open pairing and the device store, and the    *)
(* phones that claim a token they scanned or were sealed nearby.           *)
(*                                                                         *)
(*   dialog   app/pairing.rs (Pairing) driven by gpui remote/dialog.rs     *)
(*   daemon   auth/pairing.rs (Pairings), auth.rs, auth/devices.rs         *)
(*   phone    the HTTP handlers of web/api.rs, as a client uses them       *)
(*                                                                         *)
(* A dialog's request is a call on a connection of its own, so calls of    *)
(* one app reach the daemon in any order.  The daemon serves one at a time *)
(* under its lock.  Pairing ids, tokens and claims are numbers handed out  *)
(* in order; 0 stands for none.  A claim's number is also its matching     *)
(* code and its device: two claims with the same six digits are not        *)
(* modelled.  Time is a set of flags that turn on at any moment: a token   *)
(* ran out, an answer is overdue, a dialog's countdown ended.              *)
(*                                                                         *)
(* Devices that come another way are left out: a phone allowed on another  *)
(* computer is enrolled here by that computer's request (auth.rs, enroll), *)
(* with no claim and no dialog.                                            *)
(***************************************************************************)
EXTENDS Naturals, Sequences, FiniteSets, Bags

CONSTANTS
    Windows,     \* windows that can show the dialog
    MaxReveals,  \* MAX_NEARBY_REVEALS
    Remembered,  \* REMEMBERED_OUTCOMES
    MaxClaims,   \* bound: claims accepted
    SaveFaults,  \* how a save may fail: "before" or "after" its rename
    Budgets      \* bounds, one set per behaviour: the windows that open it,
                 \* nearby phones or not, tokens, opens and restarts, faults

ASSUME PairingBounds ==
    /\ "none" \notin Windows
    /\ MaxReveals \in Nat /\ MaxClaims \in Nat
    /\ Remembered \in Nat \ {0}
    /\ SaveFaults \subseteq {"before", "after"}
    /\ Budgets \subseteq [windows : SUBSET Windows, nearby : BOOLEAN, tokens : Nat,
                          opens : Nat, faults : Nat]

VARIABLES
    pairings,  \* the daemon's Pairings: the open one, and claims' outcomes
    devices,   \* the daemon's device store in memory
    disk,      \* the same store on disk
    calls,     \* requests on their way to the daemon
    dialog,    \* every window's dialog
    ticket,    \* the request every dialog's driver awaits, and its reply
    told,      \* what the phone of every claim last heard
    seen,      \* tokens a phone scanned or was sealed
    count,     \* ids, tokens, claims, opens and faults so far, and their bounds
    past       \* history: claims allowed on screen, raced, and revoked

daemon == <<pairings, devices, disk>>
vars == <<pairings, devices, disk, calls, dialog, ticket, told, seen, count, past>>

Claims == 1 .. MaxClaims

(***************************************************************************)
(* The daemon's Pairings.                                                  *)
(***************************************************************************)
NoPairing ==
    [id |-> 0, token |-> 0, live |-> FALSE, nearby |-> 0, nearbyLive |-> FALSE,
     reveals |-> 0, phase |-> "finished", claim |-> 0, overdue |-> FALSE,
     state |-> "expired"]

\* Whether minting again keeps the pairing's id: nobody claimed it.
Unclaimed(open) == open.id # 0 /\ open.phase # "claimed" /\ open.claim = 0

\* Finishes a claimed pairing and remembers the claim's outcome.
Settle(p, state) ==
    IF p.open.phase # "claimed" THEN p
    ELSE [open |-> [p.open EXCEPT !.phase = "finished", !.state = state, !.overdue = FALSE],
          outcomes |->
              Append(IF Len(p.outcomes) = Remembered THEN Tail(p.outcomes) ELSE p.outcomes,
                     [claim |-> p.open.claim, state |-> state])]

\* Expires tokens nobody claimed in time, or a claim nobody answered.
Refresh(p) ==
    IF p.open.phase = "waiting" /\ ~p.open.live /\ ~p.open.nearbyLive
    THEN [p EXCEPT !.open.phase = "finished", !.open.state = "expired"]
    ELSE IF p.open.overdue THEN Settle(p, "expired") ELSE p

Close(p) == [open |-> NoPairing, outcomes |-> Settle(p, "denied").outcomes]

Mint(p, newId, token) ==
    [open |->
        IF Unclaimed(p.open)
        THEN [p.open EXCEPT !.token = token, !.live = TRUE, !.phase = "waiting"]
        ELSE [NoPairing EXCEPT !.id = newId, !.token = token, !.live = TRUE,
                               !.phase = "waiting"],
     outcomes |-> Close(p).outcomes]

\* What a poll answers for the dialog: a claim's number is its code.
View(open) == [state |-> IF open.phase = "finished" THEN open.state ELSE open.phase,
               claim |-> open.claim]

\* Mutant: a second claim is refused, and the first one stands.
ClaimedFirst(p, token, c) ==
    LET q == Refresh(p)
    IN  IF q.open.phase # "waiting" \/ (token = q.open.token /\ ~q.open.live) THEN q
        ELSE [q EXCEPT !.open.phase = "claimed", !.open.claim = c]

\* The pairing after a phone claims `token` as claim c, when it is one of the
\* open pairing's; claiming a claimed one voids it.
Claimed(p, token, c) ==
    LET q == Refresh(p)
        byNearby == token = q.open.nearby
    IN  CASE q.open.phase = "claimed" -> Settle(q, "denied")
          [] q.open.phase = "waiting"
             /\ (IF byNearby THEN q.open.nearbyLive ELSE q.open.live) ->
                [q EXCEPT !.open.phase = "claimed", !.open.claim = c,
                          !.open.nearby = IF byNearby THEN 0 ELSE @,
                          !.open.nearbyLive = IF byNearby THEN FALSE ELSE @]
          [] OTHER -> q

\* Mutant: a failed save leaves memory changed.
StoredNotUndone(new, save) ==
    /\ devices' = new
    /\ disk' = IF save = "before" THEN disk ELSE new

\* Saves `new` over the store, restoring memory when that fails.  A failure
\* to sync the directory comes after the rename: the disk has the new store.
Stored(new, save) ==
    /\ devices' = IF save = "ok" THEN new ELSE devices
    /\ disk' = IF save = "before" THEN disk ELSE new

\* The saves that can happen now: one that fails is a fault.
Saves == {"ok"} \cup (IF count.faults < count.budget.faults THEN SaveFaults ELSE {})
AfterSave(save) == [count EXCEPT !.faults = IF save = "ok" THEN @ ELSE @ + 1]

(***************************************************************************)
(* Requests and dialogs.                                                   *)
(***************************************************************************)
NoReply == [kind |-> "none"]
Error(code) == [kind |-> "error", code |-> code]
Idle == [call |-> [kind |-> "none"], stale |-> FALSE, reply |-> NoReply]

Call(w, kind, id, claim, allow) ==
    [kind |-> kind, window |-> w, id |-> id, claim |-> claim, allow |-> allow]

\* The same call once nobody awaits it.
Detached(call) == [call EXCEPT !.window = "none"]

NoDialog == [phase |-> "closed", id |-> 0, token |-> 0, code |-> 0,
             answer |-> "none", inFlight |-> FALSE, due |-> FALSE]
Requesting == [NoDialog EXCEPT !.phase = "requesting"]

Init ==
    /\ pairings = [open |-> NoPairing, outcomes |-> <<>>]
    /\ devices = {} /\ disk = {}
    /\ calls = EmptyBag
    /\ dialog = [w \in Windows |-> NoDialog]
    /\ ticket = [w \in Windows |-> Idle]
    /\ told = [c \in Claims |-> "none"]
    /\ seen = {}
    /\ count \in [ids : {0}, tokens : {0}, claims : {0}, opens : {0}, faults : {0},
                  budget : Budgets]
    /\ past = [allowed |-> {}, raced |-> {}, revoked |-> {}]

(***************************************************************************)
(* The dialog.                                                             *)
(***************************************************************************)
OpenDialog(w) ==
    /\ w \in count.budget.windows /\ dialog[w].phase = "closed" /\ count.opens < count.budget.opens
    /\ dialog' = [dialog EXCEPT ![w] = Requesting]
    /\ count' = [count EXCEPT !.opens = @ + 1]
    /\ UNCHANGED <<daemon, calls, ticket, told, seen, past>>

\* The request the dialog's phase asks for.
NextCall(w) ==
    LET d == dialog[w] IN
    CASE d.phase = "requesting" \/ (d.phase = "showing" /\ d.due) ->
            Call(w, "pair", 0, 0, FALSE)
      [] d.phase = "claimed" /\ d.answer # "none" ->
            Call(w, "approve", d.id, d.code, d.answer = "allow")
      [] OTHER -> Call(w, "pairing", d.id, 0, FALSE)

Send(w) ==
    /\ ticket[w] = Idle /\ ~dialog[w].inFlight
    /\ dialog[w].phase \in {"requesting", "showing", "claimed"}
    /\ dialog' = [dialog EXCEPT ![w].inFlight = TRUE]
    /\ ticket' = [ticket EXCEPT ![w].call = NextCall(w)]
    /\ calls' = calls (+) SetToBag({NextCall(w)})
    /\ UNCHANGED <<daemon, told, seen, count, past>>

\* The countdown ends: the next request asks for a fresh QR.
Deadline(w) ==
    /\ dialog[w].phase = "showing" /\ ~dialog[w].due
    /\ dialog' = [dialog EXCEPT ![w].due = TRUE]
    /\ UNCHANGED <<daemon, calls, ticket, told, seen, count, past>>

\* Mutant: the request in flight still counts as the dialog's.
AnswerWhileAsking(w, allow) ==
    /\ dialog[w].phase = "claimed" /\ dialog[w].answer = "none"
    /\ dialog' = [dialog EXCEPT ![w].answer = IF allow THEN "allow" ELSE "deny"]
    /\ ticket' = [ticket EXCEPT ![w].stale = ticket[w] # Idle]
    /\ past' = [past EXCEPT !.allowed = IF allow THEN @ \cup {dialog[w].code} ELSE @]
    /\ UNCHANGED <<daemon, calls, told, seen, count>>

\* The user's Allow or Deny.  An answer already on its way is made stale.
Answer(w, allow) ==
    /\ dialog[w].phase = "claimed" /\ dialog[w].answer = "none"
    /\ dialog' = [dialog EXCEPT ![w].answer = IF allow THEN "allow" ELSE "deny",
                                ![w].inFlight = FALSE]
    /\ ticket' = [ticket EXCEPT ![w].stale = ticket[w] # Idle]
    /\ past' = [past EXCEPT !.allowed = IF allow THEN @ \cup {dialog[w].code} ELSE @]
    /\ UNCHANGED <<daemon, calls, told, seen, count>>

RestartDialog(w) ==
    /\ dialog[w].phase \in {"expired", "failed"} /\ count.opens < count.budget.opens
    /\ dialog' = [dialog EXCEPT ![w] = Requesting]
    /\ count' = [count EXCEPT !.opens = @ + 1]
    /\ UNCHANGED <<daemon, calls, ticket, told, seen, past>>

\* Closing drops the awaited request, which may have gone out or not, and
\* cancels the pairing the dialog knows of.
CloseDialog(w) ==
    /\ dialog[w].phase # "closed"
    /\ dialog' = [dialog EXCEPT ![w] = NoDialog]
    /\ ticket' = [ticket EXCEPT ![w] = Idle]
    /\ LET mine == {c \in BagToSet(calls) : c.window = w}
           cancel == IF dialog[w].phase \in {"showing", "claimed"}
                     THEN {Call("none", "cancel", dialog[w].id, 0, FALSE)} ELSE {}
       IN  \E sent \in SUBSET mine :
               calls' = (calls (-) SetToBag(mine))
                            (+) SetToBag({Detached(c) : c \in sent}) (+) SetToBag(cancel)
    /\ UNCHANGED <<daemon, told, seen, count, past>>

(***************************************************************************)
(* What a dialog makes of a reply.                                         *)
(***************************************************************************)
\* The daemon no longer holds the dialog's pairing.
Lost(d) ==
    CASE d.phase = "claimed" -> [NoDialog EXCEPT !.phase = "expired"]
      [] d.phase = "showing" -> Requesting
      [] OTHER -> d

Updated(d, view) ==
    CASE view.state = "denied" -> [NoDialog EXCEPT !.phase = "denied"]
      [] view.state = "expired" -> Lost(d)
      [] view.state = "approved" -> [NoDialog EXCEPT !.phase = "approved", !.code = view.claim]
      [] view.state = "claimed" /\ d.phase = "showing" ->
            [d EXCEPT !.phase = "claimed", !.code = view.claim, !.token = 0, !.due = FALSE]
      [] view.state = "waiting" /\ d.phase = "showing" -> [d EXCEPT !.due = FALSE]
      [] OTHER -> d

\* The dialog after a current reply to its request.
Received(d, call, reply) ==
    CASE reply.kind = "error" ->
            IF reply.code = "unknownPairing" THEN Lost(d)
            ELSE [NoDialog EXCEPT !.phase = "failed"]
      [] reply.kind = "offer" ->
            [NoDialog EXCEPT !.phase = "showing", !.id = reply.id, !.token = reply.token]
      [] reply.kind = "view" -> IF d.id = call.id THEN Updated(d, reply.view) ELSE d

Receive(w) ==
    LET t == ticket[w]
        d == [dialog[w] EXCEPT !.inFlight = FALSE]
    IN  /\ t.reply # NoReply
        /\ ticket' = [ticket EXCEPT ![w] = Idle]
        /\ dialog' = IF t.stale THEN dialog
                     ELSE [dialog EXCEPT ![w] = Received(d, t.call, t.reply)]
        /\ seen' = IF t.reply.kind = "offer" /\ ~t.stale THEN seen \cup {t.reply.token}
                   ELSE seen
        /\ UNCHANGED <<daemon, calls, told, count, past>>

\* The offer arrives, but its link cannot be shown at the preferred address.
ShowFails(w) ==
    /\ ticket[w].reply.kind = "offer" /\ ~ticket[w].stale
    /\ count.faults < count.budget.faults
    /\ ticket' = [ticket EXCEPT ![w] = Idle]
    /\ dialog' = [dialog EXCEPT ![w] = [NoDialog EXCEPT !.phase = "failed"]]
    /\ count' = [count EXCEPT !.faults = @ + 1]
    /\ UNCHANGED <<daemon, calls, told, seen, past>>

(***************************************************************************)
(* The daemon serves a call.                                               *)
(***************************************************************************)
\* Takes `call` off the wire and hands its reply to the driver awaiting it.
Reply(call, reply) ==
    /\ calls' = calls (-) SetToBag({call})
    /\ ticket' = IF call.window = "none" THEN ticket
                 ELSE [ticket EXCEPT ![call.window].reply = reply]

ServePair(call) ==
    /\ call.kind = "pair" /\ count.tokens < count.budget.tokens
    /\ LET p == Mint(pairings, count.ids + 1, count.tokens + 1)
       IN  /\ pairings' = p
           /\ Reply(call, [kind |-> "offer", id |-> p.open.id, token |-> p.open.token])
           /\ count' = [count EXCEPT !.tokens = @ + 1,
                                     !.ids = IF Unclaimed(pairings.open) THEN @ ELSE @ + 1]
    /\ UNCHANGED <<devices, disk, dialog, told, seen, past>>

ServePoll(call) ==
    /\ call.kind = "pairing"
    /\ IF pairings.open.id # call.id
       THEN Reply(call, Error("unknownPairing")) /\ UNCHANGED pairings
       ELSE /\ pairings' = Refresh(pairings)
            /\ Reply(call, [kind |-> "view", view |-> View(pairings'.open)])
    /\ UNCHANGED <<devices, disk, dialog, told, seen, count, past>>

\* Mutant: an approval is for whichever claim is pending.
ApprovesOpen(p, call) == p.open.phase = "claimed" /\ call.allow

\* Whether a call approves the open pairing's claim: the dialog names the
\* pairing and the code it showed.
Approves(p, call) ==
    /\ p.open.id = call.id /\ p.open.phase = "claimed"
    /\ call.allow /\ p.open.claim = call.claim

\* Approval stores the device before anyone can learn of it, and becomes a
\* denial when the store fails or the code is another claim's.
ServeApprove(call, save) ==
    /\ call.kind = "approve"
    /\ LET p == Refresh(pairings)
           mine == p.open.id = call.id
           approved == Approves(p, call) /\ save = "ok"
           q == IF mine THEN Settle(p, IF approved THEN "approved" ELSE "denied") ELSE pairings
       IN  /\ save # "ok" => Approves(p, call)
           /\ pairings' = q
           /\ IF Approves(p, call)
              THEN Stored(devices \cup {p.open.claim}, save)
              ELSE UNCHANGED <<devices, disk>>
           /\ Reply(call,
                    CASE ~mine -> Error("unknownPairing")
                      [] mine /\ p.open.phase = "claimed" /\ (call.allow => approved) ->
                            [kind |-> "view", view |-> View(q.open)]
                      [] OTHER -> Error("refused"))
    /\ count' = AfterSave(save)
    /\ UNCHANGED <<dialog, told, seen, past>>

ServeCancel(call) ==
    /\ call.kind = "cancel"
    /\ pairings' = IF pairings.open.id = call.id THEN Close(pairings) ELSE pairings
    /\ Reply(call, NoReply)
    /\ UNCHANGED <<devices, disk, dialog, told, seen, count, past>>

Serve(w) ==
    \E call \in {c \in BagToSet(calls) : c.window = w} :
        \/ ServePair(call)
        \/ ServePoll(call)
        \/ \E save \in Saves : ServeApprove(call, save)
        \/ ServeCancel(call)

\* A call that fails before it reaches the daemon, or is refused unserved
\* (no address to pair at).
CallFails(call) ==
    /\ count.faults < count.budget.faults
    /\ Reply(call, Error("failed"))
    /\ count' = [count EXCEPT !.faults = @ + 1]
    /\ UNCHANGED <<daemon, dialog, told, seen, past>>

\* The client gives up on an answer that is late (RESPONSE_TIMEOUT); the
\* daemon serves the call all the same.
CallTimesOut(call) ==
    /\ count.faults < count.budget.faults
    /\ call.window # "none"
    /\ calls' = (calls (-) SetToBag({call})) (+) SetToBag({Detached(call)})
    /\ ticket' = [ticket EXCEPT ![call.window].reply = Error("failed")]
    /\ count' = [count EXCEPT !.faults = @ + 1]
    /\ UNCHANGED <<daemon, dialog, told, seen, past>>

(***************************************************************************)
(* Phones, the user's device list, and time.                               *)
(***************************************************************************)
\* A phone claims a token it has.  `raced` notes a claim voided by another.
Claim(token) ==
    /\ token \in {pairings.open.token, pairings.open.nearby}
    /\ count.claims < MaxClaims
    /\ LET c == count.claims + 1
           p == Claimed(pairings, token, c)
           accepted == p.open.claim = c
       IN  /\ pairings' = p
           /\ count' = [count EXCEPT !.claims = IF accepted THEN c ELSE @]
           /\ told' = IF accepted THEN [told EXCEPT ![c] = "waiting"] ELSE told
           /\ past' = [past EXCEPT !.raced =
                          IF Refresh(pairings).open.phase = "claimed"
                          THEN @ \cup {pairings.open.claim} ELSE @]
    /\ UNCHANGED <<devices, disk, calls, dialog, ticket, seen>>

\* A nearby phone agreed on a code with the daemon and is sealed a token.
NearbyReveal ==
    LET p == Refresh(pairings)
        sealed == p.open.phase = "waiting" /\ p.open.reveals < MaxReveals
    IN  /\ count.budget.nearby /\ pairings.open.id # 0 /\ count.tokens < count.budget.tokens
        /\ pairings' = IF sealed
                       THEN [p EXCEPT !.open.reveals = @ + 1, !.open.nearbyLive = TRUE,
                                      !.open.nearby = count.tokens + 1]
                       ELSE p
        /\ seen' = IF sealed THEN seen \cup {count.tokens + 1} ELSE seen
        /\ count' = [count EXCEPT !.tokens = IF sealed THEN @ + 1 ELSE @]
        /\ UNCHANGED <<devices, disk, calls, dialog, ticket, told, past>>

\* The phone asks how its claim stands, until it hears an outcome.
ClaimStatus(c) ==
    /\ told[c] = "waiting"
    /\ LET p == Refresh(pairings)
           known == {i \in DOMAIN p.outcomes : p.outcomes[i].claim = c}
       IN  /\ pairings' = p
           /\ told' = [told EXCEPT ![c] =
                 CASE p.open.phase = "claimed" /\ p.open.claim = c -> "waiting"
                   [] known # {} -> p.outcomes[CHOOSE i \in known : TRUE].state
                   [] OTHER -> "lost"]
    /\ UNCHANGED <<devices, disk, calls, dialog, ticket, seen, count, past>>

\* The user revokes a device, or it was idle too long.
Revoke(d, save) ==
    /\ d \in devices
    /\ Stored(devices \ {d}, save)
    /\ count' = AfterSave(save)
    /\ past' = [past EXCEPT !.revoked = IF save = "before" THEN @ ELSE @ \cup {d}]
    /\ UNCHANGED <<pairings, calls, dialog, ticket, told, seen>>

TokenExpires ==
    /\ pairings.open.live
    /\ pairings' = [pairings EXCEPT !.open.live = FALSE]
    /\ UNCHANGED <<devices, disk, calls, dialog, ticket, told, seen, count, past>>

NearbyExpires ==
    /\ pairings.open.nearbyLive
    /\ pairings' = [pairings EXCEPT !.open.nearbyLive = FALSE]
    /\ UNCHANGED <<devices, disk, calls, dialog, ticket, told, seen, count, past>>

ApprovalExpires ==
    /\ pairings.open.phase = "claimed" /\ ~pairings.open.overdue
    /\ pairings' = [pairings EXCEPT !.open.overdue = TRUE]
    /\ UNCHANGED <<devices, disk, calls, dialog, ticket, told, seen, count, past>>

\* The daemon restarts: pairings are gone, devices are what the disk holds,
\* and every request it had taken or would have taken fails.
RestartDaemon ==
    /\ count.faults < count.budget.faults
    /\ pairings' = [open |-> NoPairing, outcomes |-> <<>>]
    /\ devices' = disk
    /\ calls' = EmptyBag
    /\ ticket' = [w \in Windows |->
                     IF ticket[w] = Idle THEN Idle ELSE [ticket[w] EXCEPT !.reply = Error("failed")]]
    /\ count' = [count EXCEPT !.faults = @ + 1]
    /\ UNCHANGED <<disk, dialog, told, seen, past>>

Next ==
    \/ \E w \in Windows :
          \/ OpenDialog(w) \/ Send(w) \/ Deadline(w) \/ RestartDialog(w) \/ CloseDialog(w)
          \/ Receive(w) \/ ShowFails(w)
          \/ \E allow \in BOOLEAN : Answer(w, allow)
    \/ \E w \in Windows \cup {"none"} : Serve(w)
    \/ \E call \in BagToSet(calls) : CallFails(call) \/ CallTimesOut(call)
    \/ \E token \in seen : Claim(token)
    \/ NearbyReveal
    \/ \E c \in Claims : ClaimStatus(c)
    \/ \E d \in devices, save \in Saves : Revoke(d, save)
    \/ TokenExpires \/ NearbyExpires \/ ApprovalExpires
    \/ RestartDaemon

\* The driver loops until its dialog closes, the daemon serves every
\* connection, and an unanswered claim's two minutes pass.  Nothing makes the
\* user answer, or a phone claim or poll.
Spec ==
    /\ Init /\ [][Next]_vars
    /\ WF_vars(ApprovalExpires)
    /\ \A w \in Windows : WF_vars(Send(w)) /\ WF_vars(Serve(w)) /\ WF_vars(Receive(w))

(***************************************************************************)
(* Properties.                                                             *)
(***************************************************************************)
Outcomes == {"approved", "denied", "expired"}
Opens ==
    [id : Nat, token : Nat, live : BOOLEAN, nearby : Nat, nearbyLive : BOOLEAN,
     reveals : Nat, phase : {"waiting", "claimed", "finished"}, claim : Nat,
     overdue : BOOLEAN, state : Outcomes]
PairingStates == [open : Opens, outcomes : Seq([claim : Nat, state : Outcomes])]
Calls ==
    [kind : {"pair", "pairing", "approve", "cancel"}, window : Windows \cup {"none"},
     id : Nat, claim : Nat, allow : BOOLEAN]
Views == [state : {"waiting", "claimed"} \cup Outcomes, claim : Nat]
Replies ==
    {NoReply} \cup [kind : {"error"}, code : {"unknownPairing", "refused", "failed"}]
        \cup [kind : {"offer"}, id : Nat, token : Nat] \cup [kind : {"view"}, view : Views]
Dialogs ==
    [phase : {"closed", "requesting", "showing", "claimed", "failed"} \cup Outcomes,
     id : Nat, token : Nat, code : Nat, answer : {"none", "allow", "deny"},
     inFlight : BOOLEAN, due : BOOLEAN]
Tickets == [call : Calls \cup {Idle.call}, stale : BOOLEAN, reply : Replies]

\* The daemon, the calls, the dialogs and their tickets, and what phones were
\* told have their types; a window's driver awaits at most one call.
TypeOK ==
    /\ pairings \in PairingStates
    /\ devices \subseteq Nat /\ disk \subseteq Nat /\ seen \subseteq Nat
    /\ BagToSet(calls) \subseteq Calls
    /\ dialog \in [Windows -> Dialogs]
    /\ ticket \in [Windows -> Tickets]
    /\ told \in [Claims -> {"none", "waiting", "lost"} \cup Outcomes]
    /\ count \in [ids : Nat, tokens : Nat, claims : Nat, opens : Nat, faults : Nat,
                  budget : Budgets]
    /\ past \in [allowed : SUBSET Nat, raced : SUBSET Nat, revoked : SUBSET Nat]

\* Every device paired through a claim, in memory and on disk, is one the user
\* allowed in a dialog that showed its code: a late, detached, timed out or
\* crossed approval (answer_with_hosts) never admits the claim of another
\* phone.  Devices enrolled by another computer are not claims.
AllowedAsShown == devices \cup disk \subseteq past.allowed

\* A phone told it is approved is on disk, unless it was removed since, and a
\* phone told it was denied or expired is not a device, a daemon restart or
\* a failed save between the two notwithstanding (Pairings::answer).  It holds
\* where SaveFaults = {"before"}: a save that fails after its rename leaves on
\* disk what memory takes back, see MemoryOnDisk.
ToldAsKept ==
    \A c \in Claims :
        /\ told[c] = "approved" => c \in disk \cup past.revoked
        /\ told[c] \in {"denied", "expired"} => c \notin devices \cup disk

\* When a second phone claims a pairing whose claim awaits the answer,
\* neither becomes a device, whatever the dialog answers (Pairings::claim).
\* A nearby token used again while its own claim waits is not such a race: it
\* is no longer held, so it is invalid and voids nothing, although the comment
\* on claim has it that claiming a token twice voids the pairing.
RacedIsVoid == past.raced \cap (devices \cup disk) = {}

\* A dialog showing a claim always comes to an outcome, be the claim answered
\* while a poll is in flight, answered elsewhere, overdue, or lost with the
\* daemon (Pairing::next and Pairing::receive).
DialogSettles ==
    \A w \in Windows : dialog[w].phase = "claimed" ~> dialog[w].phase # "claimed"

\* Once every dialog is closed and its calls are served, no token of a
\* pairing can be claimed (PairingDialog::close).  Violated: a dialog that
\* closes while its request for a pairing is under way knows none to cancel.
ClosedStopsTokens ==
    (\A w \in Windows : dialog[w].phase = "closed") /\ calls = EmptyBag
        => ~(pairings.open.phase = "waiting" /\ (pairings.open.live \/ pairings.open.nearbyLive))

\* Memory never claims a device the disk lacks (Devices::save_or_undo).
\* Violated: a removal whose directory cannot be synced is undone in memory,
\* after the rename.
MemoryOnDisk == devices \subseteq disk
=============================================================================
