------------------------- MODULE DevicePairingProofs -------------------------
(***************************************************************************)
(* Proofs about DevicePairing, for any windows, phones, budgets and ways a *)
(* save may fail.                                                          *)
(***************************************************************************)
EXTENDS DevicePairing, TLAPS

\* An approval under way, or given and not yet sent, is for a claim the user
\* allowed.
Approving ==
    /\ \A call \in BagToSet(calls) :
           call.kind = "approve" /\ call.allow => call.claim \in past.allowed
    /\ \A w \in Windows :
           dialog[w].answer = "allow" =>
               dialog[w].phase = "claimed" /\ dialog[w].code \in past.allowed

\* Claims are numbered as they are made; the pending one is new to the store
\* and was not raced for.
Pending ==
    /\ pairings.open.claim <= count.claims
    /\ \A c \in past.raced \cup devices \cup disk : 0 < c /\ c <= count.claims
    /\ pairings.open.phase = "claimed" =>
           0 < pairings.open.claim /\ pairings.open.claim \notin past.raced \cup devices \cup disk

\* The inductive invariant of the theorems below.
IInv == TypeOK /\ Approving /\ Pending /\ AllowedAsShown /\ RacedIsVoid

-----------------------------------------------------------------------------
(* Bags of calls. *)

\* What a bag holds after adding, taking away or starting over.
LEMMA BagMembers ==
    ASSUME NEW A, NEW B, NEW S
    PROVE  /\ BagToSet(A (+) B) = BagToSet(A) \cup BagToSet(B)
           /\ BagToSet(A (-) B) \subseteq BagToSet(A)
           /\ BagToSet(SetToBag(S)) = S
           /\ BagToSet(EmptyBag) = {}
BY DEF (+), (-), BagToSet, SetToBag, EmptyBag

\* A sequence's entries are of its type.
LEMMA OutcomeOf ==
    ASSUME NEW S, NEW s \in Seq(S)
    PROVE  \A i \in DOMAIN s : s[i] \in S
<1>1. DOMAIN s = 1 .. Len(s)
  OBVIOUS
<1>2. \A i \in 1 .. Len(s) : s[i] \in S
  OBVIOUS
<1> QED
  BY <1>1, <1>2

-----------------------------------------------------------------------------
(* The daemon's Pairings. *)

\* Settling keeps the pairing and its claim, and leaves nothing pending.
LEMMA SettleKeeps ==
    ASSUME NEW p \in PairingStates, NEW state \in Outcomes
    PROVE  /\ Settle(p, state) \in PairingStates
           /\ Settle(p, state).open.claim = p.open.claim
           /\ Settle(p, state).open.phase # "claimed"
<1>1. CASE p.open.phase # "claimed"
  BY <1>1 DEF Settle
<1>2. CASE p.open.phase = "claimed"
  <2> DEFINE o == [p.open EXCEPT !.phase = "finished", !.state = state, !.overdue = FALSE]
             old == IF Len(p.outcomes) = Remembered THEN Tail(p.outcomes) ELSE p.outcomes
             new == [claim |-> p.open.claim, state |-> state]
  <2>1. p.open \in Opens /\ p.outcomes \in Seq([claim : Nat, state : Outcomes])
    BY DEF PairingStates
  <2>2. o \in Opens /\ o.claim = p.open.claim /\ o.phase = "finished"
    BY <2>1 DEF Opens
  <2>3. new \in [claim : Nat, state : Outcomes]
    BY <2>1 DEF Opens
  <2>4. old \in Seq([claim : Nat, state : Outcomes])
    <3>1. CASE Len(p.outcomes) = Remembered
      <4>1. p.outcomes # <<>>
        BY <2>1, <3>1, PairingBounds
      <4> QED
        BY <2>1, <3>1, <4>1
    <3>2. CASE Len(p.outcomes) # Remembered
      BY <2>1, <3>2
    <3> QED
      BY <3>1, <3>2
  <2>5. Append(old, new) \in Seq([claim : Nat, state : Outcomes])
    BY <2>3, <2>4
  <2>6. Settle(p, state) = [open |-> o, outcomes |-> Append(old, new)]
    BY <1>2 DEF Settle
  <2> HIDE DEF o, old, new
  <2> QED
    BY <2>2, <2>5, <2>6 DEF PairingStates
<1> QED
  BY <1>1, <1>2

\* Refreshing keeps the pairing and its claim, and makes nothing pending.
LEMMA RefreshKeeps ==
    ASSUME NEW p \in PairingStates
    PROVE  /\ Refresh(p) \in PairingStates
           /\ Refresh(p).open.claim = p.open.claim
           /\ Refresh(p).open.phase = "claimed" => p.open.phase = "claimed"
<1>1. CASE p.open.phase = "waiting" /\ ~p.open.live /\ ~p.open.nearbyLive
  BY <1>1 DEF Refresh, PairingStates, Opens, Outcomes
<1>2. CASE p.open.overdue /\ ~(p.open.phase = "waiting" /\ ~p.open.live /\ ~p.open.nearbyLive)
  BY <1>2, SettleKeeps DEF Refresh, Outcomes
<1>3. CASE ~p.open.overdue /\ ~(p.open.phase = "waiting" /\ ~p.open.live /\ ~p.open.nearbyLive)
  BY <1>3 DEF Refresh
<1> QED
  BY <1>1, <1>2, <1>3

\* No pairing is open and none is claimed.
LEMMA NoPairingType == NoPairing \in Opens /\ NoPairing.claim = 0 /\ NoPairing.phase = "finished"
BY DEF NoPairing, Opens, Outcomes

\* Closing leaves no claim.
LEMMA CloseType ==
    ASSUME NEW p \in PairingStates
    PROVE  /\ Close(p) \in PairingStates
           /\ Close(p).open.claim = 0 /\ Close(p).open.phase = "finished"
<1>1. Settle(p, "denied") \in PairingStates
  BY SettleKeeps DEF Outcomes
<1> QED
  BY <1>1, NoPairingType DEF Close, PairingStates

\* Minting leaves no claim: a pairing that keeps its id had none.
LEMMA MintType ==
    ASSUME NEW p \in PairingStates, NEW id \in Nat, NEW token \in Nat
    PROVE  /\ Mint(p, id, token) \in PairingStates
           /\ Mint(p, id, token).open.claim = 0
           /\ Mint(p, id, token).open.phase = "waiting"
<1>1. Close(p).outcomes \in Seq([claim : Nat, state : Outcomes])
  BY CloseType DEF PairingStates
<1>2. p.open \in Opens
  BY DEF PairingStates
<1>3. CASE Unclaimed(p.open)
  <2>1. [p.open EXCEPT !.token = token, !.live = TRUE, !.phase = "waiting"] \in Opens
    BY <1>2 DEF Opens
  <2> QED
    BY <1>1, <1>2, <1>3, <2>1 DEF Mint, PairingStates, Unclaimed, Opens
<1>4. CASE ~Unclaimed(p.open)
  <2> DEFINE o == [NoPairing EXCEPT !.id = id, !.token = token, !.live = TRUE, !.phase = "waiting"]
  <2>1. o \in Opens /\ o.claim = 0 /\ o.phase = "waiting"
    BY NoPairingType DEF Opens
  <2>2. Mint(p, id, token) = [open |-> o, outcomes |-> Close(p).outcomes]
    BY <1>4 DEF Mint
  <2> HIDE DEF o
  <2> QED
    BY <1>1, <2>1, <2>2 DEF PairingStates
<1> QED
  BY <1>3, <1>4

\* A claim is accepted while nothing is pending, or voids what is.
LEMMA ClaimedType ==
    ASSUME NEW p \in PairingStates, NEW token \in Nat, NEW c \in Nat
    PROVE  /\ Claimed(p, token, c) \in PairingStates
           /\ \/ Claimed(p, token, c).open.claim = c /\ Refresh(p).open.phase # "claimed"
              \/ /\ Claimed(p, token, c).open.claim = p.open.claim
                 /\ Claimed(p, token, c).open.phase # "claimed"
<1> DEFINE q == Refresh(p)
           byNearby == token = q.open.nearby
           live == IF byNearby THEN q.open.nearbyLive ELSE q.open.live
           r == [q EXCEPT !.open.phase = "claimed", !.open.claim = c,
                          !.open.nearby = IF byNearby THEN 0 ELSE @,
                          !.open.nearbyLive = IF byNearby THEN FALSE ELSE @]
<1>1. q \in PairingStates /\ q.open.claim = p.open.claim
  BY RefreshKeeps
<1>2. q.open \in Opens
  BY <1>1 DEF PairingStates
<1>3. CASE q.open.phase = "claimed"
  <2>1. Claimed(p, token, c) = Settle(q, "denied")
    BY <1>3 DEF Claimed
  <2> QED
    BY <1>1, <2>1, SettleKeeps DEF Outcomes
<1>4. CASE q.open.phase = "waiting" /\ live
  <2>1. Claimed(p, token, c) = r
    BY <1>4 DEF Claimed
  <2>2. r \in PairingStates /\ r.open.claim = c
    BY <1>1, <1>2 DEF PairingStates, Opens
  <2> QED
    BY <1>4, <2>1, <2>2
<1>5. CASE q.open.phase # "claimed" /\ ~(q.open.phase = "waiting" /\ live)
  <2>1. Claimed(p, token, c) = q
    BY <1>5 DEF Claimed
  <2> QED
    BY <1>1, <1>5, <2>1
<1> QED
  BY <1>3, <1>4, <1>5

\* A poll answers with a view.
LEMMA ViewType ==
    ASSUME NEW o \in Opens
    PROVE  View(o) \in Views
BY DEF View, Views, Opens, Outcomes

-----------------------------------------------------------------------------
(* Dialogs and calls. *)

\* The dialogs a step starts over with carry no answer.
LEMMA DialogTypes ==
    /\ NoDialog \in Dialogs /\ Requesting \in Dialogs
    /\ NoDialog.answer = "none" /\ Requesting.answer = "none"
    /\ \A phase \in {"failed"} \cup Outcomes :
           /\ [NoDialog EXCEPT !.phase = phase] \in Dialogs
           /\ [NoDialog EXCEPT !.phase = phase].answer = "none"
<1>1. NoDialog \in Dialogs /\ NoDialog.answer = "none"
  BY DEF NoDialog, Dialogs, Outcomes
<1>2. \A phase \in {"failed", "requesting"} \cup Outcomes :
         /\ [NoDialog EXCEPT !.phase = phase] \in Dialogs
         /\ [NoDialog EXCEPT !.phase = phase].answer = "none"
  BY <1>1 DEF Dialogs, Outcomes
<1> QED
  BY <1>1, <1>2 DEF Requesting

\* Losing the pairing drops an answer: a claimed dialog starts over.
LEMMA LostType ==
    ASSUME NEW d \in Dialogs
    PROVE  /\ Lost(d) \in Dialogs
           /\ Lost(d).answer = "allow" => Lost(d) = d /\ d.phase # "claimed"
BY DialogTypes DEF Lost, Outcomes

\* An update types, and gives no answer of its own: an answer allowed after
\* it was allowed before it, for the same code.
LEMMA UpdatedType ==
    ASSUME NEW d \in Dialogs, NEW view \in Views
    PROVE  /\ Updated(d, view) \in Dialogs
           /\ Updated(d, view).answer = "allow" =>
                  d.answer = "allow" /\ (d.phase # "claimed" \/ Updated(d, view) = d)
<1>1. CASE view.state = "denied"
  BY <1>1, DialogTypes DEF Updated, Outcomes
<1>2. CASE view.state = "expired"
  BY <1>2, LostType DEF Updated
<1>3. CASE view.state = "approved"
  <2> DEFINE e == [NoDialog EXCEPT !.phase = "approved", !.code = view.claim]
  <2>1. e \in Dialogs /\ e.answer = "none"
    BY DialogTypes DEF Dialogs, Views, Outcomes
  <2>2. Updated(d, view) = e
    BY <1>3 DEF Updated
  <2> HIDE DEF e
  <2> QED
    BY <2>1, <2>2
<1>4. CASE view.state = "claimed" /\ d.phase = "showing"
  <2> DEFINE e == [d EXCEPT !.phase = "claimed", !.code = view.claim, !.token = 0, !.due = FALSE]
  <2>1. e \in Dialogs /\ e.answer = d.answer
    BY DEF Dialogs, Views
  <2>2. Updated(d, view) = e
    BY <1>4 DEF Updated
  <2> HIDE DEF e
  <2> QED
    BY <1>4, <2>1, <2>2
<1>5. CASE view.state = "waiting" /\ d.phase = "showing"
  <2>1. Updated(d, view) = [d EXCEPT !.due = FALSE]
    BY <1>5 DEF Updated
  <2> QED
    BY <1>5, <2>1 DEF Dialogs
<1>6. CASE view.state \in {"claimed", "waiting"} /\ d.phase # "showing"
  BY <1>6 DEF Updated
<1> QED
  BY <1>1, <1>2, <1>3, <1>4, <1>5, <1>6 DEF Views, Outcomes

\* A reply types, and keeps an answer only by leaving a claimed dialog alone.
LEMMA ReceivedType ==
    ASSUME NEW d \in Dialogs, NEW call, NEW reply \in Replies, reply # NoReply
    PROVE  /\ Received(d, call, reply) \in Dialogs
           /\ Received(d, call, reply).answer = "allow" =>
                  d.answer = "allow" /\ (d.phase # "claimed" \/ Received(d, call, reply) = d)
<1>1. CASE reply \in [kind : {"error"}, code : {"unknownPairing", "refused", "failed"}]
  <2>1. Received(d, call, reply) =
           IF reply.code = "unknownPairing" THEN Lost(d) ELSE [NoDialog EXCEPT !.phase = "failed"]
    BY <1>1 DEF Received
  <2> QED
    BY <2>1, LostType, DialogTypes
<1>2. CASE reply \in [kind : {"offer"}, id : Nat, token : Nat]
  <2> DEFINE e == [NoDialog EXCEPT !.phase = "showing", !.id = reply.id, !.token = reply.token]
  <2>1. Received(d, call, reply) = e
    BY <1>2 DEF Received
  <2>2. e \in Dialogs /\ e.answer = "none"
    BY <1>2, DialogTypes DEF Dialogs
  <2> HIDE DEF e
  <2> QED
    BY <2>1, <2>2
<1>3. CASE reply \in [kind : {"view"}, view : Views]
  <2>1. Received(d, call, reply) = IF d.id = call.id THEN Updated(d, reply.view) ELSE d
    BY <1>3 DEF Received
  <2>2. reply.view \in Views
    BY <1>3
  <2> QED
    BY <2>1, <2>2, UpdatedType
<1> QED
  BY <1>1, <1>2, <1>3 DEF Replies

\* Serving a call takes it off the wire and types the awaiting ticket.
LEMMA ReplyType ==
    ASSUME TypeOK, NEW call \in Calls, NEW reply \in Replies, Reply(call, reply)
    PROVE  BagToSet(calls') \subseteq BagToSet(calls) /\ ticket' \in [Windows -> Tickets]
<1>1. BagToSet(calls') \subseteq BagToSet(calls)
  BY BagMembers DEF Reply
<1>2. CASE call.window = "none"
  BY <1>1, <1>2 DEF Reply, TypeOK
<1>3. CASE call.window # "none"
  <2>1. call.window \in Windows
    BY <1>3 DEF Calls
  <2>2. ticket' = [ticket EXCEPT ![call.window].reply = reply]
    BY <1>3 DEF Reply
  <2>3. [ticket[call.window] EXCEPT !.reply = reply] \in Tickets
    BY <2>1 DEF TypeOK, Tickets
  <2> QED
    BY <1>1, <2>1, <2>2, <2>3 DEF TypeOK
<1> QED
  BY <1>2, <1>3

\* A driver that awaits nothing has a ticket.
LEMMA IdleType == Idle \in Tickets /\ NoReply \in Replies
BY DEF Idle, Tickets, Replies, NoReply

\* The request a dialog asks for types, and approves only what it was
\* allowed to.
LEMMA NextCallType ==
    ASSUME NEW w \in Windows, dialog[w] \in Dialogs
    PROVE  /\ NextCall(w) \in Calls
           /\ NextCall(w).kind = "approve" /\ NextCall(w).allow =>
                  dialog[w].answer = "allow" /\ NextCall(w).claim = dialog[w].code
BY DEF NextCall, Call, Calls, Dialogs

-----------------------------------------------------------------------------
(* Frames: what is left to check of a step that leaves the daemon, or the  *)
(* dialogs and the calls, alone.                                           *)

\* Dialogs and calls have no part in the rest of the invariant.
LEMMA DaemonFrame ==
    ASSUME IInv, TypeOK', Approving', UNCHANGED daemon, count'.claims = count.claims,
           past.allowed \subseteq past'.allowed, past'.raced = past.raced
    PROVE  IInv'
BY DEF IInv, Pending, AllowedAsShown, RacedIsVoid, daemon

\* Nor has the daemon in what the dialogs approve.
LEMMA DialogFrame ==
    ASSUME IInv, BagToSet(calls') \subseteq BagToSet(calls), UNCHANGED dialog,
           past'.allowed = past.allowed
    PROVE  Approving'
BY DEF IInv, Approving

\* The pairing changes as a refresh does: nothing becomes pending.
LEMMA PairingFrame ==
    ASSUME IInv, TypeOK', Approving', UNCHANGED <<devices, disk>>,
           count'.claims = count.claims, past' = past,
           pairings'.open.claim \in {0, pairings.open.claim},
           pairings'.open.phase = "claimed" =>
               pairings.open.phase = "claimed" /\ pairings'.open.claim = pairings.open.claim
    PROVE  IInv'
<1>1. count.claims \in Nat
  BY DEF IInv, TypeOK
<1> QED
  BY <1>1 DEF IInv, Pending, AllowedAsShown, RacedIsVoid

-----------------------------------------------------------------------------
(* The dialog's steps. *)

\* A dialog that opens, or starts over, has no answer.
LEMMA OpenKeeps ==
    ASSUME IInv, NEW w \in Windows, OpenDialog(w) \/ RestartDialog(w)
    PROVE  IInv'
<1>1. /\ dialog' = [dialog EXCEPT ![w] = Requesting]
      /\ count' = [count EXCEPT !.opens = @ + 1]
      /\ UNCHANGED <<daemon, calls, ticket, told, seen, past>>
  BY DEF OpenDialog, RestartDialog
<1>2. TypeOK'
  BY <1>1, DialogTypes DEF IInv, TypeOK, daemon
<1>3. Approving'
  BY <1>1, DialogTypes DEF IInv, Approving, TypeOK
<1>4. count'.claims = count.claims
  BY <1>1 DEF IInv, TypeOK
<1> QED
  BY <1>1, <1>2, <1>3, <1>4, DaemonFrame

\* A dialog sends an approval only for the code it was allowed.
LEMMA SendKeeps ==
    ASSUME IInv, NEW w \in Windows, Send(w)
    PROVE  IInv'
<1> DEFINE call == NextCall(w)
<1>1. /\ dialog' = [dialog EXCEPT ![w].inFlight = TRUE]
      /\ ticket' = [ticket EXCEPT ![w].call = call]
      /\ calls' = calls (+) SetToBag({call})
      /\ UNCHANGED <<daemon, told, seen, count, past>>
  BY DEF Send
<1>2. dialog \in [Windows -> Dialogs] /\ ticket \in [Windows -> Tickets]
  BY DEF IInv, TypeOK
<1>3. /\ call \in Calls
      /\ call.kind = "approve" /\ call.allow =>
             dialog[w].answer = "allow" /\ call.claim = dialog[w].code
  BY <1>2, NextCallType
<1>4. BagToSet(calls') = BagToSet(calls) \cup {call}
  BY <1>1, BagMembers
<1> HIDE DEF call
<1>5. dialog' \in [Windows -> Dialogs] /\ ticket' \in [Windows -> Tickets]
  BY <1>1, <1>2, <1>3 DEF Dialogs, Tickets
<1>6. TypeOK'
  BY <1>1, <1>3, <1>4, <1>5 DEF IInv, TypeOK, daemon
<1>7. \A v \in Windows : /\ dialog'[v].answer = dialog[v].answer
                         /\ dialog'[v].code = dialog[v].code
                         /\ dialog'[v].phase = dialog[v].phase
  BY <1>1, <1>2 DEF Dialogs
<1>8. Approving'
  BY <1>1, <1>3, <1>4, <1>7 DEF IInv, Approving
<1> QED
  BY <1>1, <1>6, <1>8, DaemonFrame

\* The countdown does not touch a dialog's answer.
LEMMA DeadlineKeeps ==
    ASSUME IInv, NEW w \in Windows, Deadline(w)
    PROVE  IInv'
<1>1. /\ dialog' = [dialog EXCEPT ![w].due = TRUE]
      /\ UNCHANGED <<daemon, calls, ticket, told, seen, count, past>>
  BY DEF Deadline
<1>2. dialog \in [Windows -> Dialogs]
  BY DEF IInv, TypeOK
<1>3. dialog' \in [Windows -> Dialogs]
  BY <1>1, <1>2 DEF Dialogs
<1>4. TypeOK'
  BY <1>1, <1>3 DEF IInv, TypeOK, daemon
<1>5. \A v \in Windows : /\ dialog'[v].answer = dialog[v].answer
                         /\ dialog'[v].code = dialog[v].code
                         /\ dialog'[v].phase = dialog[v].phase
  BY <1>1, <1>2 DEF Dialogs
<1>6. Approving'
  BY <1>1, <1>5 DEF IInv, Approving
<1> QED
  BY <1>1, <1>4, <1>6, DaemonFrame

\* Only here does a code become allowed: the one the dialog shows.
LEMMA AnswerKeeps ==
    ASSUME IInv, NEW w \in Windows, NEW allow \in BOOLEAN, Answer(w, allow)
    PROVE  IInv'
<1> DEFINE e == [dialog[w] EXCEPT !.answer = IF allow THEN "allow" ELSE "deny",
                                  !.inFlight = FALSE]
<1>1. dialog \in [Windows -> Dialogs] /\ ticket \in [Windows -> Tickets]
      /\ past \in [allowed : SUBSET Nat, raced : SUBSET Nat, revoked : SUBSET Nat]
  BY DEF IInv, TypeOK
<1>2. dialog' = [dialog EXCEPT ![w] = e]
  BY <1>1 DEF Answer
<1>3. /\ e \in Dialogs /\ e.phase = "claimed" /\ e.code = dialog[w].code
      /\ e.answer = "allow" => allow
  BY <1>1 DEF Answer, Dialogs
<1>4. /\ past' \in [allowed : SUBSET Nat, raced : SUBSET Nat, revoked : SUBSET Nat]
      /\ past'.raced = past.raced /\ past.allowed \subseteq past'.allowed
      /\ allow => dialog[w].code \in past'.allowed
  <2>1. dialog[w].code \in Nat
    BY <1>1 DEF Dialogs
  <2> QED
    BY <1>1, <2>1 DEF Answer
<1>5. ticket' \in [Windows -> Tickets]
  BY <1>1 DEF Answer, Tickets
<1> HIDE DEF e
<1>6. UNCHANGED <<daemon, calls, told, seen, count>>
  BY DEF Answer
<1>7. TypeOK'
  BY <1>1, <1>2, <1>3, <1>4, <1>5, <1>6 DEF IInv, TypeOK, daemon
<1>8. Approving'
  BY <1>1, <1>2, <1>3, <1>4, <1>6 DEF IInv, Approving
<1> QED
  BY <1>4, <1>6, <1>7, <1>8, DaemonFrame

\* A dropped request approves no more than it did.
LEMMA CloseDialogKeeps ==
    ASSUME IInv, NEW w \in Windows, CloseDialog(w)
    PROVE  IInv'
<1> DEFINE mine == {c \in BagToSet(calls) : c.window = w}
           cancel == IF dialog[w].phase \in {"showing", "claimed"}
                     THEN {Call("none", "cancel", dialog[w].id, 0, FALSE)} ELSE {}
<1>1. /\ dialog' = [dialog EXCEPT ![w] = NoDialog]
      /\ ticket' = [ticket EXCEPT ![w] = Idle]
      /\ UNCHANGED <<daemon, told, seen, count, past>>
  BY DEF CloseDialog
<1>2. PICK sent \in SUBSET mine :
         calls' = (calls (-) SetToBag(mine))
                      (+) SetToBag({Detached(c) : c \in sent}) (+) SetToBag(cancel)
  BY DEF CloseDialog
<1>3. dialog \in [Windows -> Dialogs] /\ BagToSet(calls) \subseteq Calls
  BY DEF IInv, TypeOK
<1>4. cancel \subseteq Calls /\ \A c \in cancel : c.kind = "cancel"
  <2> DEFINE c0 == Call("none", "cancel", dialog[w].id, 0, FALSE)
  <2>1. dialog[w].id \in Nat
    BY <1>3 DEF Dialogs
  <2>2. c0 \in Calls /\ c0.kind = "cancel"
    BY <2>1 DEF Call, Calls
  <2>3. cancel \subseteq {c0}
    OBVIOUS
  <2> HIDE DEF c0, cancel
  <2> QED
    BY <2>2, <2>3
<1>5. \A c \in Calls : /\ Detached(c) \in Calls /\ Detached(c).kind = c.kind
                       /\ Detached(c).allow = c.allow /\ Detached(c).claim = c.claim
  BY DEF Detached, Calls
<1>6. BagToSet(calls') \subseteq
         BagToSet(calls) \cup {Detached(c) : c \in sent} \cup cancel
  <2> DEFINE kept == calls (-) SetToBag(mine)
             moved == {Detached(c) : c \in sent}
  <2>1. calls' = (kept (+) SetToBag(moved)) (+) SetToBag(cancel)
    BY <1>2
  <2>2. BagToSet(kept) \subseteq BagToSet(calls)
    BY BagMembers
  <2> HIDE DEF mine, cancel, kept, moved
  <2>3. BagToSet(kept (+) SetToBag(moved)) = BagToSet(kept) \cup moved
    BY BagMembers
  <2>4. BagToSet(calls') = (BagToSet(kept) \cup moved) \cup cancel
    BY <2>1, <2>3, BagMembers
  <2>5. BagToSet(calls') \subseteq (BagToSet(calls) \cup moved) \cup cancel
    BY <2>2, <2>4
  <2> QED
    BY <2>5 DEF moved
<1>7. sent \subseteq BagToSet(calls)
  OBVIOUS
<1> HIDE DEF mine, cancel
<1>8. BagToSet(calls') \subseteq Calls
  BY <1>3, <1>4, <1>5, <1>6, <1>7
<1>9. \A call \in BagToSet(calls') :
         call.kind = "approve" /\ call.allow => call.claim \in past.allowed
  <2> SUFFICES ASSUME NEW call \in BagToSet(calls'), call.kind = "approve", call.allow
               PROVE  call.claim \in past.allowed
    OBVIOUS
  <2>1. CASE call \in BagToSet(calls)
    BY <2>1 DEF IInv, Approving
  <2>2. CASE call \in {Detached(c) : c \in sent}
    BY <1>3, <1>5, <1>7, <2>2 DEF IInv, Approving
  <2>3. CASE call \in cancel
    BY <1>4, <2>3
  <2> QED
    BY <1>6, <2>1, <2>2, <2>3
<1>10. TypeOK'
  BY <1>1, <1>8, DialogTypes, IdleType DEF IInv, TypeOK, daemon
<1>11. Approving'
  BY <1>1, <1>3, <1>9, DialogTypes DEF IInv, Approving
<1> QED
  BY <1>1, <1>10, <1>11, DaemonFrame

\* A reply never turns an answer into one for another code.
LEMMA ReceiveKeeps ==
    ASSUME IInv, NEW w \in Windows, Receive(w)
    PROVE  IInv'
<1> DEFINE t == ticket[w]
           d == [dialog[w] EXCEPT !.inFlight = FALSE]
           e == Received(d, t.call, t.reply)
<1>1. dialog \in [Windows -> Dialogs] /\ ticket \in [Windows -> Tickets]
  BY DEF IInv, TypeOK
<1>2. t.reply \in Replies /\ t.reply # NoReply
  BY <1>1 DEF Receive, Tickets
<1>3. /\ d \in Dialogs /\ d.answer = dialog[w].answer /\ d.code = dialog[w].code
      /\ d.phase = dialog[w].phase
  BY <1>1 DEF Dialogs
<1>4. /\ ticket' = [ticket EXCEPT ![w] = Idle]
      /\ dialog' = IF t.stale THEN dialog ELSE [dialog EXCEPT ![w] = e]
      /\ seen' = IF t.reply.kind = "offer" /\ ~t.stale THEN seen \cup {t.reply.token}
                 ELSE seen
      /\ UNCHANGED <<daemon, calls, told, count, past>>
  BY DEF Receive
<1>5. t.reply.kind = "offer" => t.reply.token \in Nat
  BY <1>2 DEF Replies, NoReply
<1> HIDE DEF d
<1>6. /\ e \in Dialogs
      /\ e.answer = "allow" => d.answer = "allow" /\ (d.phase # "claimed" \/ e = d)
  <2> HIDE DEF t
  <2> QED
    BY <1>2, <1>3, ReceivedType
<1> HIDE DEF t, e
<1>7. TypeOK'
  BY <1>1, <1>4, <1>5, <1>6, IdleType DEF IInv, TypeOK, daemon
<1>8. Approving'
  <2>1. dialog[w].answer = "allow" =>
           dialog[w].phase = "claimed" /\ dialog[w].code \in past.allowed
    BY DEF IInv, Approving
  <2>2. e.answer = "allow" => e.phase = "claimed" /\ e.code \in past.allowed
    BY <1>3, <1>6, <2>1
  <2> QED
    BY <1>1, <1>4, <2>2 DEF IInv, Approving
<1> QED
  BY <1>4, <1>7, <1>8, DaemonFrame

\* A dialog that cannot show its offer has no answer.
LEMMA ShowFailsKeeps ==
    ASSUME IInv, NEW w \in Windows, ShowFails(w)
    PROVE  IInv'
<1> DEFINE e == [NoDialog EXCEPT !.phase = "failed"]
<1>1. e \in Dialogs /\ e.answer = "none"
  BY DialogTypes
<1>2. /\ ticket' = [ticket EXCEPT ![w] = Idle]
      /\ dialog' = [dialog EXCEPT ![w] = e]
      /\ count' = [count EXCEPT !.faults = @ + 1]
      /\ UNCHANGED <<daemon, calls, told, seen, past>>
  BY DEF ShowFails
<1> HIDE DEF e
<1>3. TypeOK'
  BY <1>1, <1>2, IdleType DEF IInv, TypeOK, daemon
<1>4. Approving'
  BY <1>1, <1>2 DEF IInv, Approving, TypeOK
<1>5. count'.claims = count.claims
  BY <1>2 DEF IInv, TypeOK
<1> QED
  BY <1>2, <1>3, <1>4, <1>5, DaemonFrame

-----------------------------------------------------------------------------
(* The daemon's steps. *)

\* A fresh pairing has no claim.
LEMMA ServePairKeeps ==
    ASSUME IInv, NEW call \in BagToSet(calls), ServePair(call)
    PROVE  IInv'
<1> DEFINE p == Mint(pairings, count.ids + 1, count.tokens + 1)
           offer == [kind |-> "offer", id |-> p.open.id, token |-> p.open.token]
<1>1. /\ pairings' = p /\ Reply(call, offer)
      /\ UNCHANGED <<devices, disk, dialog, told, seen, past>>
      /\ count' = [count EXCEPT !.tokens = @ + 1,
                                !.ids = IF Unclaimed(pairings.open) THEN @ ELSE @ + 1]
  BY DEF ServePair
<1>2. call \in Calls /\ pairings \in PairingStates
  BY DEF IInv, TypeOK
<1>3. count.ids + 1 \in Nat /\ count.tokens + 1 \in Nat
  BY DEF IInv, TypeOK
<1>4. p \in PairingStates /\ p.open.claim = 0 /\ p.open.phase = "waiting"
  BY <1>2, <1>3, MintType
<1> HIDE DEF p
<1>5. offer \in Replies
  <2>1. p.open.id \in Nat /\ p.open.token \in Nat
    BY <1>4 DEF PairingStates, Opens
  <2> QED
    BY <2>1 DEF Replies
<1> HIDE DEF offer
<1>6. BagToSet(calls') \subseteq BagToSet(calls) /\ ticket' \in [Windows -> Tickets]
  BY <1>1, <1>2, <1>5, ReplyType DEF IInv
<1>7. /\ count' \in [ids : Nat, tokens : Nat, claims : Nat, opens : Nat, faults : Nat,
                     budget : Budgets]
      /\ count'.claims = count.claims
  <2> DEFINE n == IF Unclaimed(pairings.open) THEN count.ids ELSE count.ids + 1
  <2>1. count \in [ids : Nat, tokens : Nat, claims : Nat, opens : Nat, faults : Nat,
                   budget : Budgets]
    BY DEF IInv, TypeOK
  <2>2. count' = [count EXCEPT !.tokens = count.tokens + 1, !.ids = n]
    BY <1>1, <2>1
  <2>3. n \in Nat
    BY <2>1
  <2> HIDE DEF n
  <2>4. /\ count'.claims = count.claims /\ count'.ids = n /\ count'.tokens = count.tokens + 1
        /\ count'.opens = count.opens /\ count'.faults = count.faults
        /\ count'.budget = count.budget
    BY <2>1, <2>2
  <2>5. count.tokens + 1 \in Nat
    BY <1>3
  <2> QED
    BY <2>1, <2>2, <2>3, <2>4, <2>5
<1>8. TypeOK'
  BY <1>1, <1>4, <1>6, <1>7 DEF IInv, TypeOK
<1>9. Approving'
  BY <1>1, <1>6, DialogFrame
<1> QED
  BY <1>1, <1>4, <1>7, <1>8, <1>9, PairingFrame

\* A poll settles at most an overdue claim.
LEMMA ServePollKeeps ==
    ASSUME IInv, NEW call \in BagToSet(calls), ServePoll(call)
    PROVE  IInv'
<1>1. call \in Calls /\ pairings \in PairingStates
  BY DEF IInv, TypeOK
<1>2. UNCHANGED <<devices, disk, dialog, told, seen, count, past>>
  BY DEF ServePoll
<1>3. \E reply \in Replies :
         Reply(call, reply) /\ pairings' \in {pairings, Refresh(pairings)}
  <2>1. CASE pairings.open.id # call.id
    <3>1. Error("unknownPairing") \in Replies
      BY DEF Error, Replies
    <3> QED
      BY <2>1, <3>1 DEF ServePoll
  <2>2. CASE pairings.open.id = call.id
    <3> DEFINE view == View(pairings'.open)
               reply == [kind |-> "view", view |-> view]
    <3>1. pairings' = Refresh(pairings) /\ Reply(call, reply)
      BY <2>2 DEF ServePoll
    <3>2. view \in Views
      BY <1>1, <3>1, RefreshKeeps, ViewType DEF PairingStates
    <3> HIDE DEF view
    <3>3. reply \in Replies
      BY <3>2 DEF Replies
    <3> HIDE DEF reply
    <3> QED
      BY <3>1, <3>3
  <2> QED
    BY <2>1, <2>2
<1>4. BagToSet(calls') \subseteq BagToSet(calls) /\ ticket' \in [Windows -> Tickets]
  BY <1>1, <1>3, ReplyType DEF IInv
<1>5. /\ pairings' \in PairingStates /\ pairings'.open.claim = pairings.open.claim
      /\ pairings'.open.phase = "claimed" => pairings.open.phase = "claimed"
  BY <1>1, <1>3, RefreshKeeps
<1>6. TypeOK'
  BY <1>2, <1>4, <1>5 DEF IInv, TypeOK
<1>7. Approving'
  BY <1>2, <1>4, DialogFrame
<1> QED
  BY <1>2, <1>5, <1>6, <1>7, PairingFrame

\* A cancelled pairing has no claim.
LEMMA ServeCancelKeeps ==
    ASSUME IInv, NEW call \in BagToSet(calls), ServeCancel(call)
    PROVE  IInv'
<1>1. call \in Calls /\ pairings \in PairingStates
  BY DEF IInv, TypeOK
<1>2. /\ pairings' = IF pairings.open.id = call.id THEN Close(pairings) ELSE pairings
      /\ Reply(call, NoReply)
      /\ UNCHANGED <<devices, disk, dialog, told, seen, count, past>>
  BY DEF ServeCancel
<1>3. BagToSet(calls') \subseteq BagToSet(calls) /\ ticket' \in [Windows -> Tickets]
  BY <1>1, <1>2, IdleType, ReplyType DEF IInv
<1>4. /\ pairings' \in PairingStates
      /\ pairings'.open.claim \in {0, pairings.open.claim}
      /\ pairings'.open.phase = "claimed" =>
             pairings.open.phase = "claimed" /\ pairings'.open.claim = pairings.open.claim
  BY <1>1, <1>2, CloseType
<1>5. TypeOK'
  BY <1>2, <1>3, <1>4 DEF IInv, TypeOK
<1>6. Approving'
  BY <1>2, <1>3, DialogFrame
<1> QED
  BY <1>2, <1>4, <1>5, <1>6, PairingFrame

\* A call that fails changes nothing at the daemon.
LEMMA CallFailsKeeps ==
    ASSUME IInv, NEW call \in BagToSet(calls), CallFails(call)
    PROVE  IInv'
<1>1. call \in Calls
  BY DEF IInv, TypeOK
<1>2. /\ Reply(call, Error("failed"))
      /\ count' = [count EXCEPT !.faults = @ + 1]
      /\ UNCHANGED <<daemon, dialog, told, seen, past>>
  BY DEF CallFails
<1>3. Error("failed") \in Replies
  BY DEF Error, Replies
<1>4. BagToSet(calls') \subseteq BagToSet(calls) /\ ticket' \in [Windows -> Tickets]
  BY <1>1, <1>2, <1>3, ReplyType DEF IInv
<1>5. TypeOK' /\ count'.claims = count.claims
  BY <1>2, <1>4 DEF IInv, TypeOK, daemon
<1>6. Approving'
  BY <1>2, <1>4, DialogFrame
<1> QED
  BY <1>2, <1>5, <1>6, DaemonFrame

\* A call given up on stays with the daemon as it is, but for its window.
LEMMA CallTimesOutKeeps ==
    ASSUME IInv, NEW call \in BagToSet(calls), CallTimesOut(call)
    PROVE  IInv'
<1>1. call \in Calls /\ call.window \in Windows
  BY DEF IInv, TypeOK, CallTimesOut, Calls
<1>2. /\ calls' = (calls (-) SetToBag({call})) (+) SetToBag({Detached(call)})
      /\ ticket' = [ticket EXCEPT ![call.window].reply = Error("failed")]
      /\ count' = [count EXCEPT !.faults = @ + 1]
      /\ UNCHANGED <<daemon, dialog, told, seen, past>>
  BY DEF CallTimesOut
<1>3. /\ Detached(call) \in Calls /\ Detached(call).kind = call.kind
      /\ Detached(call).allow = call.allow /\ Detached(call).claim = call.claim
  BY <1>1 DEF Detached, Calls
<1>4. BagToSet(calls') \subseteq BagToSet(calls) \cup {Detached(call)}
  <2> DEFINE kept == calls (-) SetToBag({call})
             moved == {Detached(call)}
  <2>1. calls' = kept (+) SetToBag(moved) /\ BagToSet(kept) \subseteq BagToSet(calls)
    BY <1>2, BagMembers
  <2> HIDE DEF kept, moved
  <2>2. BagToSet(calls') = BagToSet(kept) \cup moved
    BY <2>1, BagMembers
  <2>3. BagToSet(calls') \subseteq BagToSet(calls) \cup moved
    BY <2>1, <2>2
  <2> QED
    BY <2>3 DEF moved
<1>5. [ticket[call.window] EXCEPT !.reply = Error("failed")] \in Tickets
  BY <1>1 DEF IInv, TypeOK, Tickets, Error, Replies
<1>6. TypeOK' /\ count'.claims = count.claims
  <2>1. ticket' \in [Windows -> Tickets]
    BY <1>1, <1>2, <1>5 DEF IInv, TypeOK
  <2>2. BagToSet(calls') \subseteq Calls
    BY <1>3, <1>4 DEF IInv, TypeOK
  <2>3. TypeOK
    BY DEF IInv
  <2>4. /\ count' \in [ids : Nat, tokens : Nat, claims : Nat, opens : Nat, faults : Nat,
                       budget : Budgets]
        /\ count'.claims = count.claims
    BY <1>2, <2>3 DEF TypeOK
  <2>5. UNCHANGED <<pairings, devices, disk, dialog, told, seen, past>>
    BY <1>2 DEF daemon
  <2> QED
    BY <2>1, <2>2, <2>3, <2>4, <2>5 DEF TypeOK
<1>7. Approving'
  BY <1>2, <1>3, <1>4 DEF IInv, Approving
<1> QED
  BY <1>2, <1>6, <1>7, DaemonFrame

\* A save leaves in memory and on disk what was there, or what it saves.
LEMMA StoredKeeps ==
    ASSUME NEW new, NEW save, Stored(new, save)
    PROVE  devices' \in {devices, new} /\ disk' \in {disk, new}
BY DEF Stored

\* A save that fails costs a fault.
LEMMA AfterSaveType ==
    ASSUME TypeOK, NEW save
    PROVE  /\ AfterSave(save) \in [ids : Nat, tokens : Nat, claims : Nat, opens : Nat,
                                  faults : Nat, budget : Budgets]
           /\ AfterSave(save).claims = count.claims
<1> DEFINE n == IF save = "ok" THEN count.faults ELSE count.faults + 1
<1>1. count \in [ids : Nat, tokens : Nat, claims : Nat, opens : Nat, faults : Nat,
                 budget : Budgets]
  BY DEF TypeOK
<1>2. AfterSave(save) = [count EXCEPT !.faults = n]
  BY <1>1 DEF AfterSave
<1>3. n \in Nat
  BY <1>1
<1> HIDE DEF n
<1> QED
  BY <1>1, <1>2, <1>3

\* An approval is stored only for the pending claim, which the user allowed
\* and nobody raced for; it then pends no more.
LEMMA ServeApproveKeeps ==
    ASSUME IInv, NEW call \in BagToSet(calls), NEW save, ServeApprove(call, save)
    PROVE  IInv'
<1> DEFINE p == Refresh(pairings)
           mine == p.open.id = call.id
           approved == Approves(p, call) /\ save = "ok"
           q == IF mine THEN Settle(p, IF approved THEN "approved" ELSE "denied") ELSE pairings
           view == View(q.open)
           seenView == [kind |-> "view", view |-> view]
           reply == CASE ~mine -> Error("unknownPairing")
                      [] mine /\ p.open.phase = "claimed" /\ (call.allow => approved) -> seenView
                      [] OTHER -> Error("refused")
<1>1. call \in Calls /\ pairings \in PairingStates /\ count.claims \in Nat
  BY DEF IInv, TypeOK
<1>2. /\ p \in PairingStates /\ p.open.claim = pairings.open.claim
      /\ p.open.phase = "claimed" => pairings.open.phase = "claimed"
  BY <1>1, RefreshKeeps
<1>3. /\ call.kind = "approve" /\ pairings' = q /\ Reply(call, reply)
      /\ count' = AfterSave(save) /\ UNCHANGED <<dialog, told, seen, past>>
      /\ IF Approves(p, call) THEN Stored(devices \cup {p.open.claim}, save)
         ELSE UNCHANGED <<devices, disk>>
  BY DEF ServeApprove
<1> HIDE DEF p
<1>4. /\ q \in PairingStates /\ q.open.claim = pairings.open.claim
      /\ mine => q.open.phase # "claimed"
      /\ ~mine => q = pairings
  <2> DEFINE state == IF approved THEN "approved" ELSE "denied"
  <2>1. state \in Outcomes
    BY DEF Outcomes
  <2>2. q = IF mine THEN Settle(p, state) ELSE pairings
    OBVIOUS
  <2> HIDE DEF state, q
  <2> QED
    BY <1>1, <1>2, <2>1, <2>2, SettleKeeps
<1> HIDE DEF q
<1>5. reply \in Replies
  <2>1. Error("unknownPairing") \in Replies /\ Error("refused") \in Replies
    BY DEF Error, Replies
  <2>2. view \in Views
    BY <1>4, ViewType DEF PairingStates
  <2> HIDE DEF view
  <2>3. seenView \in Replies
    BY <2>2 DEF Replies
  <2> HIDE DEF seenView, mine, approved
  <2> QED
    BY <2>1, <2>3
<1> HIDE DEF reply, approved, view, seenView
<1>6. BagToSet(calls') \subseteq BagToSet(calls) /\ ticket' \in [Windows -> Tickets]
  BY <1>1, <1>3, <1>5, ReplyType DEF IInv
<1>7. Approving'
  BY <1>3, <1>6, DialogFrame
<1>8. /\ count' \in [ids : Nat, tokens : Nat, claims : Nat, opens : Nat, faults : Nat,
                     budget : Budgets]
      /\ count'.claims = count.claims
  BY <1>3, AfterSaveType DEF IInv
<1>9. CASE Approves(p, call)
  <2>1. /\ mine /\ pairings.open.phase = "claimed"
        /\ call.allow /\ pairings.open.claim = call.claim
    BY <1>2, <1>9 DEF Approves
  <2>2. call.claim \in past.allowed
    BY <1>3, <2>1 DEF IInv, Approving
  <2>3. /\ 0 < call.claim /\ call.claim <= count.claims /\ call.claim \notin past.raced
        /\ call.claim \in Nat
    BY <1>1, <2>1 DEF IInv, Pending, Calls
  <2>4. /\ devices' \subseteq devices \cup {call.claim}
        /\ disk' \subseteq disk \cup devices \cup {call.claim}
    BY <1>2, <1>3, <1>9, <2>1, StoredKeeps
  <2>5. TypeOK'
    BY <1>3, <1>4, <1>6, <1>8, <2>3, <2>4 DEF IInv, TypeOK
  <2>6. Pending'
    BY <1>1, <1>3, <1>4, <1>8, <2>1, <2>3, <2>4 DEF IInv, Pending
  <2>7. AllowedAsShown' /\ RacedIsVoid'
    BY <1>3, <2>2, <2>3, <2>4 DEF IInv, AllowedAsShown, RacedIsVoid
  <2> QED
    BY <1>7, <2>5, <2>6, <2>7 DEF IInv
<1>10. CASE ~Approves(p, call)
  <2>1. UNCHANGED <<devices, disk>>
    BY <1>3, <1>10
  <2>2. TypeOK'
    BY <1>3, <1>4, <1>6, <1>8, <2>1 DEF IInv, TypeOK
  <2> QED
    BY <1>3, <1>4, <1>7, <1>8, <2>1, <2>2, PairingFrame
<1> QED
  BY <1>9, <1>10

-----------------------------------------------------------------------------
(* Phones, the device list, time and restarts. *)

\* A new claim is numbered past every device and every raced claim; one that
\* meets a pending claim voids it before it could be stored.
LEMMA ClaimKeeps ==
    ASSUME IInv, NEW token \in seen, Claim(token)
    PROVE  IInv'
<1> DEFINE c == count.claims + 1
           p == Claimed(pairings, token, c)
           raced == IF Refresh(pairings).open.phase = "claimed"
                    THEN past.raced \cup {pairings.open.claim} ELSE past.raced
           claims == IF p.open.claim = c THEN c ELSE count.claims
<1>1. /\ pairings \in PairingStates /\ token \in Nat /\ c \in Nat
      /\ count.claims \in Nat /\ pairings.open.claim \in Nat
      /\ pairings.open.claim <= count.claims
      /\ count \in [ids : Nat, tokens : Nat, claims : Nat, opens : Nat, faults : Nat,
                    budget : Budgets]
      /\ past \in [allowed : SUBSET Nat, raced : SUBSET Nat, revoked : SUBSET Nat]
      /\ told \in [Claims -> {"none", "waiting", "lost"} \cup Outcomes]
  <2>1. /\ pairings \in PairingStates /\ seen \subseteq Nat
        /\ count \in [ids : Nat, tokens : Nat, claims : Nat, opens : Nat, faults : Nat,
                      budget : Budgets]
        /\ past \in [allowed : SUBSET Nat, raced : SUBSET Nat, revoked : SUBSET Nat]
        /\ told \in [Claims -> {"none", "waiting", "lost"} \cup Outcomes]
    BY DEF IInv, TypeOK
  <2>2. pairings.open.claim \in Nat
    BY <2>1 DEF PairingStates, Opens
  <2>3. pairings.open.claim <= count.claims
    BY DEF IInv, Pending
  <2> QED
    BY <2>1, <2>2, <2>3
<1>2. /\ pairings' = p
      /\ count' = [count EXCEPT !.claims = claims]
      /\ told' = IF p.open.claim = c THEN [told EXCEPT ![c] = "waiting"] ELSE told
      /\ past' = [past EXCEPT !.raced = raced]
      /\ UNCHANGED <<devices, disk, calls, dialog, ticket, seen>>
  BY <1>1 DEF Claim
<1>3. /\ p \in PairingStates
      /\ \/ p.open.claim = c /\ Refresh(pairings).open.phase # "claimed"
         \/ p.open.claim = pairings.open.claim /\ p.open.phase # "claimed"
  BY <1>1, ClaimedType
<1>4. Refresh(pairings).open.phase = "claimed" => pairings.open.phase = "claimed"
  BY <1>1, RefreshKeeps
<1> HIDE DEF p
<1>5. claims \in Nat /\ count.claims <= claims /\ p.open.claim <= claims
  BY <1>1, <1>3
<1>6. /\ raced \subseteq past.raced \cup {pairings.open.claim}
      /\ raced # past.raced => pairings.open.phase = "claimed" /\ p.open.phase # "claimed"
  <2>1. CASE Refresh(pairings).open.phase = "claimed"
    BY <1>3, <1>4, <2>1
  <2>2. CASE Refresh(pairings).open.phase # "claimed"
    BY <2>2
  <2> QED
    BY <2>1, <2>2
<1>7. raced \subseteq Nat
  BY <1>1, <1>6
<1> HIDE DEF raced, claims
<1>8. /\ count' \in [ids : Nat, tokens : Nat, claims : Nat, opens : Nat, faults : Nat,
                     budget : Budgets]
      /\ count'.claims = claims
      /\ past' \in [allowed : SUBSET Nat, raced : SUBSET Nat, revoked : SUBSET Nat]
      /\ past'.raced = raced /\ past'.allowed = past.allowed
  BY <1>1, <1>2, <1>5, <1>7
<1>9. TypeOK'
  <2>1. told' \in [Claims -> {"none", "waiting", "lost"} \cup Outcomes]
    BY <1>1, <1>2
  <2> QED
    BY <1>2, <1>3, <1>8, <2>1 DEF IInv, TypeOK
<1>10. Approving'
  BY <1>2, <1>8, DialogFrame
<1>11. /\ \A k \in past.raced \cup devices \cup disk : 0 < k /\ k <= count.claims
       /\ pairings.open.phase = "claimed" =>
              0 < pairings.open.claim
              /\ pairings.open.claim \notin past.raced \cup devices \cup disk
  BY DEF IInv, Pending
<1>12. devices \subseteq Nat /\ disk \subseteq Nat /\ past.raced \subseteq Nat
  BY DEF IInv, TypeOK
<1>13. \A k \in raced \cup devices \cup disk : 0 < k /\ k <= claims
  BY <1>1, <1>5, <1>6, <1>11, <1>12
<1>14. p.open.phase = "claimed" =>
          0 < p.open.claim /\ p.open.claim \notin raced \cup devices \cup disk
  <2> SUFFICES ASSUME p.open.phase = "claimed"
               PROVE  0 < p.open.claim /\ p.open.claim \notin raced \cup devices \cup disk
    OBVIOUS
  <2>1. p.open.claim = c /\ raced = past.raced
    BY <1>3, <1>6
  <2>2. \A k \in raced \cup devices \cup disk : k \in Nat /\ k <= count.claims
    BY <1>11, <1>12, <2>1
  <2> QED
    BY <1>1, <2>1, <2>2
<1>15. Pending'
  BY <1>2, <1>5, <1>8, <1>13, <1>14 DEF Pending
<1>16. AllowedAsShown' /\ RacedIsVoid'
  BY <1>2, <1>6, <1>8, <1>11 DEF IInv, AllowedAsShown, RacedIsVoid
<1> QED
  BY <1>9, <1>10, <1>15, <1>16 DEF IInv

\* Sealing a nearby token claims nothing.
LEMMA NearbyRevealKeeps ==
    ASSUME IInv, NearbyReveal
    PROVE  IInv'
<1> DEFINE p == Refresh(pairings)
           sealed == p.open.phase = "waiting" /\ p.open.reveals < MaxReveals
           r == [p EXCEPT !.open.reveals = @ + 1, !.open.nearbyLive = TRUE,
                          !.open.nearby = count.tokens + 1]
           tokens == IF sealed THEN count.tokens + 1 ELSE count.tokens
<1>1. /\ pairings \in PairingStates /\ count.tokens \in Nat
      /\ count \in [ids : Nat, tokens : Nat, claims : Nat, opens : Nat, faults : Nat,
                    budget : Budgets]
  BY DEF IInv, TypeOK
<1>2. /\ pairings' = IF sealed THEN r ELSE p
      /\ seen' = IF sealed THEN seen \cup {count.tokens + 1} ELSE seen
      /\ count' = [count EXCEPT !.tokens = tokens]
      /\ UNCHANGED <<devices, disk, calls, dialog, ticket, told, past>>
  BY <1>1 DEF NearbyReveal
<1>3. /\ p \in PairingStates /\ p.open.claim = pairings.open.claim
      /\ p.open.phase = "claimed" => pairings.open.phase = "claimed"
  BY <1>1, RefreshKeeps
<1> HIDE DEF p
<1>4. r \in PairingStates /\ r.open.claim = p.open.claim /\ r.open.phase = p.open.phase
  <2> DEFINE o == [p.open EXCEPT !.reveals = p.open.reveals + 1, !.nearbyLive = TRUE,
                                 !.nearby = count.tokens + 1]
  <2>1. p.open \in Opens /\ p.open.reveals \in Nat
    BY <1>3 DEF PairingStates, Opens
  <2>2. p.open.reveals + 1 \in Nat /\ count.tokens + 1 \in Nat
    BY <1>1, <2>1
  <2>3. o \in Opens /\ o.claim = p.open.claim /\ o.phase = p.open.phase
    BY <2>1, <2>2 DEF Opens
  <2>4. r = [p EXCEPT !.open = o]
    BY <1>3, <2>1 DEF PairingStates, Opens
  <2> HIDE DEF o, r
  <2> QED
    BY <1>3, <2>3, <2>4 DEF PairingStates
<1>5. tokens \in Nat
  BY <1>1
<1> HIDE DEF r, sealed, tokens
<1>6. TypeOK' /\ count'.claims = count.claims
  BY <1>1, <1>2, <1>3, <1>4, <1>5 DEF IInv, TypeOK
<1>7. Approving'
  BY <1>2, DialogFrame
<1> QED
  BY <1>2, <1>3, <1>4, <1>6, <1>7, PairingFrame

\* Telling a phone how its claim stands claims nothing.
LEMMA ClaimStatusKeeps ==
    ASSUME IInv, NEW c \in Claims, ClaimStatus(c)
    PROVE  IInv'
<1> DEFINE p == Refresh(pairings)
           known == {i \in DOMAIN p.outcomes : p.outcomes[i].claim = c}
           state == p.outcomes[CHOOSE i \in known : TRUE].state
           heard == CASE p.open.phase = "claimed" /\ p.open.claim = c -> "waiting"
                      [] known # {} -> state
                      [] OTHER -> "lost"
<1>1. pairings \in PairingStates /\ told \in [Claims -> {"none", "waiting", "lost"} \cup Outcomes]
  BY DEF IInv, TypeOK
<1>2. /\ pairings' = p /\ told' = [told EXCEPT ![c] = heard]
      /\ UNCHANGED <<devices, disk, calls, dialog, ticket, seen, count, past>>
  BY DEF ClaimStatus
<1>3. /\ p \in PairingStates /\ p.open.claim = pairings.open.claim
      /\ p.open.phase = "claimed" => pairings.open.phase = "claimed"
  BY <1>1, RefreshKeeps
<1> HIDE DEF p
<1>4. known # {} => state \in Outcomes
  <2>1. \A i \in DOMAIN p.outcomes : p.outcomes[i] \in [claim : Nat, state : Outcomes]
    <3>1. p.outcomes \in Seq([claim : Nat, state : Outcomes])
      BY <1>3 DEF PairingStates
    <3> QED
      BY <3>1, OutcomeOf
  <2>2. known # {} => (CHOOSE i \in known : TRUE) \in DOMAIN p.outcomes
    OBVIOUS
  <2> QED
    BY <2>1, <2>2
<1> HIDE DEF known, state
<1>5. heard \in {"none", "waiting", "lost"} \cup Outcomes
  BY <1>4
<1> HIDE DEF heard
<1>6. TypeOK'
  BY <1>1, <1>2, <1>3, <1>5 DEF IInv, TypeOK
<1>7. Approving'
  BY <1>2, DialogFrame
<1> QED
  BY <1>2, <1>3, <1>6, <1>7, PairingFrame

\* Removing a device, saved or not, adds none.
LEMMA RevokeKeeps ==
    ASSUME IInv, NEW d \in devices, NEW save, Revoke(d, save)
    PROVE  IInv'
<1> DEFINE revoked == IF save = "before" THEN past.revoked ELSE past.revoked \cup {d}
<1>1. /\ devices \subseteq Nat
      /\ past \in [allowed : SUBSET Nat, raced : SUBSET Nat, revoked : SUBSET Nat]
  BY DEF IInv, TypeOK
<1>2. /\ Stored(devices \ {d}, save) /\ count' = AfterSave(save)
      /\ past' = [past EXCEPT !.revoked = revoked]
      /\ UNCHANGED <<pairings, calls, dialog, ticket, told, seen>>
  BY <1>1 DEF Revoke
<1>3. devices' \cup disk' \subseteq devices \cup disk
  BY <1>2, StoredKeeps
<1>4. revoked \in SUBSET Nat
  BY <1>1
<1> HIDE DEF revoked
<1>5. /\ past' \in [allowed : SUBSET Nat, raced : SUBSET Nat, revoked : SUBSET Nat]
      /\ past'.raced = past.raced /\ past'.allowed = past.allowed
  BY <1>1, <1>2, <1>4
<1>6. /\ count' \in [ids : Nat, tokens : Nat, claims : Nat, opens : Nat, faults : Nat,
                     budget : Budgets]
      /\ count'.claims = count.claims
  BY <1>2, AfterSaveType DEF IInv
<1>7. TypeOK'
  BY <1>2, <1>3, <1>5, <1>6 DEF IInv, TypeOK
<1>8. Approving'
  BY <1>2, <1>5, DialogFrame
<1>9. Pending' /\ AllowedAsShown' /\ RacedIsVoid'
  BY <1>2, <1>3, <1>5, <1>6 DEF IInv, Pending, AllowedAsShown, RacedIsVoid
<1> QED
  BY <1>7, <1>8, <1>9 DEF IInv

\* Time passing keeps a pairing's claim and phase.
LEMMA TimeKeeps ==
    ASSUME IInv, TokenExpires \/ NearbyExpires \/ ApprovalExpires
    PROVE  IInv'
<1>1. pairings \in PairingStates
  BY DEF IInv, TypeOK
<1>2. UNCHANGED <<devices, disk, calls, dialog, ticket, told, seen, count, past>>
  BY DEF TokenExpires, NearbyExpires, ApprovalExpires
<1>3. /\ pairings' \in PairingStates /\ pairings'.open.claim = pairings.open.claim
      /\ pairings'.open.phase = pairings.open.phase
  <2>1. pairings.open \in Opens
    BY <1>1 DEF PairingStates
  <2>2. CASE TokenExpires
    <3> DEFINE o == [pairings.open EXCEPT !.live = FALSE]
    <3>1. o \in Opens /\ o.claim = pairings.open.claim /\ o.phase = pairings.open.phase
      BY <2>1 DEF Opens
    <3>2. pairings' = [pairings EXCEPT !.open = o]
      BY <1>1, <2>2 DEF TokenExpires, PairingStates
    <3> HIDE DEF o
    <3> QED
      BY <1>1, <3>1, <3>2 DEF PairingStates
  <2>3. CASE NearbyExpires
    <3> DEFINE o == [pairings.open EXCEPT !.nearbyLive = FALSE]
    <3>1. o \in Opens /\ o.claim = pairings.open.claim /\ o.phase = pairings.open.phase
      BY <2>1 DEF Opens
    <3>2. pairings' = [pairings EXCEPT !.open = o]
      BY <1>1, <2>3 DEF NearbyExpires, PairingStates
    <3> HIDE DEF o
    <3> QED
      BY <1>1, <3>1, <3>2 DEF PairingStates
  <2>4. CASE ApprovalExpires
    <3> DEFINE o == [pairings.open EXCEPT !.overdue = TRUE]
    <3>1. o \in Opens /\ o.claim = pairings.open.claim /\ o.phase = pairings.open.phase
      BY <2>1 DEF Opens
    <3>2. pairings' = [pairings EXCEPT !.open = o]
      BY <1>1, <2>4 DEF ApprovalExpires, PairingStates
    <3> HIDE DEF o
    <3> QED
      BY <1>1, <3>1, <3>2 DEF PairingStates
  <2> QED
    BY <2>2, <2>3, <2>4
<1>4. TypeOK'
  BY <1>2, <1>3 DEF IInv, TypeOK
<1>5. Approving'
  BY <1>2, DialogFrame
<1> QED
  BY <1>2, <1>3, <1>4, <1>5, PairingFrame

\* A restart forgets the pairing, and admits nobody the disk does not hold.
LEMMA RestartKeeps ==
    ASSUME IInv, RestartDaemon
    PROVE  IInv'
<1> DEFINE p == [open |-> NoPairing, outcomes |-> <<>>]
<1>1. /\ pairings' = p /\ devices' = disk /\ calls' = EmptyBag
      /\ count' = [count EXCEPT !.faults = @ + 1]
      /\ UNCHANGED <<disk, dialog, told, seen, past>>
  BY DEF RestartDaemon
<1>2. p \in PairingStates /\ p.open.claim = 0 /\ p.open.phase = "finished"
  BY NoPairingType DEF PairingStates
<1> HIDE DEF p
<1>3. BagToSet(calls') = {}
  BY <1>1, BagMembers
<1>4. ticket' \in [Windows -> Tickets]
  <2>1. ticket \in [Windows -> Tickets]
    BY DEF IInv, TypeOK
  <2>2. Error("failed") \in Replies
    BY DEF Error, Replies
  <2>3. \A w \in Windows : [ticket[w] EXCEPT !.reply = Error("failed")] \in Tickets
    BY <2>1, <2>2 DEF Tickets
  <2> QED
    BY <2>3, IdleType DEF RestartDaemon
<1>5. TypeOK' /\ count'.claims = count.claims
  BY <1>1, <1>2, <1>3, <1>4 DEF IInv, TypeOK
<1>6. Approving'
  BY <1>1, <1>3, DialogFrame
<1>7. Pending'
  <2>1. count.claims \in Nat
    BY DEF IInv, TypeOK
  <2> QED
    BY <1>1, <1>2, <1>5, <2>1 DEF IInv, Pending
<1>8. AllowedAsShown' /\ RacedIsVoid'
  BY <1>1 DEF IInv, AllowedAsShown, RacedIsVoid
<1> QED
  BY <1>5, <1>6, <1>7, <1>8 DEF IInv

-----------------------------------------------------------------------------
(* The theorems. *)

\* The invariant holds at the start.
LEMMA InitHolds == Init => IInv
<1> SUFFICES ASSUME Init
             PROVE  IInv
  OBVIOUS
<1> DEFINE p == [open |-> NoPairing, outcomes |-> <<>>]
<1>1. pairings = p
  BY DEF Init
<1>2. p \in PairingStates /\ p.open.claim = 0 /\ p.open.phase = "finished"
  BY NoPairingType DEF PairingStates
<1> HIDE DEF p
<1>3. BagToSet(calls) = {}
  BY BagMembers DEF Init
<1>4. /\ count \in [ids : Nat, tokens : Nat, claims : Nat, opens : Nat, faults : Nat,
                    budget : Budgets]
      /\ count.claims = 0
  BY DEF Init
<1>5. /\ past = [allowed |-> {}, raced |-> {}, revoked |-> {}]
      /\ devices = {} /\ disk = {} /\ seen = {}
      /\ dialog = [w \in Windows |-> NoDialog] /\ ticket = [w \in Windows |-> Idle]
      /\ told = [c \in Claims |-> "none"]
  BY DEF Init
<1>6. TypeOK
  BY <1>1, <1>2, <1>3, <1>4, <1>5, DialogTypes, IdleType DEF TypeOK
<1>7. Approving
  BY <1>3, <1>5, DialogTypes DEF Approving
<1>8. Pending /\ AllowedAsShown /\ RacedIsVoid
  BY <1>1, <1>2, <1>4, <1>5 DEF Pending, AllowedAsShown, RacedIsVoid
<1> QED
  BY <1>6, <1>7, <1>8 DEF IInv

\* Every step keeps the invariant.
LEMMA NextKeeps == IInv /\ [Next]_vars => IInv'
<1> SUFFICES ASSUME IInv, [Next]_vars
             PROVE  IInv'
  OBVIOUS
<1>1. ASSUME NEW w \in Windows, OpenDialog(w) \/ RestartDialog(w)
      PROVE  IInv'
  BY <1>1, OpenKeeps
<1>2. ASSUME NEW w \in Windows, Send(w) \/ Deadline(w) \/ CloseDialog(w)
      PROVE  IInv'
  BY <1>2, SendKeeps, DeadlineKeeps, CloseDialogKeeps
<1>3. ASSUME NEW w \in Windows, Receive(w) \/ ShowFails(w)
      PROVE  IInv'
  BY <1>3, ReceiveKeeps, ShowFailsKeeps
<1>4. ASSUME NEW w \in Windows, NEW allow \in BOOLEAN, Answer(w, allow)
      PROVE  IInv'
  BY <1>4, AnswerKeeps
<1>5. ASSUME NEW w \in Windows \cup {"none"}, Serve(w)
      PROVE  IInv'
  <2>1. PICK call \in BagToSet(calls) :
           \/ ServePair(call)
           \/ ServePoll(call)
           \/ \E save \in Saves : ServeApprove(call, save)
           \/ ServeCancel(call)
    BY <1>5 DEF Serve
  <2>2. CASE \E save \in Saves : ServeApprove(call, save)
    BY <2>2, ServeApproveKeeps
  <2> QED
    BY <2>1, <2>2, ServePairKeeps, ServePollKeeps, ServeCancelKeeps
<1>6. ASSUME NEW call \in BagToSet(calls), CallFails(call) \/ CallTimesOut(call)
      PROVE  IInv'
  BY <1>6, CallFailsKeeps, CallTimesOutKeeps
<1>7. ASSUME NEW token \in seen, Claim(token)
      PROVE  IInv'
  BY <1>7, ClaimKeeps
<1>8. ASSUME NEW c \in Claims, ClaimStatus(c)
      PROVE  IInv'
  BY <1>8, ClaimStatusKeeps
<1>9. ASSUME NEW d \in devices, NEW save \in Saves, Revoke(d, save)
      PROVE  IInv'
  BY <1>9, RevokeKeeps
<1>10. CASE NearbyReveal
  BY <1>10, NearbyRevealKeeps
<1>11. CASE TokenExpires \/ NearbyExpires \/ ApprovalExpires
  BY <1>11, TimeKeeps
<1>12. CASE RestartDaemon
  BY <1>12, RestartKeeps
<1>13. CASE UNCHANGED vars
  BY <1>13 DEF vars, IInv, TypeOK, Approving, Pending, AllowedAsShown, RacedIsVoid
<1> QED
  BY <1>1, <1>2, <1>3, <1>4, <1>5, <1>6, <1>7, <1>8, <1>9, <1>10, <1>11, <1>12, <1>13
  DEF Next

\* The daemon's pairing and store, the calls, the dialogs and the tickets keep
\* their types, through lost calls, failed saves and daemon restarts.
THEOREM TypeCorrect == Spec => []TypeOK
<1>1. IInv => TypeOK
  BY DEF IInv
<1> QED
  BY InitHolds, NextKeeps, <1>1, PTL DEF Spec

\* A device, in memory or on disk, is always one whose claim the user allowed
\* in a dialog showing its code: Pairings::answer never stores another's.
THEOREM AllowedIsShown == Spec => []AllowedAsShown
<1>1. IInv => AllowedAsShown
  BY DEF IInv
<1> QED
  BY InitHolds, NextKeeps, <1>1, PTL DEF Spec

\* A claim voided by a second one never becomes a device, whatever answer is
\* under way (Pairings::claim).
THEOREM RaceVoids == Spec => []RacedIsVoid
<1>1. IInv => RacedIsVoid
  BY DEF IInv
<1> QED
  BY InitHolds, NextKeeps, <1>1, PTL DEF Spec

-----------------------------------------------------------------------------
(* What phones are told, when a save that fails leaves the old store. *)

\* An outcome says what the store holds: an approved claim is on disk unless
\* it was removed since, another is not a device.
Honest(c, state) ==
    /\ state = "approved" => c \in disk \cup past.revoked
    /\ state \in {"denied", "expired"} => c \notin devices \cup disk

\* Memory is what the disk holds; every outcome remembered and every one told
\* is honest; the pending claim has none yet.
Told ==
    /\ devices = disk
    /\ count.claims <= MaxClaims
    /\ \A i \in DOMAIN pairings.outcomes :
           LET o == pairings.outcomes[i]
           IN  /\ Honest(o.claim, o.state) /\ o.claim <= count.claims
               /\ pairings.open.phase = "claimed" => o.claim # pairings.open.claim
    /\ \A c \in Claims : Honest(c, told[c])
    /\ pairings.open.phase = "claimed" => told[pairings.open.claim] \notin Outcomes

\* The outcomes of q are those of p, or the one of p's pending claim, which
\* then pends no more.
Adds(q, p, states) ==
    /\ \A i \in DOMAIN q.outcomes :
           \/ \E j \in DOMAIN p.outcomes : q.outcomes[i] = p.outcomes[j]
           \/ /\ p.open.phase = "claimed" /\ q.open.phase # "claimed"
              /\ q.outcomes[i].claim = p.open.claim /\ q.outcomes[i].state \in states
    /\ q.open.phase = "claimed" => p.open.phase = "claimed" /\ q.open.claim = p.open.claim

\* A pairing that does not change adds nothing.
LEMMA AddsNothing ==
    ASSUME NEW p, NEW states
    PROVE  Adds(p, p, states)
BY DEF Adds

\* Settling adds the pending claim's outcome.
LEMMA SettleAdds ==
    ASSUME NEW p \in PairingStates, NEW state \in Outcomes
    PROVE  Adds(Settle(p, state), p, {state})
<1>1. CASE p.open.phase # "claimed"
  BY <1>1, AddsNothing DEF Settle
<1>2. CASE p.open.phase = "claimed"
  <2> DEFINE Entries == [claim : Nat, state : Outcomes]
             old == IF Len(p.outcomes) = Remembered THEN Tail(p.outcomes) ELSE p.outcomes
             new == [claim |-> p.open.claim, state |-> state]
  <2>1. p.open \in Opens /\ p.outcomes \in Seq(Entries)
    BY DEF PairingStates
  <2>2. new \in Entries
    BY <2>1 DEF Opens
  <2>3. /\ old \in Seq(Entries)
        /\ \A i \in DOMAIN old : \E j \in DOMAIN p.outcomes : old[i] = p.outcomes[j]
    <3>1. CASE Len(p.outcomes) = Remembered
      <4>1. p.outcomes # <<>>
        BY <2>1, <3>1, PairingBounds
      <4>2. /\ old = Tail(p.outcomes) /\ old \in Seq(Entries)
            /\ \A i \in DOMAIN old : i + 1 \in DOMAIN p.outcomes /\ old[i] = p.outcomes[i + 1]
        BY <2>1, <3>1, <4>1
      <4> QED
        BY <4>2
    <3>2. CASE Len(p.outcomes) # Remembered
      BY <2>1, <3>2
    <3> QED
      BY <3>1, <3>2
  <2>4. /\ Settle(p, state).outcomes = Append(old, new)
        /\ Settle(p, state).open.phase # "claimed"
    BY <1>2, SettleKeeps DEF Settle
  <2>5. new.claim = p.open.claim /\ new.state = state
    OBVIOUS
  <2> HIDE DEF old, new
  <2>6. \A i \in DOMAIN Append(old, new) :
            (i \in DOMAIN old /\ Append(old, new)[i] = old[i]) \/ Append(old, new)[i] = new
    BY <2>2, <2>3
  <2>7. \A i \in DOMAIN Append(old, new) :
            \/ \E j \in DOMAIN p.outcomes : Append(old, new)[i] = p.outcomes[j]
            \/ Append(old, new)[i].claim = p.open.claim /\ Append(old, new)[i].state \in {state}
    BY <2>3, <2>5, <2>6
  <2> QED
    BY <1>2, <2>4, <2>7 DEF Adds
<1> QED
  BY <1>1, <1>2

\* Refreshing adds at most an expiry.
LEMMA RefreshAdds ==
    ASSUME NEW p \in PairingStates
    PROVE  Adds(Refresh(p), p, {"expired"})
<1>1. CASE p.open.phase = "waiting" /\ ~p.open.live /\ ~p.open.nearbyLive
  <2>1. p.open \in Opens
    BY DEF PairingStates
  <2>2. Refresh(p).outcomes = p.outcomes /\ Refresh(p).open.phase = "finished"
    BY <1>1, <2>1 DEF Refresh, PairingStates, Opens
  <2> QED
    BY <2>2 DEF Adds
<1>2. CASE ~(p.open.phase = "waiting" /\ ~p.open.live /\ ~p.open.nearbyLive)
  BY <1>2, SettleAdds, AddsNothing DEF Refresh, Outcomes
<1> QED
  BY <1>1, <1>2

\* Closing adds at most a denial.
LEMMA CloseAdds ==
    ASSUME NEW p \in PairingStates
    PROVE  \A i \in DOMAIN Close(p).outcomes :
              \/ \E j \in DOMAIN p.outcomes : Close(p).outcomes[i] = p.outcomes[j]
              \/ /\ p.open.phase = "claimed"
                 /\ Close(p).outcomes[i].claim = p.open.claim
                 /\ Close(p).outcomes[i].state \in {"denied"}
<1>1. Adds(Settle(p, "denied"), p, {"denied"})
  BY SettleAdds DEF Outcomes
<1>2. Close(p).outcomes = Settle(p, "denied").outcomes
  BY DEF Close
<1> QED
  BY <1>1, <1>2 DEF Adds

\* Settling after a refresh is one of the two.
LEMMA AddsTwice ==
    ASSUME NEW p, NEW q, NEW r, NEW s, NEW t, Adds(q, p, s), Adds(r, q, t)
    PROVE  Adds(r, p, s \cup t)
BY DEF Adds

\* A step whose outcomes are of claims not approved keeps everyone honest.
LEMMA HonestOutcomes ==
    ASSUME IInv, Told, UNCHANGED <<devices, disk, told>>, past'.revoked = past.revoked,
           count'.claims = count.claims, Adds(pairings', pairings, {"denied", "expired"})
    PROVE  Told'
<1>1. pairings.open.claim <= count.claims
  BY DEF IInv, Pending
<1>2. pairings.open.phase = "claimed" => pairings.open.claim \notin devices \cup disk
  BY DEF IInv, Pending
<1>3. \A c, state : Honest(c, state) => Honest(c, state)'
  BY DEF Honest
<1>4. ASSUME NEW i \in DOMAIN pairings'.outcomes
      PROVE  LET o == pairings.outcomes[i]
             IN  (/\ Honest(o.claim, o.state) /\ o.claim <= count.claims
                  /\ pairings.open.phase = "claimed" => o.claim # pairings.open.claim)'
  <2>1. PICK o : o = pairings'.outcomes[i]
    OBVIOUS
  <2>2. CASE \E j \in DOMAIN pairings.outcomes : o = pairings.outcomes[j]
    <3>1. /\ Honest(o.claim, o.state) /\ o.claim <= count.claims
          /\ pairings.open.phase = "claimed" => o.claim # pairings.open.claim
      BY <2>2 DEF Told
    <3>2. pairings'.open.phase = "claimed" => o.claim # pairings'.open.claim
      BY <3>1 DEF Adds
    <3> QED
      BY <2>1, <3>1, <3>2 DEF Honest
  <2>3. CASE /\ pairings.open.phase = "claimed" /\ pairings'.open.phase # "claimed"
             /\ o.claim = pairings.open.claim /\ o.state \in {"denied", "expired"}
    <3>1. Honest(o.claim, o.state)
      BY <1>2, <2>3 DEF Honest
    <3> QED
      BY <1>1, <2>1, <2>3, <3>1 DEF Honest
  <2> QED
    BY <2>1, <2>2, <2>3 DEF Adds
<1>5. \A c \in Claims : Honest(c, told[c])'
  BY DEF Told, Honest
<1>6. pairings'.open.phase = "claimed" => told'[pairings'.open.claim] \notin Outcomes
  BY DEF Told, Adds
<1> QED
  BY <1>4, <1>5, <1>6 DEF Told

\* A phone hears the outcome remembered for its claim, or none.
LEMMA ClaimStatusTold ==
    ASSUME IInv, Told, NEW c \in Claims, ClaimStatus(c)
    PROVE  Told'
<1> DEFINE p == Refresh(pairings)
           known == {i \in DOMAIN p.outcomes : p.outcomes[i].claim = c}
           heard == CASE p.open.phase = "claimed" /\ p.open.claim = c -> "waiting"
                      [] known # {} -> p.outcomes[CHOOSE i \in known : TRUE].state
                      [] OTHER -> "lost"
<1>1. /\ pairings' = p /\ told' = [told EXCEPT ![c] = heard]
      /\ UNCHANGED <<devices, disk, count, past>>
  BY DEF ClaimStatus
<1>2. pairings \in PairingStates /\ told \in [Claims -> {"none", "waiting", "lost"} \cup Outcomes]
  BY DEF IInv, TypeOK
<1>3. Adds(p, pairings, {"expired"})
  BY <1>2, RefreshAdds
<1> HIDE DEF p
<1>4. \A i \in DOMAIN p.outcomes :
          /\ Honest(p.outcomes[i].claim, p.outcomes[i].state) /\ p.outcomes[i].claim <= count.claims
          /\ p.open.phase = "claimed" => p.outcomes[i].claim # p.open.claim
  <2> SUFFICES ASSUME NEW i \in DOMAIN p.outcomes
               PROVE  /\ Honest(p.outcomes[i].claim, p.outcomes[i].state)
                      /\ p.outcomes[i].claim <= count.claims
                      /\ p.open.phase = "claimed" => p.outcomes[i].claim # p.open.claim
    OBVIOUS
  <2>1. CASE \E j \in DOMAIN pairings.outcomes : p.outcomes[i] = pairings.outcomes[j]
    BY <1>3, <2>1 DEF Told, Adds
  <2>2. CASE /\ pairings.open.phase = "claimed" /\ p.open.phase # "claimed"
             /\ p.outcomes[i].claim = pairings.open.claim /\ p.outcomes[i].state = "expired"
    BY <2>2 DEF Honest, IInv, Pending
  <2> QED
    BY <1>3, <2>1, <2>2 DEF Adds
<1>5. Honest(c, heard) /\ (p.open.phase = "claimed" /\ p.open.claim = c => heard = "waiting")
  <2>1. CASE p.open.phase = "claimed" /\ p.open.claim = c
    <3>1. known = {}
      BY <1>4, <2>1
    <3>2. heard = "waiting"
      BY <2>1, <3>1
    <3> QED
      BY <3>2 DEF Honest
  <2>2. CASE ~(p.open.phase = "claimed" /\ p.open.claim = c) /\ known # {}
    <3>1. (CHOOSE i \in known : TRUE) \in known
      BY <2>2
    <3> QED
      BY <1>4, <2>2, <3>1
  <2>3. CASE ~(p.open.phase = "claimed" /\ p.open.claim = c) /\ known = {}
    BY <2>3 DEF Honest
  <2> QED
    BY <2>1, <2>2, <2>3
<1> HIDE DEF heard, known
<1>6. /\ \A d \in Claims : told'[d] = IF d = c THEN heard ELSE told[d]
  BY <1>1, <1>2
<1>7. \A d \in Claims : Honest(d, told'[d])
  BY <1>5, <1>6 DEF Told
<1>8. \A d \in Claims : Honest(d, told[d])'
  BY <1>1, <1>7 DEF Honest
<1>9. pairings'.open.phase = "claimed" => told'[pairings'.open.claim] \notin Outcomes
  <2> SUFFICES ASSUME p.open.phase = "claimed" PROVE told'[p.open.claim] \notin Outcomes
    BY <1>1
  <2>1. pairings.open.phase = "claimed" /\ p.open.claim = pairings.open.claim
    BY <1>3 DEF Adds
  <2>2. told[p.open.claim] \notin Outcomes
    BY <2>1 DEF Told
  <2>3. p.open.claim \in Claims
    <3>1. /\ pairings.open.claim \in Nat /\ count.claims \in Nat
          /\ 0 < pairings.open.claim /\ pairings.open.claim <= count.claims
      BY <1>2, <2>1 DEF IInv, Pending, TypeOK, PairingStates, Opens
    <3> QED
      BY <2>1, <3>1, PairingBounds DEF Told, Claims
  <2> QED
    BY <1>5, <1>6, <2>2, <2>3 DEF Outcomes
<1>10. \A i \in DOMAIN pairings'.outcomes :
           LET o == pairings.outcomes[i]
           IN  (/\ Honest(o.claim, o.state) /\ o.claim <= count.claims
                /\ pairings.open.phase = "claimed" => o.claim # pairings.open.claim)'
  BY <1>1, <1>4 DEF Honest
<1> QED
  BY <1>1, <1>8, <1>9, <1>10 DEF Told

\* An approval is told only once it is stored, and a denial only when it is
\* not: a save that fails leaves memory and disk as they were.
LEMMA ServeApproveTold ==
    ASSUME IInv, Told, NEW call, NEW save \in {"ok", "before"}, ServeApprove(call, save)
    PROVE  Told'
<1> DEFINE p == Refresh(pairings)
           mine == p.open.id = call.id
           approved == Approves(p, call) /\ save = "ok"
           state == IF approved THEN "approved" ELSE "denied"
           q == IF mine THEN Settle(p, state) ELSE pairings
<1>1. /\ pairings \in PairingStates /\ count.claims \in Nat
      /\ told \in [Claims -> {"none", "waiting", "lost"} \cup Outcomes]
  BY DEF IInv, TypeOK
<1>2. /\ p \in PairingStates /\ p.open.claim = pairings.open.claim
      /\ p.open.phase = "claimed" => pairings.open.phase = "claimed"
  BY <1>1, RefreshKeeps
<1>3. Adds(p, pairings, {"expired"})
  BY <1>1, RefreshAdds
<1>4. /\ pairings' = q /\ count' = AfterSave(save) /\ UNCHANGED <<told, past>>
      /\ IF Approves(p, call) THEN Stored(devices \cup {p.open.claim}, save)
         ELSE UNCHANGED <<devices, disk>>
  BY DEF ServeApprove
<1>5. count'.claims = count.claims
  BY <1>4, AfterSaveType DEF IInv
<1> HIDE DEF p
<1>6. state \in Outcomes
  BY DEF Outcomes
<1>7. CASE ~approved
  <2>1. UNCHANGED <<devices, disk>>
    BY <1>4, <1>7 DEF Stored
  <2>2. state = "denied"
    BY <1>7
  <2> HIDE DEF state, approved
  <2>3. mine => Adds(q, p, {"denied"})
    BY <1>2, <1>6, <2>2, SettleAdds
  <2>4. Adds(q, pairings, {"denied", "expired"})
    <3>1. CASE mine
      <4>1. Adds(q, pairings, {"expired"} \cup {"denied"})
        BY <1>3, <2>3, <3>1, AddsTwice
      <4> QED
        BY <4>1 DEF Adds
    <3>2. CASE ~mine
      BY <3>2, AddsNothing
    <3> QED
      BY <3>1, <3>2
  <2> HIDE DEF q
  <2> QED
    BY <1>4, <1>5, <2>1, <2>4, HonestOutcomes
<1>8. CASE approved
  <2>1. /\ mine /\ state = "approved" /\ Approves(p, call) /\ save = "ok"
        /\ p.open.phase = "claimed"
    BY <1>8 DEF Approves
  <2>2. Adds(q, p, {"approved"})
    <3> HIDE DEF state, approved
    <3> QED
      BY <1>2, <1>6, <2>1, SettleAdds
  <2>3. q.open.phase # "claimed"
    <3> HIDE DEF state, approved
    <3> QED
      BY <1>2, <1>6, <2>1, SettleKeeps
  <2> HIDE DEF q, state, approved, mine
  <2>4. devices' = devices \cup {p.open.claim} /\ disk' = devices \cup {p.open.claim}
    BY <1>4, <2>1 DEF Stored
  <2>5. devices' = disk' /\ \A d : d \in disk' <=> d \in disk \/ d = pairings.open.claim
    BY <1>2, <2>4 DEF Told
  <2>6. \A i \in DOMAIN p.outcomes : \E j \in DOMAIN pairings.outcomes : p.outcomes[i] = pairings.outcomes[j]
    BY <1>3, <2>1 DEF Adds
  <2>7. \A c, s : (c # pairings.open.claim /\ Honest(c, s)) => Honest(c, s)'
    BY <1>4, <2>5 DEF Honest, Told
  <2>8. pairings.open.phase = "claimed" /\ pairings.open.claim <= count.claims
    BY <1>2, <2>1 DEF IInv, Pending
  <2>9. ASSUME NEW i \in DOMAIN pairings'.outcomes
        PROVE  LET o == pairings.outcomes[i]
               IN  (/\ Honest(o.claim, o.state) /\ o.claim <= count.claims
                    /\ pairings.open.phase = "claimed" => o.claim # pairings.open.claim)'
    <3>1. PICK o : o = pairings'.outcomes[i]
      OBVIOUS
    <3>2. CASE \E j \in DOMAIN p.outcomes : o = p.outcomes[j]
      <4>1. /\ Honest(o.claim, o.state) /\ o.claim <= count.claims
            /\ o.claim # pairings.open.claim
        BY <2>6, <2>8, <3>2 DEF Told
      <4>2. Honest(o.claim, o.state)'
        BY <2>7, <4>1
      <4> QED
        BY <1>4, <1>5, <2>3, <3>1, <4>1, <4>2
    <3>3. CASE o.claim = p.open.claim /\ o.state = "approved"
      <4>1. Honest(o.claim, o.state)'
        BY <1>2, <2>5, <3>3 DEF Honest
      <4> QED
        BY <1>2, <1>4, <1>5, <2>3, <2>8, <3>1, <3>3, <4>1
    <3> QED
      BY <1>4, <2>2, <3>1, <3>2, <3>3 DEF Adds
  <2>10. \A c \in Claims : Honest(c, told[c])'
    <3> SUFFICES ASSUME NEW c \in Claims PROVE Honest(c, told[c])'
      OBVIOUS
    <3>1. CASE c # pairings.open.claim
      BY <1>4, <2>5, <3>1 DEF Honest, Told
    <3>2. CASE c = pairings.open.claim
      <4>1. told[c] \notin Outcomes
        BY <2>8, <3>2 DEF Told
      <4> QED
        BY <1>4, <4>1 DEF Honest, Outcomes
    <3> QED
      BY <3>1, <3>2
  <2> QED
    BY <1>4, <1>5, <2>3, <2>5, <2>9, <2>10 DEF Told
<1> QED
  BY <1>7, <1>8

\* A new claim has no outcome yet; one that meets a pending claim denies it.
LEMMA ClaimTold ==
    ASSUME IInv, Told, NEW token \in seen, Claim(token)
    PROVE  Told'
<1> DEFINE c == count.claims + 1
           p == Claimed(pairings, token, c)
           r == Refresh(pairings)
<1>1. /\ pairings \in PairingStates /\ count.claims \in Nat /\ pairings.open.claim \in Nat
      /\ pairings.open.claim <= count.claims /\ token \in Nat /\ c \in Nat
      /\ count \in [ids : Nat, tokens : Nat, claims : Nat, opens : Nat, faults : Nat,
                    budget : Budgets]
      /\ told \in [Claims -> {"none", "waiting", "lost"} \cup Outcomes]
      /\ past \in [allowed : SUBSET Nat, raced : SUBSET Nat, revoked : SUBSET Nat]
  <2>1. pairings \in PairingStates /\ pairings.open.claim \in Nat
    BY DEF IInv, TypeOK, PairingStates, Opens
  <2> QED
    BY <2>1 DEF IInv, TypeOK, Pending
<1>2. /\ count.claims < MaxClaims /\ pairings' = p
      /\ count' = [count EXCEPT !.claims = IF p.open.claim = c THEN c ELSE count.claims]
      /\ told' = IF p.open.claim = c THEN [told EXCEPT ![c] = "waiting"] ELSE told
      /\ past'.revoked = past.revoked
      /\ UNCHANGED <<devices, disk>>
  BY <1>1 DEF Claim
<1>3. /\ r \in PairingStates /\ Adds(r, pairings, {"expired"}) /\ r.open.claim = pairings.open.claim
  BY <1>1, RefreshAdds, RefreshKeeps
<1>4. \/ Adds(p, pairings, {"denied", "expired"}) /\ p.open.claim # c
      \/ p.open.claim = c /\ p.outcomes = r.outcomes /\ r.open.phase # "claimed"
  <2> HIDE DEF r
  <2>1. CASE r.open.phase = "claimed"
    <3>1. p = Settle(r, "denied")
      BY <2>1 DEF Claimed, r
    <3> HIDE DEF p
    <3>2. Adds(p, r, {"denied"}) /\ p.open.claim = pairings.open.claim
      BY <1>3, <3>1, SettleAdds, SettleKeeps DEF Outcomes
    <3>3. Adds(p, pairings, {"expired"} \cup {"denied"})
      BY <1>3, <3>2, AddsTwice
    <3> QED
      BY <1>1, <3>2, <3>3 DEF Adds
  <2>2. CASE r.open.phase # "claimed" /\ p = r
    <3> HIDE DEF p
    <3> QED
      BY <1>1, <1>3, <2>2 DEF Adds
  <2>3. CASE r.open.phase # "claimed" /\ p # r
    <3>1. p = [r EXCEPT !.open.phase = "claimed", !.open.claim = c,
                        !.open.nearby = IF token = r.open.nearby THEN 0 ELSE @,
                        !.open.nearbyLive = IF token = r.open.nearby THEN FALSE ELSE @]
      BY <2>3 DEF Claimed, r
    <3> HIDE DEF p
    <3>2. r.open \in Opens
      BY <1>3 DEF PairingStates
    <3>3. p.open.claim = c /\ p.outcomes = r.outcomes
      BY <1>3, <3>1, <3>2 DEF PairingStates, Opens
    <3> QED
      BY <2>3, <3>3
  <2> QED
    BY <2>1, <2>2, <2>3
<1> HIDE DEF p, r
<1>5. CASE Adds(p, pairings, {"denied", "expired"}) /\ p.open.claim # c
  <2>1. UNCHANGED told /\ count'.claims = count.claims
    BY <1>1, <1>2, <1>5
  <2> QED
    BY <1>2, <1>5, <2>1, HonestOutcomes
<1>6. CASE p.open.claim = c /\ p.outcomes = r.outcomes /\ r.open.phase # "claimed"
  <2>1. count'.claims = c /\ told' = [told EXCEPT ![c] = "waiting"] /\ c \in Claims /\ c <= MaxClaims
    BY <1>1, <1>2, <1>6, PairingBounds DEF Claims
  <2>2. \A k, s : Honest(k, s) => Honest(k, s)'
    BY <1>2 DEF Honest
  <2>3. ASSUME NEW i \in DOMAIN pairings'.outcomes
        PROVE  LET o == pairings.outcomes[i]
               IN  (/\ Honest(o.claim, o.state) /\ o.claim <= count.claims
                    /\ pairings.open.phase = "claimed" => o.claim # pairings.open.claim)'
    <3>1. PICK o : o = pairings'.outcomes[i]
      OBVIOUS
    <3>2. Honest(o.claim, o.state) /\ o.claim <= count.claims /\ o.claim \in Nat
      <4>1. CASE \E j \in DOMAIN pairings.outcomes : o = pairings.outcomes[j]
        <5>1. pairings.outcomes \in Seq([claim : Nat, state : Outcomes])
          BY <1>1 DEF PairingStates
        <5>2. PICK j \in DOMAIN pairings.outcomes : o = pairings.outcomes[j]
          BY <4>1
        <5>3. pairings.outcomes[j] \in [claim : Nat, state : Outcomes]
          BY <5>1, OutcomeOf
        <5>4. o.claim \in Nat
          BY <5>2, <5>3
        <5> QED
          BY <5>2, <5>4 DEF Told
      <4>2. CASE pairings.open.phase = "claimed" /\ o.claim = pairings.open.claim /\ o.state = "expired"
        BY <1>1, <4>2 DEF Honest, IInv, Pending
      <4> QED
        BY <1>2, <1>3, <1>6, <3>1, <4>1, <4>2 DEF Adds
    <3>3. Honest(o.claim, o.state)'
      BY <2>2, <3>2
    <3> QED
      BY <1>1, <1>2, <1>6, <2>1, <3>1, <3>2, <3>3
  <2>4. \A k \in Claims : Honest(k, told[k])'
    BY <1>1, <1>2, <2>1 DEF Honest, Told
  <2>5. told'[pairings'.open.claim] \notin Outcomes
    BY <1>1, <1>2, <1>6, <2>1 DEF Outcomes
  <2> QED
    BY <1>2, <2>1, <2>3, <2>4, <2>5 DEF Told
<1> QED
  BY <1>4, <1>5, <1>6

\* A pairing minted again, polled or cancelled denies or expires what pended.
LEMMA ServeTold ==
    ASSUME IInv, Told, NEW call, ServePair(call) \/ ServePoll(call) \/ ServeCancel(call)
    PROVE  Told'
<1>1. pairings \in PairingStates
  BY DEF IInv, TypeOK
<1>2. CASE ServePair(call)
  <2> DEFINE p == Mint(pairings, count.ids + 1, count.tokens + 1)
  <2>1. /\ pairings' = p /\ UNCHANGED <<devices, disk, told, past>>
        /\ count' = [count EXCEPT !.tokens = @ + 1,
                                  !.ids = IF Unclaimed(pairings.open) THEN @ ELSE @ + 1]
    BY <1>2 DEF ServePair
  <2>2. count'.claims = count.claims
    BY <2>1 DEF IInv, TypeOK
  <2>3. p.outcomes = Close(pairings).outcomes
    BY DEF Mint
  <2>4. p.open.phase = "waiting"
    <3>1. pairings.open \in Opens
      BY <1>1 DEF PairingStates
    <3> QED
      BY <3>1, NoPairingType DEF Mint, Opens
  <2> HIDE DEF p
  <2>5. Adds(p, pairings, {"denied", "expired"})
    BY <1>1, <2>3, <2>4, CloseAdds DEF Adds
  <2> QED
    BY <2>1, <2>2, <2>5, HonestOutcomes
<1>3. CASE ServePoll(call)
  <2>1. pairings' \in {pairings, Refresh(pairings)} /\ UNCHANGED <<devices, disk, told, count, past>>
    BY <1>3 DEF ServePoll
  <2>2. Adds(Refresh(pairings), pairings, {"expired"}) /\ Adds(pairings, pairings, {"expired"})
    BY <1>1, RefreshAdds, AddsNothing
  <2>3. Adds(pairings', pairings, {"denied", "expired"})
    BY <2>1, <2>2 DEF Adds
  <2> QED
    BY <2>1, <2>3, HonestOutcomes
<1>4. CASE ServeCancel(call)
  <2>1. pairings' \in {pairings, Close(pairings)} /\ UNCHANGED <<devices, disk, told, count, past>>
    BY <1>4 DEF ServeCancel
  <2>2. Close(pairings).open.phase # "claimed"
    BY <1>1, CloseType
  <2>3. Adds(pairings', pairings, {"denied", "expired"})
    BY <1>1, <2>1, <2>2, CloseAdds, AddsNothing DEF Adds
  <2> QED
    BY <2>1, <2>3, HonestOutcomes
<1> QED
  BY <1>2, <1>3, <1>4

\* A sealed token or a clock leaves the outcomes, or refreshes them.
LEMMA TimeTold ==
    ASSUME IInv, Told, NearbyReveal \/ TokenExpires \/ NearbyExpires \/ ApprovalExpires
    PROVE  Told'
<1>1. pairings \in PairingStates /\ pairings.open \in Opens
  BY DEF IInv, TypeOK, PairingStates
<1>2. CASE NearbyReveal
  <2> DEFINE p == Refresh(pairings)
             q == [p EXCEPT !.open.reveals = @ + 1, !.open.nearbyLive = TRUE,
                            !.open.nearby = count.tokens + 1]
  <2>1. p \in PairingStates /\ Adds(p, pairings, {"expired"})
    BY <1>1, RefreshKeeps, RefreshAdds
  <2>2. /\ pairings' \in {p, q} /\ UNCHANGED <<devices, disk, told, past>>
        /\ count'.claims = count.claims
    BY <1>2 DEF NearbyReveal, IInv, TypeOK
  <2> HIDE DEF p
  <2>3. q.outcomes = p.outcomes /\ q.open.phase = p.open.phase /\ q.open.claim = p.open.claim
    BY <2>1 DEF PairingStates, Opens
  <2> HIDE DEF q
  <2>4. Adds(pairings', pairings, {"denied", "expired"})
    BY <2>1, <2>2, <2>3 DEF Adds
  <2> QED
    BY <2>2, <2>4, HonestOutcomes
<1>3. CASE TokenExpires \/ NearbyExpires \/ ApprovalExpires
  <2>1. /\ pairings'.outcomes = pairings.outcomes /\ pairings'.open.phase = pairings.open.phase
        /\ pairings'.open.claim = pairings.open.claim
        /\ UNCHANGED <<devices, disk, told, count, past>>
    BY <1>1, <1>3 DEF TokenExpires, NearbyExpires, ApprovalExpires, PairingStates, Opens
  <2>2. Adds(pairings', pairings, {"denied", "expired"})
    BY <2>1 DEF Adds
  <2> QED
    BY <2>1, <2>2, HonestOutcomes
<1> QED
  BY <1>2, <1>3

\* A device removed was approved, or was none.
LEMMA RevokeTold ==
    ASSUME IInv, Told, NEW d \in devices, NEW save \in {"ok", "before"}, Revoke(d, save)
    PROVE  Told'
<1>1. /\ UNCHANGED <<pairings, told>> /\ count'.claims = count.claims
      /\ past'.revoked = IF save = "before" THEN past.revoked ELSE past.revoked \cup {d}
      /\ devices' = IF save = "ok" THEN devices \ {d} ELSE devices
      /\ disk' = IF save = "before" THEN disk ELSE devices \ {d}
  BY AfterSaveType DEF Revoke, Stored, IInv, TypeOK
<1>2. \A c, s : Honest(c, s) => Honest(c, s)'
  BY <1>1 DEF Honest, Told
<1>3. devices' = disk'
  BY <1>1 DEF Told
<1>4. \A i \in DOMAIN pairings'.outcomes :
          LET o == pairings.outcomes[i]
          IN  (/\ Honest(o.claim, o.state) /\ o.claim <= count.claims
               /\ pairings.open.phase = "claimed" => o.claim # pairings.open.claim)'
  <2> SUFFICES ASSUME NEW i \in DOMAIN pairings.outcomes
               PROVE  LET o == pairings.outcomes[i]
                      IN  (/\ Honest(o.claim, o.state) /\ o.claim <= count.claims
                           /\ pairings.open.phase = "claimed" => o.claim # pairings.open.claim)'
    BY <1>1
  <2>1. PICK o : o = pairings.outcomes[i]
    OBVIOUS
  <2>2. /\ Honest(o.claim, o.state) /\ o.claim <= count.claims
        /\ pairings.open.phase = "claimed" => o.claim # pairings.open.claim
    BY <2>1 DEF Told
  <2>3. Honest(o.claim, o.state)'
    BY <1>2, <2>2
  <2> QED
    BY <1>1, <2>1, <2>2, <2>3
<1>5. \A c \in Claims : Honest(c, told[c])'
  <2> SUFFICES ASSUME NEW c \in Claims PROVE Honest(c, told[c])'
    OBVIOUS
  <2>1. PICK s : s = told[c]
    OBVIOUS
  <2>2. Honest(c, s)'
    BY <1>2, <2>1 DEF Told
  <2> QED
    BY <1>1, <2>1, <2>2
<1> QED
  BY <1>1, <1>3, <1>4, <1>5 DEF Told

\* A restart forgets outcomes; the store it reads is the one memory had.
LEMMA RestartTold ==
    ASSUME IInv, Told, RestartDaemon
    PROVE  Told'
<1>1. /\ pairings' = [open |-> NoPairing, outcomes |-> <<>>] /\ devices' = disk
      /\ UNCHANGED <<disk, told, past>> /\ count'.claims = count.claims
  BY DEF RestartDaemon, IInv, TypeOK
<1>2. pairings'.open.phase # "claimed" /\ DOMAIN pairings'.outcomes = {}
  BY <1>1, NoPairingType
<1>3. \A c \in Claims : Honest(c, told[c])'
  BY <1>1 DEF Told, Honest
<1> QED
  BY <1>1, <1>2, <1>3 DEF Told

\* Every step keeps phones told the truth, if no save fails after its rename.
LEMMA NextTold ==
    ASSUME SaveFaults \subseteq {"before"}, IInv, Told, [Next]_vars
    PROVE  Told'
<1>1. \A save \in Saves : save \in {"ok", "before"}
  BY DEF Saves
<1>2. CASE UNCHANGED <<pairings, devices, disk, told, past>> /\ count'.claims = count.claims
  <2>1. Adds(pairings', pairings, {"denied", "expired"})
    BY <1>2, AddsNothing
  <2> QED
    BY <1>2, <2>1, HonestOutcomes
<1>3. ASSUME NEW w \in Windows, OpenDialog(w) \/ RestartDialog(w) \/ ShowFails(w)
      PROVE  Told'
  <2>1. UNCHANGED <<pairings, devices, disk, told, past>> /\ count'.claims = count.claims
    BY <1>3 DEF OpenDialog, RestartDialog, ShowFails, daemon, IInv, TypeOK
  <2> QED
    BY <1>2, <2>1
<1>4. ASSUME NEW w \in Windows, Send(w) \/ Deadline(w) \/ CloseDialog(w) \/ Receive(w)
      PROVE  Told'
  <2>1. UNCHANGED <<pairings, devices, disk, told, past, count>>
    BY <1>4 DEF Send, Deadline, CloseDialog, Receive, daemon
  <2> QED
    BY <1>2, <2>1
<1>5. ASSUME NEW w \in Windows, NEW allow \in BOOLEAN, Answer(w, allow)
      PROVE  Told'
  <2>1. /\ UNCHANGED <<pairings, devices, disk, told, count>> /\ past'.revoked = past.revoked
    BY <1>5 DEF Answer, daemon, IInv, TypeOK
  <2>2. Adds(pairings', pairings, {"denied", "expired"})
    BY <2>1, AddsNothing
  <2> QED
    BY <2>1, <2>2, HonestOutcomes
<1>6. ASSUME NEW w \in Windows \cup {"none"}, Serve(w)
      PROVE  Told'
  <2>1. PICK call :
           \/ ServePair(call) \/ ServePoll(call) \/ ServeCancel(call)
           \/ \E save \in Saves : ServeApprove(call, save)
    BY <1>6 DEF Serve
  <2>2. CASE \E save \in Saves : ServeApprove(call, save)
    BY <1>1, <2>2, ServeApproveTold
  <2> QED
    BY <2>1, <2>2, ServeTold
<1>7. ASSUME NEW call, CallFails(call) \/ CallTimesOut(call)
      PROVE  Told'
  <2>1. UNCHANGED <<pairings, devices, disk, told, past>> /\ count'.claims = count.claims
    BY <1>7 DEF CallFails, CallTimesOut, daemon, IInv, TypeOK
  <2> QED
    BY <1>2, <2>1
<1>8. ASSUME NEW token \in seen, Claim(token)
      PROVE  Told'
  BY <1>8, ClaimTold
<1>9. ASSUME NEW c \in Claims, ClaimStatus(c)
      PROVE  Told'
  BY <1>9, ClaimStatusTold
<1>10. ASSUME NEW d \in devices, NEW save \in Saves, Revoke(d, save)
       PROVE  Told'
  BY <1>1, <1>10, RevokeTold
<1>11. CASE UNCHANGED vars
  BY <1>2, <1>11 DEF vars
<1> QED
  BY <1>3, <1>4, <1>5, <1>6, <1>7, <1>8, <1>9, <1>10, <1>11, TimeTold, RestartTold DEF Next

\* Both invariants hold in every behaviour without a save that fails late.
LEMMA ToldHolds ==
    ASSUME SaveFaults \subseteq {"before"}
    PROVE  Spec => [](IInv /\ Told)
<1>1. Init => IInv /\ Told
  <2> SUFFICES ASSUME Init PROVE IInv /\ Told
    OBVIOUS
  <2>1. /\ devices = {} /\ disk = {} /\ count.claims = 0 /\ told = [c \in Claims |-> "none"]
        /\ pairings.open = NoPairing /\ DOMAIN pairings.outcomes = {}
    BY DEF Init
  <2>2. Told
    BY <2>1, NoPairingType, PairingBounds DEF Told, Honest
  <2> QED
    BY <2>2, InitHolds
<1>2. (IInv /\ Told) /\ [Next]_vars => (IInv /\ Told)'
  BY NextKeeps, NextTold
<1> QED
  BY <1>1, <1>2, PTL DEF Spec

\* What a phone hears of its claim is what the store holds, through failed
\* saves, daemon restarts and revocations, provided a save that fails leaves
\* the old store (Pairings::answer, Devices::save_or_undo).
THEOREM ToldIsKept ==
    ASSUME SaveFaults \subseteq {"before"}
    PROVE  Spec => []ToldAsKept
<1>1. IInv /\ Told => ToldAsKept
  BY DEF Told, Honest, ToldAsKept
<1> QED
  BY <1>1, ToldHolds, PTL

\* Under the same condition memory never claims a device the disk lacks; the
\* sync of the directory after the rename is the one exception
\* (Devices::save_or_undo).
THEOREM MemoryIsOnDisk ==
    ASSUME SaveFaults \subseteq {"before"}
    PROVE  Spec => []MemoryOnDisk
<1>1. IInv /\ Told => MemoryOnDisk
  BY DEF Told, MemoryOnDisk
<1> QED
  BY <1>1, ToldHolds, PTL

=============================================================================
