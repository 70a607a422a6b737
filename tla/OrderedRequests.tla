---------------------------- MODULE OrderedRequests ----------------------------
(***************************************************************************)
(* What a connection promises the owner of its handle about requests        *)
(* (sheprd-client: ClientHandle, run_connection), whatever the order in      *)
(* which the daemon answers.  The daemon acts on them one by one in the      *)
(* order of issue, skipping only what the connection rejected; the owner is  *)
(* answered in that order too, and only what was acted on.  So nothing is    *)
(* acted on or answered twice, and what is rejected never is.               *)
(***************************************************************************)
EXTENDS Naturals, Sequences

VARIABLES
  issued,    \* commands issued; requests are numbered among them
  asked,     \* the requests
  acted,     \* those the daemon acted on
  replies,   \* those answered, in order
  rejected   \* those the connection rejected

vars == <<issued, asked, acted, replies, rejected>>

Init == issued = 0 /\ asked = {} /\ acted = {} /\ replies = <<>> /\ rejected = {}

(* The owner issues a command, a request or another. *)
Ask ==
  /\ issued' = issued + 1
  /\ asked' \in {asked, asked \cup {issued + 1}}
  /\ UNCHANGED <<acted, replies, rejected>>

(* The daemon acts on the next request. *)
Act(id) ==
  /\ id \notin acted \cup rejected
  /\ \A a \in asked \ (acted \cup rejected) : id <= a
  /\ acted' = acted \cup {id}
  /\ UNCHANGED <<issued, asked, replies, rejected>>

(* One that it has not acted on is rejected. *)
Reject(id) ==
  /\ id \notin acted \cup rejected
  /\ rejected' = rejected \cup {id}
  /\ UNCHANGED <<issued, asked, acted, replies>>

Replied == {replies[i] : i \in DOMAIN replies}

(* The next requests are answered: one, or two when the second's response    *)
(* came first and was held back.                                            *)
Answer(ids) ==
  /\ \A i \in DOMAIN ids : ids[i] \in acted \ Replied
  /\ \A i, j \in DOMAIN ids : i < j => ids[i] < ids[j]
  /\ replies' = replies \o ids
  /\ \A a \in asked \ (rejected \cup Replied') : \A i \in DOMAIN ids : ids[i] < a
  /\ UNCHANGED <<issued, asked, acted, rejected>>

Next ==
  \/ Ask
  \/ \E id \in asked : Act(id) \/ Reject(id) \/ Answer(<<id>>)
  \/ \E first, second \in asked : Answer(<<first, second>>)

Spec == Init /\ [][Next]_vars
====
