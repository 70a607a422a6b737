------------------------------ MODULE RunLedger ------------------------------
(***************************************************************************)
(* What the automation daemon promises about the runs it records, whatever   *)
(* its crashes and restarts (sheprd-automate, docs/automations.md "How a run *)
(* goes"): a script runs only in a form approved on this host, one run at a  *)
(* time; a firing never runs twice; a run ends once, and is never resumed.   *)
(***************************************************************************)
EXTENDS Naturals, Sequences

CONSTANTS
  Scripts,  \* paths of scripts
  Hashes,   \* what an approval is pinned to
  Times,    \* occurrences of a schedule
  Ends,     \* how a run a daemon watched can end
  None      \* a manual run's firing

VARIABLES
  runs,     \* the runs table, in the order of its ids
  allowed   \* <<script, hash>> approved at some time

vars == <<runs, allowed>>

Running(r) == r \in DOMAIN runs /\ runs[r].state = "running"

Init == runs = <<>> /\ allowed = {}

(* A person approves a script in one form. *)
Allow(s, h) ==
  /\ allowed' = allowed \cup {<<s, h>>}
  /\ UNCHANGED runs

(* A run starts: no other of its script is running, its form is approved,    *)
(* and its firing, if it stands for one, has no run yet.                     *)
Record(s, h, scheduled) ==
  /\ <<s, h>> \in allowed
  /\ \A r \in DOMAIN runs : runs[r].script = s => ~Running(r)
  /\ scheduled # None => \A r \in DOMAIN runs : ~(runs[r].script = s /\ runs[r].scheduled = scheduled)
  /\ runs' = Append(runs, [script |-> s, hash |-> h, scheduled |-> scheduled, state |-> "running"])
  /\ UNCHANGED allowed

End(r, state) ==
  /\ Running(r)
  /\ runs' = [runs EXCEPT ![r].state = state]
  /\ UNCHANGED allowed

(* A new daemon gives up every run its predecessor left. *)
Interrupt ==
  /\ runs' = [r \in DOMAIN runs |-> IF Running(r) THEN [runs[r] EXCEPT !.state = "interrupted"] ELSE runs[r]]
  /\ UNCHANGED allowed

Next ==
  \/ \E s \in Scripts, h \in Hashes : Allow(s, h)
  \/ \E s \in Scripts, h \in Hashes, o \in Times \cup {None} : Record(s, h, o)
  \/ \E r \in DOMAIN runs, e \in Ends : End(r, e)
  \/ Interrupt

Spec == Init /\ [][Next]_vars
====
