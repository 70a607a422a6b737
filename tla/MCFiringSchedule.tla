--------------------------- MODULE MCFiringSchedule ---------------------------
(* Small instances of FiringSchedule for TLC. *)
EXTENDS FiringSchedule

Even == {{t \in 0..MaxTime : t % n = m} : n \in {2, 3}, m \in {0, 1}}
Bursts == {1..6}
====
