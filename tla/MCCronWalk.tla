------------------------------ MODULE MCCronWalk ------------------------------
(* Small instances of CronWalk for TLC: three hours of two minutes a day. *)
EXTENDS CronWalk

SomeMinutes == {{0}, {1}, {0, 1}}
SomeHours == {{0}, {1}, {2}, {0, 2}}
SomeDays == {[any |-> TRUE, set |-> 0..9]} \cup [any : {FALSE}, set : {{1}, {2}}]
SomeWeekDays == {[any |-> TRUE, set |-> 0..1]} \cup [any : {FALSE}, set : {{0}, {1}}]

(* Zones that change by an hour, set forward anywhere but at midnight; at     *)
(* midnight; and zones set back by half an hour.                             *)
ByAnHour == [shift : {16, 20}, delta : {4}] \cup [shift : {12, 16, 20, 24}, delta : {-4}] \cup
            [shift : {0}, delta : {0}]
AtMidnight == [shift : {12, 24}, delta : {4}]
ByHalfAnHour == [shift : {16, 20}, delta : {-2}]
====
