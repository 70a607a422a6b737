-------------------------- MODULE MCAutomationDaemon --------------------------
(* Small instances of AutomationDaemon for TLC. *)
EXTENDS AutomationDaemon

CONSTANTS t1, w1

(* The forms are interchangeable: a script starts in one of them. *)
OneForm == {[text |-> t1, work |-> w1]}

(* A script that changes under the daemon, and runs by hand. *)
Changing == [kinds |-> {"approve", "run now"}, commands |-> 2, edits |-> 1, crashes |-> 1,
             setBacks |-> 0, until |-> 1, runs |-> 2]

(* A firing that could be repeated, for a script that is switched off and on. *)
Repeating == [kinds |-> {"approve", "disable", "enable"}, commands |-> 2, edits |-> 0, crashes |-> 1,
              setBacks |-> 1, until |-> 1, runs |-> 2]

(* Runs that are asked to stop, with the daemon or alone, and scripts held. *)
Stopping == [kinds |-> {"approve", "pause all", "resume all", "run now", "stop", "shutdown"},
             commands |-> 3, edits |-> 0, crashes |-> 1,
             setBacks |-> 0, until |-> 1, runs |-> 1]

(* Scripts paused and resumed while the daemon is away. *)
Away == [kinds |-> {"approve", "pause", "resume"}, commands |-> 3,
         edits |-> 0, crashes |-> 1, setBacks |-> 0, until |-> 2, runs |-> 1]

(* Runs that fail in a row, one more than enough. *)
Failing == [kinds |-> {"approve"}, commands |-> 1, edits |-> 0, crashes |-> 1,
            setBacks |-> 0, until |-> 3, runs |-> 3]

Around == {Changing, Repeating, Stopping, Away, Failing}

(* Histories in which the code departs from what is said of it. *)
PausingAll == {[Away EXCEPT !.kinds = {"approve", "pause all", "resume all"}]}
Resuming == {[Away EXCEPT !.kinds = {"approve", "pause", "resume"}]}
Disabling == {[Failing EXCEPT !.kinds = {"approve", "disable"}, !.commands = 2, !.crashes = 0, !.until = 1, !.runs = 1]}
EditedBack == {[Changing EXCEPT !.edits = 2, !.crashes = 0]}
====
