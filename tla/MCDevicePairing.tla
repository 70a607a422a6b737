--------------------------- MODULE MCDevicePairing ---------------------------
\* Small instances of DevicePairing.
EXTENDS DevicePairing

\* Two windows' dialogs on the same pairing.
Crossing == [windows |-> Windows, nearby |-> FALSE, tokens |-> 2, opens |-> 2, faults |-> 0]

\* One window whose QR rotates, with a nearby phone beside it.
Rotating == [windows |-> {CHOOSE w \in Windows : TRUE}, nearby |-> TRUE, tokens |-> 3,
             opens |-> 1, faults |-> 0]

\* One window, while a save or a call fails or the daemon restarts: once
\* beside a reopened or restarted dialog, twice in a row in one.
Failing == [Rotating EXCEPT !.nearby = FALSE, !.tokens = 2, !.opens = 2, !.faults = 1]
FailingTwice == [Failing EXCEPT !.opens = 1, !.faults = 2]

Ways == {Crossing, Rotating, Failing, FailingTwice}
=============================================================================
