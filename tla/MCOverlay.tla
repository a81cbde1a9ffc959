----------------------------- MODULE MCOverlay -----------------------------
(* Small instances of the overlay: who its clients are.                    *)
EXTENDS Overlay, TLC

CONSTANTS u1, u2, small, p0, p1, off1, r0, r1, c0, c1

TwoUsers     == {u1, u2}
OneFeeder    == {u2}
OneSize      == {small}
ThePositions == {p0, p1, off1}
OffTheScreen == {off1}
TwoRotations == {r0, r1}
TwoCrops     == {c0, c1}
JustOne      == {1}
\* Failures after which the client is expected to carry on.
SomeFaults   == {"q", "dq"}
NoFaults     == {}
NoRaces      == {}
CommitRace   == {"commit"}

=============================================================================
