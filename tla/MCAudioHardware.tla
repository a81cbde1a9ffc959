-------------------------- MODULE MCAudioHardware --------------------------
(* Small instances of the audio HAL: who its clients are.                  *)
EXTENDS AudioHardware, TLC

CONSTANTS o1, i1, i2, m1, m2

OneOutput    == {o1}
OneInput     == {i1}
TwoInputs    == {i1, i2}
OneControl   == {m1}
TwoControls  == {m1, m2}
OpensSucceed == {TRUE}
OpensMayFail == {TRUE, FALSE}

\* The control threads are interchangeable.
ControlSymmetry == Permutations(Controls)
=============================================================================
