---------------------------- MODULE MCCameraHal ----------------------------
(* Small instances of the camera.                                          *)
EXTENDS CameraHal, TLC

BothModes   == {"samsung", "third"}
AllFaults   == FaultyCalls
NoRaces     == {}
\* The calls that come too early for the HAL: each breaks an invariant.
LateCalls    == {"late"}
OverlayCalls == {"overlay"}

=============================================================================
