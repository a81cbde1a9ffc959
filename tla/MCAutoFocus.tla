----------------------------- MODULE MCAutoFocus ----------------------------
(* Small instances of the autofocus.                                       *)
EXTENDS AutoFocus, TLC

AllFaults == FaultyCalls

=============================================================================
