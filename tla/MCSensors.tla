----------------------------- MODULE MCSensors ------------------------------
(* Instances of SensorsPoll for TLC.                                       *)
EXTENDS SensorsPoll

TwoValues == {"low", "high"}
AllEvents == TwoValues \cup {"syn"}
Nothing == "none"

\* Two sensors: the accelerometer is switched on and off, and measures nothing.
TwoDrivers == <<"proximity", "kxsd9">>
ShortRings == [s \in Sensors |-> 2]
OneReport == [s \in Sensors |-> IF s = "proximity" THEN 2 ELSE 0]

\* The light sensor alone, with a ring of the code's own size.
OneDriver == <<"light">>
FullRing == [s \in Sensors |-> 4]
TwoReports == [s \in Sensors |-> 4]

=============================================================================
