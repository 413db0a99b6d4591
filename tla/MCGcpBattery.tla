---------------------------- MODULE MCGcpBattery ----------------------------
(* The battery run of the offline GCP lab for TLC.                         *)
EXTENDS GcpBattery

MCPhases == <<"2e-performance", "2f-tamper">>
=============================================================================
