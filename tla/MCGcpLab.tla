------------------------------ MODULE MCGcpLab ------------------------------
(* The GCP lab slot for TLC.                                               *)
EXTENDS GcpLab
=============================================================================
