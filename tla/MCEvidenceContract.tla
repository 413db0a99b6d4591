-------------------------- MODULE MCEvidenceContract --------------------------
EXTENDS EvidenceContract
=============================================================================
