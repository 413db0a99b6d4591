----------------------------- MODULE MCBootHold -----------------------------
EXTENDS BootHold

\* One workload of each kind that is asked for, named by its kind.
KindOf == [w \in Workloads |-> w]

\* Signed policies worth telling apart: one mechanism off.
OneOff == {[enabled |-> TRUE, hold |-> h, ordering |-> ~h] : h \in BOOLEAN}
=============================================================================
