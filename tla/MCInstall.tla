----------------------------- MODULE MCInstall -----------------------------
EXTENDS InstallTransaction, TLC

\* Processes differ in nothing but their pid.
Symmetry == Permutations(Procs)
=============================================================================
