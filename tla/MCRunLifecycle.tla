--------------------------- MODULE MCRunLifecycle ---------------------------
EXTENDS RunLifecycleInvariant, TLC

Symmetry == Permutations(Procs)

=============================================================================
