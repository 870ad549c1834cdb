-------------------------- MODULE MCGenerateCommand --------------------------
EXTENDS GenerateCommandProperties, TLC

Symmetry == Permutations(Procs)

=============================================================================
