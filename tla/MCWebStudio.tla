---------------------------- MODULE MCWebStudio ----------------------------
EXTENDS WebStudioProperties, TLC

Symmetry == Permutations(Commands)

=============================================================================
